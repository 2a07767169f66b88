------------------------- MODULE ParseSession_proofs -------------------------
(***************************************************************************)
(* Proofs about ParseSession, for all threads, texts, grammars, hooks and  *)
(* depths of nesting.                                                      *)
(***************************************************************************)
EXTENDS ParseSession, TLAPS, SequenceTheorems

-----------------------------------------------------------------------------
(* The inductive invariant. *)

HostSays(r) == IF r.hooks THEN SUBSET HostReport ELSE {{}}

\* What a call's own variables say at each stage.
Local(f) ==
    /\ f.stage \notin {"begin", "return"} => f.req.text # NULL
    /\ f.stage \in {"begin", "enter", "parse", "leave", "take"} =>
          f.diags = {} /\ f.given = 0 /\ ~f.complete
    /\ f.stage \in {"begin", "enter", "parse", "leave"} => ~f.directive
    /\ f.stage \in {"parse", "leave"} =>
          f.base = f.req.lang /\ (f.req.text \in Marked <=> f.req.lang = Fortran)
    /\ f.directive => f.base = f.req.lang /\ Service!Refusal(f.req) = {}
    /\ f.stage = "take" /\ ~f.directive => Service!Refusal(f.req) # {}
    /\ f.stage \in {"hooks", "inParse", "inValidate"} =>
          /\ f.directive /\ f.req.hooks /\ ~f.complete
          /\ f.diags \subseteq HostReport
          /\ f.given <= Fragments[f.req.text]
    /\ f.stage = "inParse" => f.given < Fragments[f.req.text]
    /\ f.stage = "inValidate" => f.given = Fragments[f.req.text]
    /\ f.stage = "check" =>
          /\ f.directive /\ (f.complete <=> f.req.hooks)
          /\ f.diags \in HostSays(f.req)
    /\ f.stage = "return" /\ f.directive =>
          /\ f.complete <=> f.req.hooks
          /\ \E D \in HostSays(f.req) : f.diags = D \cup Service!Faults(f.req)
    /\ f.stage = "return" /\ ~f.directive =>
          /\ ~f.complete
          /\ f.diags = Service!Refusal(f.req) /\ f.diags # {}
    /\ f.complete => f.directive /\ f.req.hooks /\ f.given = Fragments[f.req.text]

\* Only the innermost call of a thread is outside its hooks.
CallsNest ==
    \A t \in Thread :
        /\ Depth(t) <= MaxDepth
        /\ \A i \in 1 .. Depth(t) :
              /\ Local(frames[t][i])
              /\ i < Depth(t) => frames[t][i].stage \in {"inParse", "inValidate"}

\* The shared variables are the innermost call's while it needs them.
SlotsServeTop ==
    \A t \in Thread : frames[t] # <<>> =>
        /\ Top(t).stage \in {"enter", "parse", "leave", "take"} =>
              userLang[t] = Top(t).req.lang
        /\ Top(t).stage = "parse" =>
              current[t] = {} /\ storage[t] = {} /\ residue[t] \subseteq {"lexer"}
        /\ Top(t).stage = "leave" =>
              storage[t] = {Self(t)} /\ current[t] = Service!Refusal(Top(t).req)
        /\ Top(t).stage = "take" => current[t] = Service!Refusal(Top(t).req)

StoredByThread ==
    \A t \in Thread : \A o \in storage[t] : o[1] = t /\ o \notin Owned

SessionInv ==
    /\ TypeOK /\ CallsNest /\ SlotsServeTop /\ StoredByThread
    /\ alive = Owned \cup UNION {storage[t] : t \in Thread}

-----------------------------------------------------------------------------
(* Frames. *)

LEMMA TopFacts ==
    ASSUME TypeOK, NEW t \in Thread, frames[t] # <<>>
    PROVE  /\ Depth(t) \in Nat /\ Depth(t) >= 1 /\ Depth(t) \in 1 .. Depth(t)
           /\ DOMAIN frames[t] = 1 .. Depth(t)
           /\ frames[t] \in Seq(Frame)
           /\ Top(t) \in Frame
<1>1. frames[t] \in Seq(Frame) BY DEF TypeOK
<1>2. Len(frames[t]) \in Nat /\ Len(frames[t]) # 0 /\ DOMAIN frames[t] = 1 .. Len(frames[t])
    BY <1>1
<1>3. Len(frames[t]) >= 1 /\ Len(frames[t]) \in 1 .. Len(frames[t]) BY <1>2
<1>4. frames[t][Len(frames[t])] \in Frame BY <1>1, <1>3
<1> QED BY <1>1, <1>2, <1>3, <1>4 DEF Depth, Top

LEMMA UpdateFacts ==
    ASSUME TypeOK, NEW t \in Thread, frames[t] # <<>>, NEW f \in Frame, Update(t, f)
    PROVE  /\ frames' \in [Thread -> Seq(Frame)]
           /\ \A u \in Thread : Depth(u)' = Depth(u)
           /\ frames'[t] # <<>>
           /\ Top(t)' = f
           /\ \A u \in Thread \ {t} : frames'[u] = frames[u]
           /\ \A i \in 1 .. Depth(t) :
                 frames'[t][i] = IF i = Depth(t) THEN f ELSE frames[t][i]
<1> DEFINE s == [frames[t] EXCEPT ![Depth(t)] = f]
<1>1. frames \in [Thread -> Seq(Frame)] BY DEF TypeOK
<1>2. /\ frames[t] \in Seq(Frame) /\ Depth(t) \in 1 .. Depth(t)
      /\ Depth(t) \in Nat /\ Depth(t) >= 1
      /\ DOMAIN frames[t] = 1 .. Depth(t) /\ Depth(t) = Len(frames[t])
    BY TopFacts DEF Depth
<1>3. /\ s \in Seq(Frame) /\ Len(s) = Depth(t) /\ DOMAIN s = 1 .. Depth(t)
      /\ \A i \in 1 .. Depth(t) : s[i] = IF i = Depth(t) THEN f ELSE frames[t][i]
    BY <1>2
<1>4. frames' = [frames EXCEPT ![t] = s] BY DEF Update
<1>5. frames' \in [Thread -> Seq(Frame)] /\ frames'[t] = s
      /\ \A u \in Thread \ {t} : frames'[u] = frames[u]
    BY <1>1, <1>3, <1>4
<1>6. s # <<>> BY <1>2, <1>3
<1>7. \A u \in Thread : Depth(u)' = Depth(u) BY <1>2, <1>3, <1>5 DEF Depth
<1>8. Top(t)' = f BY <1>2, <1>3, <1>5, <1>7 DEF Top
<1> QED BY <1>3, <1>5, <1>6, <1>7, <1>8

LEMMA PopFacts ==
    ASSUME TypeOK, NEW t \in Thread, frames[t] # <<>>,
           frames' = [frames EXCEPT ![t] = Front(@)]
    PROVE  /\ frames' \in [Thread -> Seq(Frame)]
           /\ Depth(t)' = Depth(t) - 1
           /\ \A u \in Thread \ {t} : frames'[u] = frames[u]
           /\ \A i \in 1 .. Depth(t) - 1 : frames'[t][i] = frames[t][i]
<1>1. frames \in [Thread -> Seq(Frame)] BY DEF TypeOK
<1>2. /\ frames[t] \in Seq(Frame)
      /\ Depth(t) \in Nat /\ Depth(t) >= 1 /\ Depth(t) = Len(frames[t])
    BY TopFacts DEF Depth
<1>3. Front(frames[t]) = SubSeq(frames[t], 1, Depth(t) - 1) BY <1>2 DEF Front
<1>4. /\ Front(frames[t]) \in Seq(Frame) /\ Len(Front(frames[t])) = Depth(t) - 1
      /\ \A i \in 1 .. Depth(t) - 1 : Front(frames[t])[i] = frames[t][i]
    BY <1>2, <1>3
<1>5. frames' \in [Thread -> Seq(Frame)] /\ frames'[t] = Front(frames[t])
      /\ \A u \in Thread \ {t} : frames'[u] = frames[u]
    BY <1>1, <1>4
<1> QED BY <1>4, <1>5 DEF Depth

LEMMA PushFacts ==
    ASSUME TypeOK, NEW t \in Thread, NEW f \in Frame,
           frames' = [frames EXCEPT ![t] = Append(@, f)]
    PROVE  /\ frames' \in [Thread -> Seq(Frame)]
           /\ Depth(t) \in Nat /\ Depth(t)' = Depth(t) + 1
           /\ frames'[t] # <<>>
           /\ Top(t)' = f
           /\ \A u \in Thread \ {t} : frames'[u] = frames[u]
           /\ \A i \in 1 .. Depth(t) : frames'[t][i] = frames[t][i]
<1>1. frames \in [Thread -> Seq(Frame)] BY DEF TypeOK
<1>2. frames[t] \in Seq(Frame) /\ Depth(t) \in Nat /\ Depth(t) = Len(frames[t])
    BY <1>1 DEF Depth
<1> DEFINE s == Append(frames[t], f)
<1>3. /\ s \in Seq(Frame) /\ Len(s) = Depth(t) + 1 /\ s[Depth(t) + 1] = f
      /\ \A i \in 1 .. Depth(t) : s[i] = frames[t][i]
    BY <1>2
<1>4. frames' \in [Thread -> Seq(Frame)] /\ frames'[t] = s
      /\ \A u \in Thread \ {t} : frames'[u] = frames[u]
    BY <1>1, <1>3
<1>5. s # <<>> BY <1>2, <1>3
<1>6. Depth(t)' = Depth(t) + 1 /\ Top(t)' = f BY <1>3, <1>4 DEF Depth, Top
<1> QED BY <1>2, <1>3, <1>4, <1>5, <1>6

-----------------------------------------------------------------------------
(* Ownership. *)

LEMMA TopInv ==
    ASSUME SessionInv, NEW t \in Thread, frames[t] # <<>>
    PROVE  /\ Local(Top(t))
           /\ Depth(t) \in 1 .. MaxDepth
           /\ Self(t) \in Object
           /\ Self(t) \in Owned <=> Top(t).directive
           /\ storage[t] \subseteq alive
           /\ Self(t) \in alive <=> Self(t) \in storage[t] \/ Top(t).directive
<1>1. /\ TypeOK /\ CallsNest /\ StoredByThread
      /\ alive = Owned \cup UNION {storage[u] : u \in Thread}
    BY DEF SessionInv
<1>2. Depth(t) \in Nat /\ Depth(t) >= 1 /\ Depth(t) \in 1 .. Depth(t) BY <1>1, TopFacts
<1>3. Local(Top(t)) /\ Depth(t) \in 1 .. MaxDepth
    BY <1>1, <1>2, MaxDepthAssumption DEF CallsNest, Top
<1>4. Self(t) \in Object BY <1>2 DEF Self, Object
<1>5. Self(t) \in Thread \X (1 .. MaxDepth) /\ Self(t)[1] = t /\ Self(t)[2] = Depth(t)
    BY <1>3 DEF Self
<1>6. Self(t) \in Owned <=> Top(t).directive BY <1>2, <1>5 DEF Owned, Top
<1>7. storage[t] \subseteq alive BY <1>1
<1>8. Self(t) \in alive <=> Self(t) \in storage[t] \/ Top(t).directive
    BY <1>1, <1>5, <1>6 DEF StoredByThread
<1> QED BY <1>3, <1>4, <1>6, <1>7, <1>8

LEMMA OwnedUpdate ==
    ASSUME TypeOK, CallsNest, NEW t \in Thread, frames[t] # <<>>,
           NEW f \in Frame, Update(t, f)
    PROVE  Owned' = (Owned \ {Self(t)}) \cup IF f.directive THEN {Self(t)} ELSE {}
<1>1. /\ \A u \in Thread : Depth(u)' = Depth(u)
      /\ \A u \in Thread \ {t} : frames'[u] = frames[u]
      /\ \A i \in 1 .. Depth(t) :
            frames'[t][i] = IF i = Depth(t) THEN f ELSE frames[t][i]
    BY UpdateFacts
<1>2. Depth(t) \in Nat /\ Depth(t) >= 1 /\ Depth(t) <= MaxDepth
    BY TopFacts DEF CallsNest
<1>3. Owned' = {o \in Thread \X (1 .. MaxDepth) :
                   o[2] <= Depth(o[1]) /\ frames'[o[1]][o[2]].directive}
    BY <1>1 DEF Owned
<1>4. ASSUME NEW o \in Thread \X (1 .. MaxDepth), o # Self(t), o[2] <= Depth(o[1])
      PROVE  frames'[o[1]][o[2]] = frames[o[1]][o[2]]
    <2>1. CASE o[1] # t BY <1>1, <2>1
    <2>2. CASE o[1] = t
        <3>1. o[2] # Depth(t) BY <1>4, <2>2 DEF Self
        <3>2. o[2] \in 1 .. Depth(t) BY <1>2, <1>4, <2>2
        <3> QED BY <1>1, <2>2, <3>1, <3>2
    <2> QED BY <2>1, <2>2
<1>5. ASSUME NEW o, o # Self(t) PROVE o \in Owned' <=> o \in Owned
    BY <1>3, <1>4, <1>5 DEF Owned
<1>6. Self(t) \in Owned' <=> f.directive
    <2>1. Self(t) \in Thread \X (1 .. MaxDepth) /\ Self(t)[1] = t /\ Self(t)[2] = Depth(t)
        BY <1>2, MaxDepthAssumption DEF Self
    <2> QED BY <1>1, <1>2, <1>3, <2>1
<1> QED BY <1>5, <1>6

LEMMA OwnedPop ==
    ASSUME TypeOK, CallsNest, NEW t \in Thread, frames[t] # <<>>,
           frames' = [frames EXCEPT ![t] = Front(@)]
    PROVE  Owned' = Owned \ {Self(t)}
<1>1. /\ Depth(t)' = Depth(t) - 1
      /\ \A u \in Thread \ {t} : frames'[u] = frames[u]
      /\ \A i \in 1 .. Depth(t) - 1 : frames'[t][i] = frames[t][i]
    BY PopFacts
<1>2. \A u \in Thread \ {t} : Depth(u)' = Depth(u) BY <1>1 DEF Depth
<1>3. Depth(t) \in Nat BY TopFacts
<1>4. ASSUME NEW o \in Thread \X (1 .. MaxDepth)
      PROVE  o \in Owned' <=> o \in Owned \ {Self(t)}
    <2>1. CASE o[1] # t
        <3>1. o # Self(t) BY <2>1 DEF Self
        <3> QED BY <1>1, <1>2, <2>1, <3>1 DEF Owned
    <2>2. CASE o[1] = t
        <3>1. o = <<t, o[2]>> /\ o[2] \in Nat /\ o[2] >= 1 BY <2>2, MaxDepthAssumption
        <3>2. o = Self(t) <=> o[2] = Depth(t) BY <3>1 DEF Self
        <3>3. CASE o[2] <= Depth(t) - 1
            <4>1. frames'[t][o[2]] = frames[t][o[2]] BY <1>1, <1>3, <3>1, <3>3
            <4> QED BY <1>1, <1>3, <2>2, <3>1, <3>2, <3>3, <4>1 DEF Owned
        <3>4. CASE o[2] > Depth(t) - 1
            <4>1. o \notin Owned' BY <1>1, <1>3, <2>2, <3>1, <3>4 DEF Owned
            <4>2. o \notin Owned \ {Self(t)} BY <1>3, <2>2, <3>1, <3>2, <3>4 DEF Owned
            <4> QED BY <4>1, <4>2
        <3> QED BY <1>3, <3>1, <3>3, <3>4
    <2> QED BY <2>1, <2>2
<1> QED BY <1>4 DEF Owned

LEMMA OwnedPush ==
    ASSUME TypeOK, NEW t \in Thread, NEW f \in Frame, ~f.directive,
           frames' = [frames EXCEPT ![t] = Append(@, f)]
    PROVE  Owned' = Owned
<1>1. /\ Depth(t) \in Nat /\ Depth(t)' = Depth(t) + 1 /\ Top(t)' = f
      /\ \A u \in Thread \ {t} : frames'[u] = frames[u]
      /\ \A i \in 1 .. Depth(t) : frames'[t][i] = frames[t][i]
    BY PushFacts
<1>2. \A u \in Thread \ {t} : Depth(u)' = Depth(u) BY <1>1 DEF Depth
<1>3. frames'[t][Depth(t) + 1] = f BY <1>1 DEF Top
<1>4. ASSUME NEW o \in Thread \X (1 .. MaxDepth)
      PROVE  o \in Owned' <=> o \in Owned
    <2>1. CASE o[1] # t BY <1>1, <1>2, <2>1 DEF Owned
    <2>2. CASE o[1] = t
        <3>1. o = <<t, o[2]>> /\ o[2] \in Nat /\ o[2] >= 1 BY <2>2, MaxDepthAssumption
        <3>2. /\ o \in Owned <=> o[2] <= Depth(t) /\ frames[t][o[2]].directive
              /\ o \in Owned' <=> o[2] <= Depth(t) + 1 /\ frames'[t][o[2]].directive
            BY <1>1, <2>2 DEF Owned
        <3>3. Depth(t) \in Nat /\ ~frames'[t][Depth(t) + 1].directive BY <1>1, <1>3
        <3>4. CASE o[2] <= Depth(t)
            <4>1. o[2] \in 1 .. Depth(t) /\ o[2] <= Depth(t) + 1 BY <3>1, <3>3, <3>4
            <4>2. frames'[t][o[2]] = frames[t][o[2]] BY <1>1, <4>1
            <4> QED BY <3>4, <3>2, <4>1, <4>2
        <3>5. CASE o[2] > Depth(t)
            <4>1. ~(o[2] <= Depth(t)) BY <3>1, <3>3, <3>5
            <4>2. o[2] <= Depth(t) + 1 => o[2] = Depth(t) + 1 BY <3>1, <3>3, <3>5
            <4>3. o \notin Owned' BY <3>3, <3>2, <4>2
            <4> QED BY <3>2, <4>1, <4>3
        <3> QED BY <3>1, <3>3, <3>4, <3>5
    <2> QED BY <2>1, <2>2
<1> QED BY <1>4 DEF Owned

-----------------------------------------------------------------------------
(* Steps of the innermost call that only update its frame. *)

LEMMA NestUpdate ==
    ASSUME TypeOK, CallsNest, NEW t \in Thread, frames[t] # <<>>,
           NEW f \in Frame, Update(t, f), Local(f)
    PROVE  CallsNest'
<1>1. /\ \A u \in Thread : Depth(u)' = Depth(u)
      /\ \A u \in Thread \ {t} : frames'[u] = frames[u]
      /\ \A i \in 1 .. Depth(t) :
            frames'[t][i] = IF i = Depth(t) THEN f ELSE frames[t][i]
    BY UpdateFacts
<1>2. \A i \in 1 .. Depth(t) : i < Depth(t) => i # Depth(t) BY TopFacts
<1>3. SUFFICES ASSUME NEW u \in Thread
               PROVE  /\ Depth(u) <= MaxDepth
                      /\ \A i \in 1 .. Depth(u) :
                            /\ Local(frames'[u][i])
                            /\ i < Depth(u) =>
                                  frames'[u][i].stage \in {"inParse", "inValidate"}
    BY <1>1 DEF CallsNest
<1>4. CASE u # t BY <1>1, <1>4 DEF CallsNest
<1>5. CASE u = t BY <1>1, <1>2, <1>5 DEF CallsNest
<1> QED BY <1>4, <1>5

\* A call may change its own frame and its thread's slots, as long as they
\* fit each other; nothing of another thread or of an outer call is disturbed.
LEMMA UpdateStep ==
    ASSUME SessionInv, NEW t \in Thread, frames[t] # <<>>,
           NEW f \in Frame, Update(t, f), f.req = Top(t).req, Local(f),
           f.given # 0 => f.req.text # NULL /\ f.given <= Fragments[f.req.text],
           answer' = answer,
           userLang' = [userLang EXCEPT ![t] = userLang'[t]],
           userLang'[t] \in Lang \cup {NULL},
           current' = [current EXCEPT ![t] = current'[t]],
           current'[t] \subseteq Code,
           residue' = [residue EXCEPT ![t] = residue'[t]],
           residue'[t] \subseteq {"parser", "lexer"},
           storage' = [storage EXCEPT ![t] = storage'[t]],
           storage'[t] \subseteq storage[t] \cup {Self(t)},
           f.directive => Self(t) \notin storage'[t],
           alive' = (alive \ (storage[t] \cup {Self(t)})) \cup storage'[t]
                        \cup IF f.directive THEN {Self(t)} ELSE {},
           f.stage \in {"enter", "parse", "leave", "take"} => userLang'[t] = f.req.lang,
           f.stage = "parse" =>
              current'[t] = {} /\ storage'[t] = {} /\ residue'[t] \subseteq {"lexer"},
           f.stage = "leave" =>
              storage'[t] = {Self(t)} /\ current'[t] = Service!Refusal(f.req),
           f.stage = "take" => current'[t] = Service!Refusal(f.req)
    PROVE  SessionInv'
<1>1. /\ TypeOK /\ CallsNest /\ SlotsServeTop /\ StoredByThread
      /\ alive = Owned \cup UNION {storage[u] : u \in Thread}
    BY DEF SessionInv
<1>2. /\ frames' \in [Thread -> Seq(Frame)]
      /\ \A u \in Thread : Depth(u)' = Depth(u)
      /\ frames'[t] # <<>> /\ Top(t)' = f
      /\ \A u \in Thread \ {t} : frames'[u] = frames[u]
      /\ \A i \in 1 .. Depth(t) :
            frames'[t][i] = IF i = Depth(t) THEN f ELSE frames[t][i]
    BY <1>1, UpdateFacts
<1>3. /\ userLang' \in [Thread -> Lang \cup {NULL}]
      /\ current' \in [Thread -> SUBSET Code]
      /\ residue' \in [Thread -> SUBSET {"parser", "lexer"}]
      /\ \A u \in Thread \ {t} : /\ userLang'[u] = userLang[u]
                                 /\ current'[u] = current[u]
                                 /\ residue'[u] = residue[u]
                                 /\ storage'[u] = storage[u]
    BY <1>1 DEF TypeOK
<1>4. Self(t) \in Object /\ storage[t] \subseteq Object BY <1>1, TopInv DEF TypeOK
<1>5. storage' \in [Thread -> SUBSET Object] /\ storage'[t] \subseteq Object
    <2>1. storage'[t] \subseteq Object BY <1>4
    <2>2. storage \in [Thread -> SUBSET Object] BY <1>1 DEF TypeOK
    <2>3. storage' = [storage EXCEPT ![t] = storage'[t]] OBVIOUS
    <2>4. storage' \in [Thread -> SUBSET Object] BY <2>1, <2>2, <2>3, Zenon
    <2> QED BY <2>1, <2>4
<1>6. Self(t)[1] = t BY DEF Self
<1>7. Self(t)' = Self(t) BY <1>2 DEF Self
<1>8. Owned' = (Owned \ {Self(t)}) \cup IF f.directive THEN {Self(t)} ELSE {}
    BY <1>1, OwnedUpdate
<1>9. TypeOK'
    <2>1. \A u \in Thread : \A i \in DOMAIN frames'[u] :
              LET g == frames'[u][i]
              IN  g.given # 0 => g.req.text # NULL /\ g.given <= Fragments[g.req.text]
        <3>1. ASSUME NEW u \in Thread, NEW i \in DOMAIN frames'[u]
              PROVE  frames'[u][i].given # 0 =>
                        /\ frames'[u][i].req.text # NULL
                        /\ frames'[u][i].given <= Fragments[frames'[u][i].req.text]
            <4>1. CASE u # t BY <1>1, <1>2, <4>1 DEF TypeOK
            <4>2. CASE u = t
                <5>1. frames'[t] \in Seq(Frame) /\ Len(frames'[t]) = Depth(t)
                    BY <1>2 DEF Depth
                <5>2. i \in 1 .. Depth(t) BY <4>2, <5>1
                <5>3. DOMAIN frames[t] = 1 .. Depth(t) BY <1>1, TopFacts
                <5>4. CASE i = Depth(t) BY <1>2, <4>2, <5>2, <5>4
                <5>5. CASE i # Depth(t)
                    <6>1. frames'[t][i] = frames[t][i] BY <1>2, <5>2, <5>5
                    <6>2. frames[t][i].given # 0 =>
                              /\ frames[t][i].req.text # NULL
                              /\ frames[t][i].given <= Fragments[frames[t][i].req.text]
                        BY <1>1, <5>2, <5>3 DEF TypeOK
                    <6> QED BY <4>2, <6>1, <6>2
                <5> QED BY <5>4, <5>5
            <4> QED BY <4>1, <4>2
        <3> QED BY <3>1
    <2>2. alive' \subseteq Object BY <1>1, <1>4, <1>5 DEF TypeOK
    <2>3. answer' \in [Thread -> Answer \cup {NULL}] BY <1>1 DEF TypeOK
    <2> QED BY <1>2, <1>3, <1>5, <2>1, <2>2, <2>3 DEF TypeOK
<1>10. CallsNest' BY <1>1, NestUpdate
<1>11. SlotsServeTop'
    <2>1. ASSUME NEW u \in Thread, u # t, frames[u] # <<>>
          PROVE  Top(u)' = Top(u) /\ Self(u)' = Self(u)
        BY <1>2, <2>1 DEF Top, Self
    <2>2. ASSUME NEW u \in Thread, frames'[u] # <<>>
          PROVE  /\ Top(u)'.stage \in {"enter", "parse", "leave", "take"} =>
                       userLang'[u] = Top(u)'.req.lang
                 /\ Top(u)'.stage = "parse" =>
                       current'[u] = {} /\ storage'[u] = {} /\ residue'[u] \subseteq {"lexer"}
                 /\ Top(u)'.stage = "leave" =>
                       storage'[u] = {Self(u)'} /\ current'[u] = Service!Refusal(Top(u)'.req)
                 /\ Top(u)'.stage = "take" => current'[u] = Service!Refusal(Top(u)'.req)
        <3>1. CASE u = t BY <1>2, <1>3, <1>5, <1>7, <3>1
        <3>2. CASE u # t
            <4>1. frames[u] # <<>> BY <1>2, <2>2, <3>2
            <4>2. Top(u)' = Top(u) /\ Self(u)' = Self(u) BY <2>1, <3>2, <4>1
            <4> QED BY <1>1, <1>3, <3>2, <4>1, <4>2 DEF SlotsServeTop
        <3> QED BY <3>1, <3>2
    <2> QED BY <2>2 DEF SlotsServeTop
<1>12. StoredByThread'
    <2>1. ASSUME NEW u \in Thread, NEW o \in storage'[u] PROVE o[1] = u /\ o \notin Owned'
        <3>1. CASE u = t BY <1>1, <1>5, <1>6, <1>8, <2>1, <3>1 DEF StoredByThread
        <3>2. CASE u # t BY <1>1, <1>3, <1>6, <1>8, <2>1, <3>2 DEF StoredByThread
        <3> QED BY <3>1, <3>2
    <2> QED BY <2>1 DEF StoredByThread
<1>13. alive' = Owned' \cup UNION {storage'[u] : u \in Thread}
    <2>1. ASSUME NEW u \in Thread \ {t}, NEW o \in storage[u]
          PROVE  o \notin storage[t] /\ o # Self(t)
        BY <1>1, <1>6 DEF StoredByThread
    <2>2. UNION {storage'[u] : u \in Thread}
              = storage'[t] \cup UNION {storage[u] : u \in Thread \ {t}}
        BY <1>3, <1>5
    <2>3. UNION {storage[u] : u \in Thread}
              = storage[t] \cup UNION {storage[u] : u \in Thread \ {t}}
        OBVIOUS
    <2>4. \A o \in storage[t] : o \notin Owned BY <1>1 DEF StoredByThread
    <2>5. \A o \in UNION {storage[u] : u \in Thread \ {t}} : o \notin storage[t] /\ o # Self(t)
        BY <2>1
    <2>6. alive \ (storage[t] \cup {Self(t)})
              = (Owned \ {Self(t)}) \cup UNION {storage[u] : u \in Thread \ {t}}
        BY <1>1, <2>3, <2>4, <2>5
    <2> QED BY <1>8, <2>2, <2>6
<1> QED BY <1>9, <1>10, <1>11, <1>12, <1>13 DEF SessionInv

-----------------------------------------------------------------------------
(* The steps of parseDirective and parseOpenMP. *)

\* The variables of the thread as the step finds them.
LEMMA SlotFacts ==
    ASSUME SessionInv, NEW t \in Thread
    PROVE  /\ userLang \in [Thread -> Lang \cup {NULL}]
           /\ current \in [Thread -> SUBSET Code]
           /\ residue \in [Thread -> SUBSET {"parser", "lexer"}]
           /\ storage \in [Thread -> SUBSET Object]
           /\ userLang = [userLang EXCEPT ![t] = userLang[t]]
           /\ userLang[t] \in Lang \cup {NULL}
           /\ current = [current EXCEPT ![t] = current[t]]
           /\ current[t] \subseteq Code
           /\ residue = [residue EXCEPT ![t] = residue[t]]
           /\ residue[t] \subseteq {"parser", "lexer"}
           /\ storage = [storage EXCEPT ![t] = storage[t]]
BY DEF SessionInv, TypeOK

LEMMA Stages ==
    ASSUME SessionInv, NEW t \in Thread, frames[t] # <<>>
    PROVE  /\ Top(t) \in Frame /\ Local(Top(t))
           /\ Top(t).req \in Request /\ Top(t).req.lang \in Lang
           /\ Top(t).req.text \in Text \cup {NULL}
           /\ Top(t).req.hooks \in BOOLEAN
           /\ Top(t).stage \in Stage /\ Top(t).base \in Lang \cup {NULL}
           /\ Top(t).directive \in BOOLEAN /\ Top(t).complete \in BOOLEAN
           /\ Top(t).diags \in SUBSET Code /\ Top(t).given \in Nat
           /\ Top(t).given # 0 =>
                 /\ Top(t).req.text # NULL
                 /\ Top(t).given <= Fragments[Top(t).req.text]
<1>1. TypeOK BY DEF SessionInv
<1>2. Top(t) \in Frame /\ DOMAIN frames[t] = 1 .. Depth(t) /\ Depth(t) \in 1 .. Depth(t)
    BY <1>1, TopFacts
<1>3. Top(t).req \in Request BY <1>2 DEF Frame
<1>4. /\ Top(t).req.lang \in Lang /\ Top(t).req.text \in Text \cup {NULL}
      /\ Top(t).req.hooks \in BOOLEAN
    BY <1>3, RequestAssumption
<1>5. Top(t).given # 0 =>
          Top(t).req.text # NULL /\ Top(t).given <= Fragments[Top(t).req.text]
    BY <1>1, <1>2 DEF TypeOK, Top
<1> QED BY <1>2, <1>3, <1>4, <1>5, TopInv DEF Frame

\* Steps that leave the slots alone, but for the diagnostics.
LEMMA QuietStep ==
    ASSUME SessionInv, NEW t \in Thread, frames[t] # <<>>,
           NEW f \in Frame, Update(t, f), f.req = Top(t).req, Local(f),
           f.given # 0 => f.req.text # NULL /\ f.given <= Fragments[f.req.text],
           f.stage \notin {"enter", "parse", "leave", "take"},
           f.directive <=> Top(t).directive,
           current' = current \/ current' = [current EXCEPT ![t] = {}],
           UNCHANGED <<answer, userLang, residue, storage, alive>>
    PROVE  SessionInv'
<1>1. /\ userLang' = [userLang EXCEPT ![t] = userLang'[t]]
      /\ userLang'[t] \in Lang \cup {NULL}
      /\ residue' = [residue EXCEPT ![t] = residue'[t]]
      /\ residue'[t] \subseteq {"parser", "lexer"}
      /\ storage' = [storage EXCEPT ![t] = storage'[t]]
      /\ storage'[t] \subseteq storage[t] \cup {Self(t)}
    BY SlotFacts
<1>2. /\ current' = [current EXCEPT ![t] = current'[t]]
      /\ current'[t] \subseteq Code
    BY SlotFacts
<1>3. f.directive => Self(t) \notin storage'[t] BY TopInv DEF SessionInv, StoredByThread
<1>4. alive' = (alive \ (storage[t] \cup {Self(t)})) \cup storage'[t]
                   \cup IF f.directive THEN {Self(t)} ELSE {}
    BY TopInv
<1> QED BY <1>1, <1>2, <1>3, <1>4, UpdateStep

LEMMA RejectNullStep ==
    ASSUME SessionInv, NEW t \in Thread, RejectNull(t)
    PROVE  SessionInv'
<1> DEFINE f == [Top(t) EXCEPT !.stage = "return", !.diags = {"NullInput"}]
<1>1. /\ frames[t] # <<>> /\ Top(t).stage = "begin" /\ Top(t).req.text = NULL
      /\ Update(t, f) /\ current' = [current EXCEPT ![t] = {}]
      /\ UNCHANGED <<answer, userLang, residue, storage, alive>>
    BY DEF RejectNull, At, Slot
<1>2. /\ f \in Frame /\ f.req = Top(t).req /\ f.stage = "return"
      /\ f.diags = {"NullInput"} /\ f.given = Top(t).given
      /\ f.directive = Top(t).directive /\ f.complete = Top(t).complete
      /\ f.base = Top(t).base
    <2>1. Top(t) \in Frame BY <1>1, Stages
    <2> QED BY <2>1 DEF Frame, Stage, Code
<1>3. Service!Refusal(f.req) = {"NullInput"} BY <1>1, <1>2 DEF Service!Refusal
<1>4. Local(Top(t)) BY <1>1, TopInv
<1>5. ~f.directive /\ f.given = 0 /\ ~f.complete BY <1>1, <1>2, <1>4 DEF Local
<1>6. Local(f) BY <1>1, <1>2, <1>3, <1>5 DEF Local
<1> HIDE DEF f
<1> QED BY <1>1, <1>2, <1>5, <1>6, QuietStep

LEMMA BeginStep ==
    ASSUME SessionInv, NEW t \in Thread, Begin(t)
    PROVE  SessionInv'
<1> DEFINE f == [Top(t) EXCEPT !.stage = "enter"]
<1>1. /\ frames[t] # <<>> /\ Top(t).stage = "begin" /\ Top(t).req.text # NULL
      /\ Update(t, f) /\ current' = [current EXCEPT ![t] = {}]
      /\ userLang' = [userLang EXCEPT ![t] = Top(t).req.lang]
      /\ UNCHANGED <<answer, residue, storage, alive>>
    BY DEF Begin, At, Slot
<1>2. /\ f \in Frame /\ f.req = Top(t).req /\ f.stage = "enter"
      /\ f.diags = Top(t).diags /\ f.given = Top(t).given
      /\ f.directive = Top(t).directive /\ f.complete = Top(t).complete
      /\ f.base = Top(t).base
    <2>1. Top(t) \in Frame BY <1>1, Stages
    <2> QED BY <2>1 DEF Frame, Stage
<1>3. Local(Top(t)) BY <1>1, TopInv
<1>4. ~f.directive /\ f.given = 0 /\ ~f.complete /\ f.diags = {}
    BY <1>1, <1>2, <1>3 DEF Local
<1>5. Local(f) BY <1>1, <1>2, <1>3, <1>4, Stages DEF Local
<1>6. /\ userLang' = [userLang EXCEPT ![t] = userLang'[t]]
      /\ userLang'[t] \in Lang \cup {NULL} /\ userLang'[t] = f.req.lang
      /\ current' = [current EXCEPT ![t] = current'[t]] /\ current'[t] \subseteq Code
      /\ residue' = [residue EXCEPT ![t] = residue'[t]]
      /\ residue'[t] \subseteq {"parser", "lexer"}
      /\ storage' = [storage EXCEPT ![t] = storage'[t]]
      /\ storage'[t] \subseteq storage[t] \cup {Self(t)}
    BY <1>1, <1>2, SlotFacts, Stages
<1>7. alive' = (alive \ (storage[t] \cup {Self(t)})) \cup storage'[t]
                   \cup IF f.directive THEN {Self(t)} ELSE {}
    BY <1>1, <1>2, TopInv
<1> HIDE DEF f
<1> QED BY <1>1, <1>2, <1>4, <1>5, <1>6, <1>7, UpdateStep

LEMMA EnterStep ==
    ASSUME SessionInv, NEW t \in Thread, Enter(t)
    PROVE  SessionInv'
<1> DEFINE f == [Top(t) EXCEPT !.stage = IF Mismatch(t) THEN "take" ELSE "parse",
                               !.base = userLang[t]]
<1>1. /\ frames[t] # <<>> /\ Top(t).stage = "enter" /\ Update(t, f)
      /\ current' = [current EXCEPT ![t] =
                        IF Mismatch(t) THEN {"LanguageMismatch"} ELSE {}]
      /\ residue' = [residue EXCEPT ![t] = residue[t] \ {"parser"}]
      /\ alive' = alive \ storage[t]
      /\ storage' = [storage EXCEPT ![t] = {}]
      /\ answer' = answer /\ userLang' = userLang
    BY DEF Enter, At, Slot, ResetParser
<1>2. userLang[t] = Top(t).req.lang /\ userLang[t] \in Lang \cup {NULL}
    BY <1>1, SlotFacts DEF SessionInv, SlotsServeTop
<1>3. /\ f \in Frame /\ f.req = Top(t).req
      /\ f.stage = IF Mismatch(t) THEN "take" ELSE "parse"
      /\ f.diags = Top(t).diags /\ f.given = Top(t).given
      /\ f.directive = Top(t).directive /\ f.complete = Top(t).complete
      /\ f.base = Top(t).req.lang
    <2>1. Top(t) \in Frame BY <1>1, Stages
    <2> QED BY <1>2, <2>1 DEF Frame, Stage
<1>4. Local(Top(t)) BY <1>1, TopInv
<1>5. /\ ~f.directive /\ f.given = 0 /\ ~f.complete /\ f.diags = {}
      /\ f.req.text # NULL
    BY <1>1, <1>3, <1>4 DEF Local
<1>6. Mismatch(t) <=> ~(f.req.text \in Marked <=> f.req.lang = Fortran)
    BY <1>2, <1>3 DEF Mismatch, Slot
<1>7. Mismatch(t) => Service!Refusal(f.req) = {"LanguageMismatch"}
    BY <1>5, <1>6 DEF Service!Refusal
<1>8. Local(f)
    <2>1. CASE Mismatch(t) BY <1>3, <1>5, <1>6, <1>7, <2>1 DEF Local
    <2>2. CASE ~Mismatch(t) BY <1>3, <1>5, <1>6, <2>2, FragmentsAssumption, Stages DEF Local
    <2> QED BY <2>1, <2>2
<1>9. /\ userLang' = [userLang EXCEPT ![t] = userLang'[t]]
      /\ userLang'[t] \in Lang \cup {NULL} /\ userLang'[t] = f.req.lang
      /\ current' = [current EXCEPT ![t] = current'[t]]
      /\ current'[t] = IF Mismatch(t) THEN {"LanguageMismatch"} ELSE {}
      /\ current'[t] \subseteq Code
      /\ residue' = [residue EXCEPT ![t] = residue'[t]]
      /\ residue'[t] \subseteq {"parser", "lexer"} /\ residue'[t] \subseteq {"lexer"}
      /\ storage' = [storage EXCEPT ![t] = storage'[t]] /\ storage'[t] = {}
    BY <1>1, <1>2, <1>3, SlotFacts DEF Code
<1>10. alive' = (alive \ (storage[t] \cup {Self(t)})) \cup storage'[t]
                   \cup IF f.directive THEN {Self(t)} ELSE {}
    BY <1>1, <1>3, <1>5, <1>9, TopInv
<1>11. /\ f.stage = "parse" => current'[t] = {}
       /\ f.stage = "take" => current'[t] = Service!Refusal(f.req)
       /\ f.stage # "leave"
    BY <1>3, <1>7, <1>9
<1> HIDE DEF f
<1> QED BY <1>1, <1>3, <1>5, <1>8, <1>9, <1>10, <1>11, UpdateStep

LEMMA ParseStep ==
    ASSUME SessionInv, NEW t \in Thread, Parse(t)
    PROVE  SessionInv'
<1> DEFINE f == [Top(t) EXCEPT !.stage = "leave"]
<1>1. /\ frames[t] # <<>> /\ Top(t).stage = "parse" /\ Update(t, f)
      /\ alive' = alive \cup {Self(t)}
      /\ storage' = [storage EXCEPT ![t] = storage[t] \cup {Self(t)}]
      /\ residue' = [residue EXCEPT ![t] = {"parser", "lexer"}]
      /\ answer' = answer /\ userLang' = userLang
    BY DEF Parse, At, Slot, Build
<1>2. /\ current[t] = {} /\ storage[t] = {} /\ residue[t] \subseteq {"lexer"}
      /\ userLang[t] = Top(t).req.lang
    BY <1>1 DEF SessionInv, SlotsServeTop
<1>3. /\ f \in Frame /\ f.req = Top(t).req /\ f.stage = "leave"
      /\ f.diags = Top(t).diags /\ f.given = Top(t).given
      /\ f.directive = Top(t).directive /\ f.complete = Top(t).complete
      /\ f.base = Top(t).base
    <2>1. Top(t) \in Frame BY <1>1, Stages
    <2> QED BY <2>1 DEF Frame, Stage
<1>4. Local(Top(t)) BY <1>1, TopInv
<1>5. /\ ~f.directive /\ f.given = 0 /\ ~f.complete /\ f.diags = {}
      /\ f.req.text # NULL /\ f.base = f.req.lang
      /\ f.req.text \in Marked <=> f.req.lang = Fortran
    BY <1>1, <1>3, <1>4 DEF Local
<1>6. Local(f) BY <1>3, <1>5 DEF Local
<1>7. current' = [current EXCEPT ![t] = Service!Refusal(f.req)]
    <2>1. Verdicts(t) = {Accepted(t)} BY <1>2 DEF Verdicts, ResetLexer, Slot
    <2>2. Accepted(t) <=> <<f.req.text, f.req.lang>> \in Parsable
        BY <1>2, <1>3 DEF Accepted, Slot
    <2>3. PICK accepted \in {Accepted(t)} :
              current' = [current EXCEPT ![t] =
                             IF accepted THEN current[t] ELSE current[t] \cup {"SyntaxError"}]
        BY <2>1 DEF Parse, Slot
    <2>4. Service!Refusal(f.req) = IF Accepted(t) THEN {} ELSE {"SyntaxError"}
        BY <1>5, <2>2 DEF Service!Refusal
    <2> QED BY <1>2, <2>3, <2>4
<1> HIDE DEF f
<1>8. Service!Refusal(f.req) \subseteq Code BY DEF Service!Refusal, Code
<1>9. /\ userLang' = [userLang EXCEPT ![t] = userLang'[t]]
      /\ userLang'[t] \in Lang \cup {NULL} /\ userLang'[t] = f.req.lang
      /\ current' = [current EXCEPT ![t] = current'[t]]
      /\ current'[t] = Service!Refusal(f.req) /\ current'[t] \subseteq Code
      /\ residue' = [residue EXCEPT ![t] = residue'[t]]
      /\ residue'[t] \subseteq {"parser", "lexer"}
      /\ storage' = [storage EXCEPT ![t] = storage'[t]] /\ storage'[t] = {Self(t)}
    <2>1. /\ userLang' = [userLang EXCEPT ![t] = userLang'[t]]
          /\ userLang'[t] \in Lang \cup {NULL} /\ userLang'[t] = f.req.lang
        BY <1>1, <1>2, <1>3, SlotFacts
    <2>2. /\ current' = [current EXCEPT ![t] = current'[t]]
          /\ current'[t] = Service!Refusal(f.req) /\ current'[t] \subseteq Code
        BY <1>7, <1>8, SlotFacts
    <2>3. /\ residue' = [residue EXCEPT ![t] = residue'[t]]
          /\ residue'[t] \subseteq {"parser", "lexer"}
        BY <1>1, SlotFacts
    <2>4. storage' = [storage EXCEPT ![t] = storage'[t]] /\ storage'[t] = {Self(t)}
        BY <1>1, <1>2, SlotFacts
    <2> QED BY <2>1, <2>2, <2>3, <2>4
<1>10. alive' = (alive \ (storage[t] \cup {Self(t)})) \cup storage'[t]
                   \cup IF f.directive THEN {Self(t)} ELSE {}
    BY <1>1, <1>2, <1>5, <1>9
<1> QED BY <1>1, <1>3, <1>5, <1>6, <1>9, <1>10, UpdateStep

LEMMA LeaveStep ==
    ASSUME SessionInv, NEW t \in Thread, Leave(t)
    PROVE  SessionInv'
<1> DEFINE f == [Top(t) EXCEPT !.stage = "take", !.directive = ~Error(current[t])]
<1>1. /\ frames[t] # <<>> /\ Top(t).stage = "leave" /\ Update(t, f)
      /\ residue' = [residue EXCEPT ![t] = residue[t] \ {"lexer"}]
      /\ alive' = alive \ (storage[t] \ Released(t))
      /\ storage' = [storage EXCEPT ![t] = {}]
      /\ answer' = answer /\ userLang' = userLang /\ current' = current
    BY DEF Leave, At, Slot, ResetLexer
<1>2. /\ current[t] = Service!Refusal(Top(t).req) /\ storage[t] = {Self(t)}
      /\ userLang[t] = Top(t).req.lang
    BY <1>1 DEF SessionInv, SlotsServeTop
<1>3. Error(current[t]) <=> Service!Refusal(Top(t).req) # {}
    <2>1. "HostWarning" \notin Service!Refusal(Top(t).req) BY DEF Service!Refusal
    <2> QED BY <1>2, <2>1 DEF Error
<1>4. /\ f \in Frame /\ f.req = Top(t).req /\ f.stage = "take"
      /\ f.diags = Top(t).diags /\ f.given = Top(t).given
      /\ f.directive <=> ~Error(current[t])
      /\ f.complete = Top(t).complete /\ f.base = Top(t).base
    <2>1. Top(t) \in Frame BY <1>1, Stages
    <2>2. Error(current[t]) \in BOOLEAN BY DEF Error
    <2> QED BY <2>1, <2>2 DEF Frame, Stage
<1>5. Local(Top(t)) BY <1>1, TopInv
<1>6. /\ f.given = 0 /\ ~f.complete /\ f.diags = {}
      /\ f.req.text # NULL /\ f.base = f.req.lang
    BY <1>1, <1>4, <1>5 DEF Local
<1>7. Local(f) BY <1>3, <1>4, <1>6 DEF Local
<1>8. /\ userLang' = [userLang EXCEPT ![t] = userLang'[t]]
      /\ userLang'[t] \in Lang \cup {NULL} /\ userLang'[t] = f.req.lang
      /\ current' = [current EXCEPT ![t] = current'[t]]
      /\ current'[t] = Service!Refusal(f.req) /\ current'[t] \subseteq Code
      /\ residue' = [residue EXCEPT ![t] = residue'[t]]
      /\ residue'[t] \subseteq {"parser", "lexer"}
      /\ storage' = [storage EXCEPT ![t] = storage'[t]] /\ storage'[t] = {}
    <2>1. /\ userLang' = [userLang EXCEPT ![t] = userLang'[t]]
          /\ userLang'[t] \in Lang \cup {NULL} /\ userLang'[t] = f.req.lang
        BY <1>1, <1>2, <1>4, SlotFacts
    <2>2. /\ current' = [current EXCEPT ![t] = current'[t]]
          /\ current'[t] = Service!Refusal(f.req) /\ current'[t] \subseteq Code
        BY <1>1, <1>2, <1>4, SlotFacts
    <2>3. /\ residue' = [residue EXCEPT ![t] = residue'[t]]
          /\ residue'[t] \subseteq {"parser", "lexer"}
        BY <1>1, SlotFacts
    <2>4. storage' = [storage EXCEPT ![t] = storage'[t]] /\ storage'[t] = {}
        BY <1>1, SlotFacts
    <2> QED BY <2>1, <2>2, <2>3, <2>4
<1>9. alive' = (alive \ (storage[t] \cup {Self(t)})) \cup storage'[t]
                   \cup IF f.directive THEN {Self(t)} ELSE {}
    <2>1. Self(t) \in alive BY <1>1, <1>2, TopInv
    <2>2. Released(t) = IF Error(current[t]) THEN {} ELSE {Self(t)} BY DEF Released, Slot
    <2> QED BY <1>1, <1>2, <1>4, <1>8, <2>1, <2>2
<1> HIDE DEF f
<1> QED BY <1>1, <1>4, <1>6, <1>7, <1>8, <1>9, UpdateStep

LEMMA TakeStep ==
    ASSUME SessionInv, NEW t \in Thread, Take(t)
    PROVE  SessionInv'
<1> DEFINE f == [Top(t) EXCEPT !.diags = current[t], !.stage = AfterTake(Top(t))]
<1>1. /\ frames[t] # <<>> /\ Top(t).stage = "take" /\ Update(t, f)
      /\ current' = [current EXCEPT ![t] = {}]
      /\ UNCHANGED <<answer, userLang, residue, storage, alive>>
    BY DEF Take, At, Slot
<1>2. current[t] = Service!Refusal(Top(t).req)
    BY <1>1 DEF SessionInv, SlotsServeTop
<1>3. /\ f \in Frame /\ f.req = Top(t).req
      /\ f.stage = IF ~Top(t).directive THEN "return"
                   ELSE IF Top(t).req.hooks THEN "hooks" ELSE "check"
      /\ f.diags = current[t] /\ f.given = Top(t).given
      /\ f.directive = Top(t).directive /\ f.complete = Top(t).complete
      /\ f.base = Top(t).base
    <2>1. Top(t) \in Frame /\ current[t] \in SUBSET Code BY <1>1, Stages, SlotFacts
    <2> QED BY <2>1 DEF Frame, Stage, AfterTake
<1>4. Local(Top(t)) BY <1>1, TopInv
<1>5. /\ f.given = 0 /\ ~f.complete /\ f.req.text # NULL
      /\ f.directive => f.base = f.req.lang /\ f.diags = {} /\ Service!Refusal(f.req) = {}
      /\ ~f.directive => f.diags = Service!Refusal(f.req) /\ f.diags # {}
    BY <1>1, <1>2, <1>3, <1>4 DEF Local
<1>6. Fragments[f.req.text] \in Nat BY <1>1, <1>3, <1>5, Stages, FragmentsAssumption
<1>7. Local(f)
    <2>1. CASE ~f.directive BY <1>3, <1>5, <2>1 DEF Local
    <2>2. CASE f.directive /\ f.req.hooks BY <1>3, <1>5, <1>6, <2>2 DEF Local
    <2>3. CASE f.directive /\ ~f.req.hooks
        <3>1. f.diags \in HostSays(f.req) BY <1>5, <2>3 DEF HostSays
        <3> QED BY <1>3, <1>5, <2>3, <3>1 DEF Local
    <2> QED BY <2>1, <2>2, <2>3
<1>8. f.stage \notin {"enter", "parse", "leave", "take"} BY <1>3
<1> HIDE DEF f
<1> QED BY <1>1, <1>3, <1>5, <1>7, <1>8, QuietStep

LEMMA CallHookStep ==
    ASSUME SessionInv, NEW t \in Thread, CallHook(t)
    PROVE  SessionInv'
<1> DEFINE f == [Top(t) EXCEPT !.stage =
                    IF MoreFragments(Top(t)) THEN "inParse" ELSE "inValidate"]
<1>1. /\ frames[t] # <<>> /\ Top(t).stage = "hooks" /\ Update(t, f)
      /\ UNCHANGED <<answer, userLang, current, residue, storage, alive>>
    BY DEF CallHook, At
<1>2. Top(t) \in Frame BY <1>1, Stages
<1>3. /\ f \in Frame /\ f.req = Top(t).req
      /\ f.stage = IF MoreFragments(Top(t)) THEN "inParse" ELSE "inValidate"
      /\ f.diags = Top(t).diags /\ f.given = Top(t).given
      /\ f.directive = Top(t).directive /\ f.complete = Top(t).complete
      /\ f.base = Top(t).base
    BY <1>2 DEF Frame, Stage
<1>4. Local(Top(t)) BY <1>1, TopInv
<1>5. /\ f.directive /\ f.req.hooks /\ ~f.complete /\ f.diags \subseteq HostReport
      /\ f.given <= Fragments[f.req.text] /\ f.req.text # NULL
      /\ f.base = f.req.lang /\ Service!Refusal(f.req) = {}
    BY <1>1, <1>3, <1>4 DEF Local
<1>6. Fragments[f.req.text] \in Nat /\ f.given \in Nat
    BY <1>1, <1>3, <1>5, Stages, FragmentsAssumption
<1>7. MoreFragments(Top(t)) <=> f.given < Fragments[f.req.text]
    BY <1>3 DEF MoreFragments
<1>8. Local(f) BY <1>3, <1>5, <1>6, <1>7 DEF Local
<1>9. /\ f.stage \notin {"enter", "parse", "leave", "take"}
      /\ f.directive <=> Top(t).directive
    BY <1>3
<1> HIDE DEF f
<1> QED BY <1>1, <1>3, <1>5, <1>8, <1>9, QuietStep

LEMMA ParseHookReturnsStep ==
    ASSUME SessionInv, NEW t \in Thread, ParseHookReturns(t)
    PROVE  SessionInv'
<1>1. /\ frames[t] # <<>> /\ Top(t).stage = "inParse"
      /\ UNCHANGED <<answer, userLang, current, residue, storage, alive>>
    BY DEF ParseHookReturns, At
<1>2. PICK D \in SUBSET HostReport :
          Update(t, [Top(t) EXCEPT !.stage = "hooks", !.given = @ + 1,
                                   !.diags = @ \cup D])
    BY DEF ParseHookReturns
<1> DEFINE f == [Top(t) EXCEPT !.stage = "hooks", !.given = @ + 1, !.diags = @ \cup D]
<1>3. /\ Top(t) \in Frame /\ Top(t).given + 1 \in Nat /\ Top(t).given \in Nat
      /\ Top(t).diags \cup D \in SUBSET Code
    <2>1. Top(t) \in Frame /\ Top(t).given \in Nat /\ Top(t).diags \in SUBSET Code
        BY <1>1, Stages
    <2>2. D \in SUBSET Code BY HostAssumption DEF Code
    <2> QED BY <2>1, <2>2
<1>4. /\ f \in Frame /\ f.req = Top(t).req /\ f.stage = "hooks"
      /\ f.diags = Top(t).diags \cup D /\ f.given = Top(t).given + 1
      /\ f.directive = Top(t).directive /\ f.complete = Top(t).complete
      /\ f.base = Top(t).base
    BY <1>3 DEF Frame, Stage
<1>5. Local(Top(t)) BY <1>1, TopInv
<1>6. /\ f.directive /\ f.req.hooks /\ ~f.complete /\ f.diags \subseteq HostReport
      /\ Top(t).given < Fragments[f.req.text] /\ f.req.text # NULL
      /\ f.base = f.req.lang /\ Service!Refusal(f.req) = {}
    BY <1>1, <1>2, <1>4, <1>5 DEF Local
<1>7. Fragments[f.req.text] \in Nat BY <1>1, <1>4, <1>6, Stages, FragmentsAssumption
<1>8. f.given <= Fragments[f.req.text] BY <1>3, <1>4, <1>6, <1>7
<1>9. Local(f) BY <1>4, <1>6, <1>8 DEF Local
<1> HIDE DEF f
<1> QED BY <1>1, <1>2, <1>4, <1>6, <1>8, <1>9, QuietStep DEF f

LEMMA ValidateHookReturnsStep ==
    ASSUME SessionInv, NEW t \in Thread, ValidateHookReturns(t)
    PROVE  SessionInv'
<1>1. /\ frames[t] # <<>> /\ Top(t).stage = "inValidate"
      /\ UNCHANGED <<answer, userLang, current, residue, storage, alive>>
    BY DEF ValidateHookReturns, At
<1>2. PICK D \in SUBSET HostReport :
          Update(t, [Top(t) EXCEPT !.stage = "check", !.complete = TRUE,
                                   !.diags = @ \cup D])
    BY DEF ValidateHookReturns
<1> DEFINE f == [Top(t) EXCEPT !.stage = "check", !.complete = TRUE, !.diags = @ \cup D]
<1>3. Top(t) \in Frame BY <1>1, Stages
<1>4. /\ f \in Frame /\ f.req = Top(t).req /\ f.stage = "check"
      /\ f.diags = Top(t).diags \cup D /\ f.given = Top(t).given
      /\ f.directive = Top(t).directive /\ f.complete
      /\ f.base = Top(t).base
    BY <1>3, HostAssumption DEF Frame, Stage, Code
<1>5. Local(Top(t)) BY <1>1, TopInv
<1>6. /\ f.directive /\ f.req.hooks /\ f.diags \subseteq HostReport
      /\ f.given = Fragments[f.req.text] /\ f.req.text # NULL
      /\ f.base = f.req.lang /\ Service!Refusal(f.req) = {}
    BY <1>1, <1>2, <1>4, <1>5 DEF Local
<1>7. Fragments[f.req.text] \in Nat BY <1>1, <1>4, <1>6, Stages, FragmentsAssumption
<1>8. f.given <= Fragments[f.req.text] BY <1>6, <1>7
<1>9. f.diags \in HostSays(f.req) BY <1>6 DEF HostSays
<1>10. Local(f) BY <1>4, <1>6, <1>9 DEF Local
<1> HIDE DEF f
<1> QED BY <1>1, <1>2, <1>4, <1>6, <1>8, <1>10, QuietStep DEF f

LEMMA CheckStep ==
    ASSUME SessionInv, NEW t \in Thread, Check(t)
    PROVE  SessionInv'
<1> DEFINE f == [Top(t) EXCEPT !.stage = "return",
                               !.diags = @ \cup CheckReports(Top(t).req)]
<1>1. /\ frames[t] # <<>> /\ Top(t).stage = "check" /\ Update(t, f)
      /\ UNCHANGED <<answer, userLang, current, residue, storage, alive>>
    BY DEF Check, At
<1>2. Top(t) \in Frame /\ CheckReports(Top(t).req) \subseteq Code
    BY <1>1, Stages DEF CheckReports, Code
<1>3. /\ f \in Frame /\ f.req = Top(t).req /\ f.stage = "return"
      /\ f.diags = Top(t).diags \cup CheckReports(Top(t).req)
      /\ f.given = Top(t).given
      /\ f.directive = Top(t).directive /\ f.complete = Top(t).complete
      /\ f.base = Top(t).base
    BY <1>2 DEF Frame, Stage
<1>4. Local(Top(t)) BY <1>1, TopInv
<1>5. /\ f.directive /\ (f.complete <=> f.req.hooks)
      /\ Top(t).diags \in HostSays(f.req)
      /\ f.base = f.req.lang /\ Service!Refusal(f.req) = {}
      /\ f.complete => f.given = Fragments[f.req.text]
    BY <1>1, <1>3, <1>4 DEF Local
<1>6. CheckReports(f.req) = Service!Faults(f.req) BY DEF CheckReports, Service!Faults
<1>7. \E D \in HostSays(f.req) : f.diags = D \cup Service!Faults(f.req)
    BY <1>3, <1>5, <1>6
<1>8. Local(f) BY <1>3, <1>5, <1>7 DEF Local
<1>9. f.given # 0 => f.req.text # NULL /\ f.given <= Fragments[f.req.text]
    BY <1>1, <1>3, Stages
<1> HIDE DEF f
<1> QED BY <1>1, <1>3, <1>5, <1>8, <1>9, QuietStep

-----------------------------------------------------------------------------
(* Steps that end a call or start one. *)

\* The caller is in a hook, which needs nothing of the slots.
LEMMA PopStep ==
    ASSUME SessionInv, NEW t \in Thread, frames[t] # <<>>,
           frames' = [frames EXCEPT ![t] = Front(@)],
           answer' \in [Thread -> Answer \cup {NULL}],
           userLang' = userLang,
           current' = [current EXCEPT ![t] = current'[t]],
           current'[t] \subseteq Code,
           residue' = [residue EXCEPT ![t] = residue'[t]],
           residue'[t] \subseteq {"parser", "lexer"},
           storage' = [storage EXCEPT ![t] = storage'[t]],
           storage'[t] \subseteq storage[t] \cup {Self(t)},
           alive' = (alive \ (storage[t] \cup {Self(t)})) \cup storage'[t]
    PROVE  SessionInv'
<1>1. /\ TypeOK /\ CallsNest /\ SlotsServeTop /\ StoredByThread
      /\ alive = Owned \cup UNION {storage[u] : u \in Thread}
    BY DEF SessionInv
<1>2. /\ frames' \in [Thread -> Seq(Frame)]
      /\ Depth(t)' = Depth(t) - 1
      /\ \A u \in Thread \ {t} : frames'[u] = frames[u]
      /\ \A i \in 1 .. Depth(t) - 1 : frames'[t][i] = frames[t][i]
    BY <1>1, PopFacts
<1>3. /\ userLang' \in [Thread -> Lang \cup {NULL}]
      /\ current' \in [Thread -> SUBSET Code]
      /\ residue' \in [Thread -> SUBSET {"parser", "lexer"}]
      /\ \A u \in Thread \ {t} : /\ current'[u] = current[u]
                                 /\ residue'[u] = residue[u]
                                 /\ storage'[u] = storage[u]
    BY <1>1 DEF TypeOK
<1>4. Self(t) \in Object /\ storage[t] \subseteq Object BY <1>1, TopInv DEF TypeOK
<1>5. storage' \in [Thread -> SUBSET Object] /\ storage'[t] \subseteq Object
    <2>1. storage'[t] \subseteq Object BY <1>4
    <2>2. storage \in [Thread -> SUBSET Object] BY <1>1 DEF TypeOK
    <2>3. storage' = [storage EXCEPT ![t] = storage'[t]] OBVIOUS
    <2>4. storage' \in [Thread -> SUBSET Object] BY <2>1, <2>2, <2>3, Zenon
    <2> QED BY <2>1, <2>4
<1>6. Self(t)[1] = t BY DEF Self
<1>7. Owned' = Owned \ {Self(t)} BY <1>1, OwnedPop
<1>8. /\ Depth(t) \in Nat /\ Depth(t) >= 1 /\ DOMAIN frames[t] = 1 .. Depth(t)
      /\ DOMAIN frames'[t] = 1 .. Depth(t) - 1
    <2>1. frames'[t] \in Seq(Frame) BY <1>2
    <2> QED BY <1>1, <1>2, <2>1, TopFacts DEF Depth
<1>9. \A i \in 1 .. Depth(t) - 1 : i \in 1 .. Depth(t) /\ i < Depth(t) BY <1>8
<1>10. TypeOK'
    <2>1. ASSUME NEW u \in Thread, NEW i \in DOMAIN frames'[u]
          PROVE  frames'[u][i].given # 0 =>
                    /\ frames'[u][i].req.text # NULL
                    /\ frames'[u][i].given <= Fragments[frames'[u][i].req.text]
        <3>1. CASE u # t BY <1>1, <1>2, <3>1 DEF TypeOK
        <3>2. CASE u = t
            <4>1. frames'[t][i] = frames[t][i] /\ i \in DOMAIN frames[t]
                BY <1>2, <1>8, <1>9, <3>2
            <4>2. frames[t][i].given # 0 =>
                      /\ frames[t][i].req.text # NULL
                      /\ frames[t][i].given <= Fragments[frames[t][i].req.text]
                BY <1>1, <4>1 DEF TypeOK
            <4> QED BY <3>2, <4>1, <4>2
        <3> QED BY <3>1, <3>2
    <2>2. alive' \subseteq Object BY <1>1, <1>5 DEF TypeOK
    <2> QED BY <1>2, <1>3, <1>5, <2>1, <2>2 DEF TypeOK
<1>11. CallsNest'
    <2>1. ASSUME NEW u \in Thread
          PROVE  /\ Depth(u)' <= MaxDepth
                 /\ \A i \in 1 .. Depth(u)' :
                       /\ Local(frames'[u][i])
                       /\ i < Depth(u)' =>
                             frames'[u][i].stage \in {"inParse", "inValidate"}
        <3>1. CASE u # t BY <1>1, <1>2, <3>1 DEF CallsNest, Depth
        <3>2. CASE u = t
            <4>1. Depth(t) <= MaxDepth /\ Depth(t) - 1 <= MaxDepth
                BY <1>1, <1>8, MaxDepthAssumption DEF CallsNest
            <4>2. ASSUME NEW i \in 1 .. Depth(t) - 1
                  PROVE  Local(frames[t][i]) /\ frames[t][i].stage \in {"inParse", "inValidate"}
                BY <1>1, <1>9 DEF CallsNest
            <4> QED BY <1>2, <3>2, <4>1, <4>2
        <3> QED BY <3>1, <3>2
    <2> QED BY <2>1 DEF CallsNest
<1>12. ASSUME frames'[t] # <<>> PROVE Top(t)'.stage \in {"inParse", "inValidate"}
    <2>1. frames'[t] \in Seq(Frame) /\ Len(frames'[t]) = Depth(t) - 1 BY <1>2 DEF Depth
    <2>2. Depth(t) - 1 >= 1 BY <1>8, <1>12, <2>1
    <2>3. Depth(t) - 1 \in 1 .. Depth(t) - 1 BY <1>8, <2>2
    <2>4. frames[t][Depth(t) - 1].stage \in {"inParse", "inValidate"}
        BY <1>1, <1>9, <2>3 DEF CallsNest
    <2> QED BY <1>2, <2>3, <2>4 DEF Top
<1>13. SlotsServeTop'
    <2>1. ASSUME NEW u \in Thread, frames'[u] # <<>>
          PROVE  /\ Top(u)'.stage \in {"enter", "parse", "leave", "take"} =>
                       userLang'[u] = Top(u)'.req.lang
                 /\ Top(u)'.stage = "parse" =>
                       current'[u] = {} /\ storage'[u] = {} /\ residue'[u] \subseteq {"lexer"}
                 /\ Top(u)'.stage = "leave" =>
                       storage'[u] = {Self(u)'} /\ current'[u] = Service!Refusal(Top(u)'.req)
                 /\ Top(u)'.stage = "take" => current'[u] = Service!Refusal(Top(u)'.req)
        <3>1. CASE u = t BY <1>12, <2>1, <3>1
        <3>2. CASE u # t
            <4>1. frames[u] # <<>> BY <1>2, <2>1, <3>2
            <4>2. Top(u)' = Top(u) /\ Self(u)' = Self(u) BY <1>2, <3>2 DEF Top, Self, Depth
            <4> QED BY <1>1, <1>3, <3>2, <4>1, <4>2 DEF SlotsServeTop
        <3> QED BY <3>1, <3>2
    <2> QED BY <2>1 DEF SlotsServeTop
<1>14. StoredByThread'
    <2>1. ASSUME NEW u \in Thread, NEW o \in storage'[u] PROVE o[1] = u /\ o \notin Owned'
        <3>1. CASE u = t BY <1>1, <1>6, <1>7, <2>1, <3>1 DEF StoredByThread
        <3>2. CASE u # t BY <1>1, <1>3, <1>7, <2>1, <3>2 DEF StoredByThread
        <3> QED BY <3>1, <3>2
    <2> QED BY <2>1 DEF StoredByThread
<1>15. alive' = Owned' \cup UNION {storage'[u] : u \in Thread}
    <2>1. ASSUME NEW u \in Thread \ {t}, NEW o \in storage[u]
          PROVE  o \notin storage[t] /\ o # Self(t)
        BY <1>1, <1>6 DEF StoredByThread
    <2>2. UNION {storage'[u] : u \in Thread}
              = storage'[t] \cup UNION {storage[u] : u \in Thread \ {t}}
        BY <1>3, <1>5
    <2>3. UNION {storage[u] : u \in Thread}
              = storage[t] \cup UNION {storage[u] : u \in Thread \ {t}}
        OBVIOUS
    <2>4. \A o \in storage[t] : o \notin Owned BY <1>1 DEF StoredByThread
    <2>5. \A o \in UNION {storage[u] : u \in Thread \ {t}} : o \notin storage[t] /\ o # Self(t)
        BY <2>1
    <2>6. alive \ (storage[t] \cup {Self(t)})
              = (Owned \ {Self(t)}) \cup UNION {storage[u] : u \in Thread \ {t}}
        BY <1>1, <2>3, <2>4, <2>5
    <2> QED BY <1>7, <2>2, <2>6
<1> QED BY <1>10, <1>11, <1>13, <1>14, <1>15 DEF SessionInv

LEMMA CallStep ==
    ASSUME SessionInv, NEW t \in Thread, NEW r \in Request, Call(t, r)
    PROVE  SessionInv'
<1> DEFINE f == [req |-> r, stage |-> "begin", base |-> NULL, directive |-> FALSE,
                 diags |-> {}, given |-> 0, complete |-> FALSE]
<1>1. /\ TypeOK /\ CallsNest /\ SlotsServeTop /\ StoredByThread
      /\ alive = Owned \cup UNION {storage[u] : u \in Thread}
    BY DEF SessionInv
<1>2. /\ frames[t] # <<>> => Top(t).stage \in {"inParse", "inValidate"}
      /\ Depth(t) < MaxDepth
      /\ frames' = [frames EXCEPT ![t] = Append(@, f)]
      /\ answer' = [answer EXCEPT ![t] = NULL]
      /\ UNCHANGED <<userLang, current, residue, storage, alive>>
    <2>1. frames[t] = <<>> \/ At(t, "inParse") \/ At(t, "inValidate") BY DEF Call
    <2>2. frames[t] # <<>> => Top(t).stage \in {"inParse", "inValidate"}
        BY <2>1 DEF At
    <2>3. /\ Depth(t) < MaxDepth
          /\ frames' = [frames EXCEPT ![t] = Append(@, f)]
          /\ answer' = [answer EXCEPT ![t] = NULL]
          /\ UNCHANGED <<userLang, current, residue, storage, alive>>
        BY DEF Call
    <2> QED BY <2>2, <2>3
<1>3. f \in Frame BY DEF Frame, Stage
<1>4. /\ f.req = r /\ f.stage = "begin" /\ ~f.directive /\ f.diags = {}
      /\ f.given = 0 /\ ~f.complete
    OBVIOUS
<1> HIDE DEF f
<1>5. /\ frames' \in [Thread -> Seq(Frame)]
      /\ Depth(t) \in Nat /\ Depth(t)' = Depth(t) + 1
      /\ frames'[t] # <<>> /\ Top(t)' = f
      /\ \A u \in Thread \ {t} : frames'[u] = frames[u]
      /\ \A i \in 1 .. Depth(t) : frames'[t][i] = frames[t][i]
    BY <1>1, <1>2, <1>3, PushFacts
<1>6. Local(f) BY <1>4 DEF Local
<1>7. /\ DOMAIN frames'[t] = 1 .. Depth(t) + 1 /\ DOMAIN frames[t] = 1 .. Depth(t)
      /\ frames'[t][Depth(t) + 1] = f
    <2>1. frames'[t] \in Seq(Frame) /\ Len(frames'[t]) = Depth(t) + 1 BY <1>5 DEF Depth
    <2>2. frames[t] \in Seq(Frame) BY <1>1 DEF TypeOK
    <2>3. frames'[t][Depth(t) + 1] = f BY <1>5 DEF Top
    <2> QED BY <1>5, <2>1, <2>2, <2>3 DEF Depth
<1>8. \A i \in 1 .. Depth(t) + 1 : i \in 1 .. Depth(t) \/ i = Depth(t) + 1 BY <1>5
<1>9. TypeOK'
    <2>1. ASSUME NEW u \in Thread, NEW i \in DOMAIN frames'[u]
          PROVE  frames'[u][i].given # 0 =>
                    /\ frames'[u][i].req.text # NULL
                    /\ frames'[u][i].given <= Fragments[frames'[u][i].req.text]
        <3>1. CASE u # t BY <1>1, <1>5, <3>1 DEF TypeOK
        <3>2. CASE u = t /\ i = Depth(t) + 1 BY <1>4, <1>7, <3>2
        <3>3. CASE u = t /\ i # Depth(t) + 1
            <4>1. frames'[t][i] = frames[t][i] /\ i \in DOMAIN frames[t]
                BY <1>5, <1>7, <1>8, <3>3
            <4>2. frames[t][i].given # 0 =>
                      /\ frames[t][i].req.text # NULL
                      /\ frames[t][i].given <= Fragments[frames[t][i].req.text]
                BY <1>1, <4>1 DEF TypeOK
            <4> QED BY <3>3, <4>1, <4>2
        <3> QED BY <3>1, <3>2, <3>3
    <2>2. answer' \in [Thread -> Answer \cup {NULL}] BY <1>1, <1>2 DEF TypeOK
    <2> QED BY <1>1, <1>2, <1>5, <2>1, <2>2 DEF TypeOK
<1>10. CallsNest'
    <2>1. ASSUME NEW u \in Thread
          PROVE  /\ Depth(u)' <= MaxDepth
                 /\ \A i \in 1 .. Depth(u)' :
                       /\ Local(frames'[u][i])
                       /\ i < Depth(u)' =>
                             frames'[u][i].stage \in {"inParse", "inValidate"}
        <3>1. CASE u # t BY <1>1, <1>5, <3>1 DEF CallsNest, Depth
        <3>2. CASE u = t
            <4>1. Depth(t) + 1 <= MaxDepth BY <1>2, <1>5, MaxDepthAssumption
            <4>2. ASSUME NEW i \in 1 .. Depth(t)
                  PROVE  Local(frames[t][i]) /\ frames[t][i].stage \in {"inParse", "inValidate"}
                <5>1. frames[t] # <<>> BY <1>5, <4>2 DEF Depth
                <5>2. CASE i = Depth(t) BY <1>1, <1>2, <4>2, <5>1, <5>2 DEF CallsNest, Top
                <5>3. CASE i # Depth(t)
                    <6>1. i < Depth(t) BY <1>5, <5>3
                    <6> QED BY <1>1, <4>2, <6>1 DEF CallsNest
                <5> QED BY <5>2, <5>3
            <4> QED BY <1>5, <1>6, <1>7, <1>8, <3>2, <4>1, <4>2
        <3> QED BY <3>1, <3>2
    <2> QED BY <2>1 DEF CallsNest
<1>11. SlotsServeTop'
    <2>1. ASSUME NEW u \in Thread, frames'[u] # <<>>
          PROVE  /\ Top(u)'.stage \in {"enter", "parse", "leave", "take"} =>
                       userLang'[u] = Top(u)'.req.lang
                 /\ Top(u)'.stage = "parse" =>
                       current'[u] = {} /\ storage'[u] = {} /\ residue'[u] \subseteq {"lexer"}
                 /\ Top(u)'.stage = "leave" =>
                       storage'[u] = {Self(u)'} /\ current'[u] = Service!Refusal(Top(u)'.req)
                 /\ Top(u)'.stage = "take" => current'[u] = Service!Refusal(Top(u)'.req)
        <3>1. CASE u = t BY <1>4, <1>5, <3>1
        <3>2. CASE u # t
            <4>1. frames[u] # <<>> BY <1>5, <2>1, <3>2
            <4>2. Top(u)' = Top(u) /\ Self(u)' = Self(u) BY <1>5, <3>2 DEF Top, Self, Depth
            <4> QED BY <1>1, <1>2, <3>2, <4>1, <4>2 DEF SlotsServeTop
        <3> QED BY <3>1, <3>2
    <2> QED BY <2>1 DEF SlotsServeTop
<1>12. Owned' = Owned BY <1>1, <1>2, <1>3, <1>4, OwnedPush
<1>13. StoredByThread' BY <1>1, <1>2, <1>12 DEF StoredByThread
<1>14. alive' = Owned' \cup UNION {storage'[u] : u \in Thread} BY <1>1, <1>2, <1>12
<1> QED BY <1>9, <1>10, <1>11, <1>13, <1>14 DEF SessionInv

LEMMA HookThrowsStep ==
    ASSUME SessionInv, NEW t \in Thread, HookThrows(t)
    PROVE  SessionInv'
<1>1. /\ frames[t] # <<>> /\ frames' = [frames EXCEPT ![t] = Front(@)]
      /\ Top(t).stage \in {"inParse", "inValidate"}
      /\ alive' = alive \ Held(t)
      /\ UNCHANGED <<answer, userLang, current, residue, storage>>
    BY DEF HookThrows, At, Unwind
<1>2. Self(t) \notin storage[t] /\ Top(t).directive
    BY <1>1, TopInv DEF SessionInv, StoredByThread, Local
<1>3. alive' = (alive \ (storage[t] \cup {Self(t)})) \cup storage'[t]
    BY <1>1, <1>2, TopInv DEF Held
<1>4. answer' \in [Thread -> Answer \cup {NULL}] BY <1>1 DEF SessionInv, TypeOK
<1> QED BY <1>1, <1>3, <1>4, SlotFacts, PopStep

LEMMA ParseThrowsStep ==
    ASSUME SessionInv, NEW t \in Thread, ParseThrows(t)
    PROVE  SessionInv'
<1>1. /\ frames[t] # <<>> /\ frames' = [frames EXCEPT ![t] = Front(@)]
      /\ Top(t).stage = "parse"
      /\ alive' = alive \cup {Self(t)}
      /\ storage' = [storage EXCEPT ![t] = storage[t] \cup {Self(t)}]
      /\ residue' = [residue EXCEPT ![t] = {"parser", "lexer"}]
      /\ answer' = answer /\ userLang' = userLang
    BY DEF ParseThrows, At, Unwind, Build, Slot
<1>2. PICK D \in SUBSET {"SyntaxError"} :
          current' = [current EXCEPT ![t] = current[t] \cup D]
    BY DEF ParseThrows, Slot
<1>3. current' = [current EXCEPT ![t] = current'[t]] /\ current'[t] \subseteq Code
    <2>1. current'[t] = current[t] \cup D BY <1>2, SlotFacts
    <2>2. current[t] \cup D \subseteq Code BY SlotFacts DEF Code
    <2> QED BY <1>2, <2>1, <2>2
<1>4. /\ storage' = [storage EXCEPT ![t] = storage'[t]]
      /\ storage'[t] = storage[t] \cup {Self(t)}
    BY <1>1, SlotFacts
<1>5. /\ residue' = [residue EXCEPT ![t] = residue'[t]]
      /\ residue'[t] \subseteq {"parser", "lexer"}
    BY <1>1, SlotFacts
<1>6. alive' = (alive \ (storage[t] \cup {Self(t)})) \cup storage'[t]
    BY <1>1, <1>4, TopInv
<1>7. answer' \in [Thread -> Answer \cup {NULL}] BY <1>1 DEF SessionInv, TypeOK
<1> QED BY <1>1, <1>3, <1>4, <1>5, <1>6, <1>7, PopStep

LEMMA ReturnStep ==
    ASSUME SessionInv, NEW t \in Thread, Return(t)
    PROVE  SessionInv'
<1>1. /\ frames[t] # <<>> /\ frames' = [frames EXCEPT ![t] = Front(@)]
      /\ answer' = [answer EXCEPT ![t] = Result(Top(t))]
      /\ alive' = alive \ Held(t)
      /\ UNCHANGED <<userLang, current, residue, storage>>
    BY DEF Return, At
<1>2. Top(t).directive => Self(t) \notin storage[t]
    BY <1>1, TopInv DEF SessionInv, StoredByThread
<1>3. alive' = (alive \ (storage[t] \cup {Self(t)})) \cup storage'[t]
    BY <1>1, <1>2, TopInv DEF Held
<1>4. Result(Top(t)) \in Answer BY <1>1, Stages DEF Result, Answer
<1>5. answer' \in [Thread -> Answer \cup {NULL}]
    BY <1>1, <1>4 DEF SessionInv, TypeOK
<1> QED BY <1>1, <1>3, <1>5, SlotFacts, PopStep

LEMMA InvInit == Init => SessionInv
<1> SUFFICES ASSUME Init PROVE SessionInv OBVIOUS
<1>1. \A t \in Thread : frames[t] = <<>> /\ Len(frames[t]) = 0 /\ DOMAIN frames[t] = 1 .. 0
    BY DEF Init
<1>2. TypeOK
    <2>1. \A t \in Thread : \A i \in DOMAIN frames[t] : FALSE BY <1>1
    <2>2. frames \in [Thread -> Seq(Frame)] BY EmptySeq DEF Init
    <2> QED BY <2>1, <2>2 DEF Init, TypeOK
<1>3. CallsNest
    <2>1. \A t \in Thread : Depth(t) = 0 /\ 1 .. Depth(t) = {} BY <1>1 DEF Depth
    <2> QED BY <2>1, MaxDepthAssumption DEF CallsNest
<1>4. SlotsServeTop BY <1>1 DEF SlotsServeTop
<1>5. StoredByThread BY DEF Init, StoredByThread
<1>6. Owned = {}
    <2>1. \A o \in Thread \X (1 .. MaxDepth) : ~(o[2] <= Depth(o[1]))
        <3>1. ASSUME NEW o \in Thread \X (1 .. MaxDepth) PROVE ~(o[2] <= Depth(o[1]))
            <4>1. Depth(o[1]) = 0 BY <1>1 DEF Depth
            <4>2. o[2] \in Nat /\ o[2] >= 1 BY MaxDepthAssumption
            <4> QED BY <4>1, <4>2
        <3> QED BY <3>1
    <2> QED BY <2>1 DEF Owned
<1>7. alive = Owned \cup UNION {storage[t] : t \in Thread} BY <1>6 DEF Init
<1> QED BY <1>2, <1>3, <1>4, <1>5, <1>7 DEF SessionInv

LEMMA InvStep == SessionInv /\ [Next]_vars => SessionInv'
<1> SUFFICES ASSUME SessionInv, [Next]_vars PROVE SessionInv' OBVIOUS
<1>1. ASSUME NEW t \in Thread, Step(t) PROVE SessionInv'
    BY <1>1, RejectNullStep, BeginStep, EnterStep, ParseStep, ParseThrowsStep, LeaveStep,
       TakeStep, CallHookStep, ParseHookReturnsStep, ValidateHookReturnsStep,
       HookThrowsStep, CheckStep, ReturnStep
    DEF Step
<1>2. ASSUME NEW t \in Thread, NEW r \in Request, Call(t, r) PROVE SessionInv'
    BY <1>2, CallStep
<1>3. CASE UNCHANGED vars
    <2>1. Owned' = Owned BY <1>3 DEF vars, Owned, Depth
    <2>2. TypeOK' BY <1>3 DEF vars, SessionInv, TypeOK
    <2>3. CallsNest' BY <1>3 DEF vars, SessionInv, CallsNest, Depth
    <2>4. SlotsServeTop' BY <1>3 DEF vars, SessionInv, SlotsServeTop, Top, Depth, Self
    <2>5. StoredByThread' BY <1>3, <2>1 DEF vars, SessionInv, StoredByThread
    <2>6. alive' = Owned' \cup UNION {storage'[t] : t \in Thread}
        BY <1>3, <2>1 DEF vars, SessionInv
    <2> QED BY <2>2, <2>3, <2>4, <2>5, <2>6 DEF SessionInv
<1> QED BY <1>1, <1>2, <1>3 DEF Next

THEOREM SessionInvariant == Spec => []SessionInv
BY InvInit, InvStep, PTL DEF Spec

\* No call hands out more fragments than there are, and no slot ever holds
\* what another part of the facade does not expect there.
THEOREM SessionTypeCorrect == Spec => []TypeOK
<1>1. SessionInv => TypeOK BY DEF SessionInv
<1> QED BY <1>1, SessionInvariant, PTL

\* Whatever nests, runs in parallel or throws, a directive is owned by
\* directive_storage or by one call, and by nobody else.
THEOREM DirectiveHasOneOwner == Spec => []OneOwner
<1>1. SessionInv => OneOwner
    <2> SUFFICES ASSUME SessionInv PROVE OneOwner OBVIOUS
    <2>1. alive = Owned \cup UNION {storage[t] : t \in Thread} BY DEF SessionInv
    <2>2. \A t \in Thread : storage[t] \cap Owned = {}
        BY DEF SessionInv, StoredByThread
    <2>3. \A t \in Thread : \A u \in Thread \ {t} : storage[t] \cap storage[u] = {}
        BY DEF SessionInv, StoredByThread
    <2> QED BY <2>1, <2>2, <2>3 DEF OneOwner
<1> QED BY <1>1, SessionInvariant, PTL

\* context_checks_complete is set only after every hook has run.
THEOREM CompleteFlagIsEarned == Spec => []CompleteMeansChecked
<1>1. SessionInv => CompleteMeansChecked
    BY DEF SessionInv, CallsNest, Local, CompleteMeansChecked
<1> QED BY <1>1, SessionInvariant, PTL

-----------------------------------------------------------------------------
(* Refinement: the requests of the frames are the pending requests. *)

Requests(s) == [i \in 1 .. Len(s) |-> s[i].req]

LEMMA RequestsFacts ==
    ASSUME NEW s \in Seq(Frame)
    PROVE  /\ Requests(s) \in Seq(Request)
           /\ Len(Requests(s)) = Len(s)
           /\ \A i \in 1 .. Len(s) : Requests(s)[i] = s[i].req
<1>1. Len(s) \in Nat /\ \A i \in 1 .. Len(s) : s[i].req \in Request
    <2>1. \A f \in Frame : f.req \in Request BY DEF Frame
    <2>2. Len(s) \in Nat /\ \A i \in 1 .. Len(s) : s[i] \in Frame OBVIOUS
    <2> QED BY <2>1, <2>2
<1>2. Requests(s) \in [1 .. Len(s) -> Request] BY <1>1 DEF Requests
<1> QED BY <1>1, <1>2 DEF Requests

LEMMA RequestsAppend ==
    ASSUME NEW s \in Seq(Frame), NEW f \in Frame
    PROVE  Requests(Append(s, f)) = Append(Requests(s), f.req)
<1>1. /\ Append(s, f) \in Seq(Frame) /\ Len(Append(s, f)) = Len(s) + 1
      /\ Len(s) \in Nat
      /\ \A i \in 1 .. Len(s) : Append(s, f)[i] = s[i]
      /\ Append(s, f)[Len(s) + 1] = f
    OBVIOUS
<1>2. f.req \in Request BY DEF Frame
<1>3. /\ Append(Requests(s), f.req) \in Seq(Request)
      /\ Len(Append(Requests(s), f.req)) = Len(s) + 1
      /\ \A i \in 1 .. Len(s) : Append(Requests(s), f.req)[i] = s[i].req
      /\ Append(Requests(s), f.req)[Len(s) + 1] = f.req
    BY <1>1, <1>2, RequestsFacts
<1>4. /\ Requests(Append(s, f)) \in Seq(Request)
      /\ Len(Requests(Append(s, f))) = Len(s) + 1
      /\ \A i \in 1 .. Len(s) + 1 : Requests(Append(s, f))[i] = Append(s, f)[i].req
    BY <1>1, RequestsFacts
<1>5. \A i \in 1 .. Len(s) + 1 : i \in 1 .. Len(s) \/ i = Len(s) + 1 BY <1>1
<1>6. \A i \in 1 .. Len(s) + 1 : Requests(Append(s, f))[i] = Append(Requests(s), f.req)[i]
    BY <1>1, <1>3, <1>4, <1>5
<1> QED BY <1>3, <1>4, <1>6, SeqEqual

LEMMA RequestsFront ==
    ASSUME NEW s \in Seq(Frame), s # <<>>
    PROVE  /\ Requests(Front(s)) = Front(Requests(s))
           /\ Requests(s) # <<>>
           /\ Last(Requests(s)) = s[Len(s)].req
<1>1. Len(s) \in Nat /\ Len(s) >= 1 /\ Len(s) \in 1 .. Len(s)
    <2>1. Len(s) \in Nat \ {0} BY EmptySeq
    <2> QED BY <2>1
<1>2. /\ Front(s) \in Seq(Frame) /\ Len(Front(s)) = Len(s) - 1
      /\ \A i \in 1 .. Len(s) - 1 : Front(s)[i] = s[i]
    <2>1. Front(s) = SubSeq(s, 1, Len(s) - 1) BY DEF Front
    <2>2. \A i \in 1 .. Len(s) - 1 : s[i] \in Frame BY <1>1
    <2>3. 1 \in Int /\ Len(s) - 1 \in Int BY <1>1
    <2>4. /\ SubSeq(s, 1, Len(s) - 1) \in Seq(Frame)
          /\ Len(SubSeq(s, 1, Len(s) - 1)) =
                IF 1 <= Len(s) - 1 THEN Len(s) - 1 - 1 + 1 ELSE 0
          /\ \A i \in 1 .. Len(s) - 1 - 1 + 1 : SubSeq(s, 1, Len(s) - 1)[i] = s[1 + i - 1]
        BY <2>2, <2>3, SubSeqProperties
    <2>5. Len(Front(s)) = Len(s) - 1
        <3>1. \A n \in Nat : n >= 1 => (IF 1 <= n - 1 THEN n - 1 - 1 + 1 ELSE 0) = n - 1
            OBVIOUS
        <3>2. Len(SubSeq(s, 1, Len(s) - 1)) = Len(s) - 1 BY <1>1, <2>4, <3>1
        <3> QED BY <2>1, <3>2
    <2>6. \A i \in 1 .. Len(s) - 1 : Front(s)[i] = s[i]
        <3>1. ASSUME NEW i \in 1 .. Len(s) - 1 PROVE Front(s)[i] = s[i]
            <4>1. /\ Len(s) - 1 - 1 + 1 = Len(s) - 1
                  /\ 1 + i - 1 = i
                BY <1>1
            <4>2. SubSeq(s, 1, Len(s) - 1)[i] = s[1 + i - 1] BY <2>4, <4>1
            <4> QED BY <2>1, <4>1, <4>2
        <3> QED BY <3>1
    <2> QED BY <2>1, <2>4, <2>5, <2>6
<1>3. /\ Requests(s) \in Seq(Request) /\ Len(Requests(s)) = Len(s)
      /\ \A i \in 1 .. Len(s) : Requests(s)[i] = s[i].req
    BY RequestsFacts
<1>4. /\ Front(Requests(s)) \in Seq(Request) /\ Len(Front(Requests(s))) = Len(s) - 1
      /\ \A i \in 1 .. Len(s) - 1 : Front(Requests(s))[i] = Requests(s)[i]
    <2>1. Front(Requests(s)) = SubSeq(Requests(s), 1, Len(s) - 1) BY <1>3 DEF Front
    <2> QED BY <1>1, <1>3, <2>1
<1>5. /\ Requests(Front(s)) \in Seq(Request) /\ Len(Requests(Front(s))) = Len(s) - 1
      /\ \A i \in 1 .. Len(s) - 1 : Requests(Front(s))[i] = Front(s)[i].req
    BY <1>2, RequestsFacts
<1>6. \A i \in 1 .. Len(s) - 1 : i \in 1 .. Len(s) BY <1>1
<1>7. \A i \in 1 .. Len(s) - 1 : Requests(Front(s))[i] = Front(Requests(s))[i]
    BY <1>2, <1>3, <1>4, <1>5, <1>6
<1>8. Requests(Front(s)) = Front(Requests(s)) BY <1>4, <1>5, <1>7, SeqEqual
<1>9. Requests(s) # <<>> BY <1>1, <1>3, EmptySeq
<1>10. Last(Requests(s)) = s[Len(s)].req BY <1>1, <1>3 DEF Last
<1> QED BY <1>8, <1>9, <1>10

LEMMA PendingUpdate ==
    ASSUME TypeOK, NEW t \in Thread, frames[t] # <<>>,
           NEW f \in Frame, Update(t, f), f.req = Top(t).req
    PROVE  Pending' = Pending
<1>1. /\ \A u \in Thread : Depth(u)' = Depth(u)
      /\ \A u \in Thread \ {t} : frames'[u] = frames[u]
      /\ \A i \in 1 .. Depth(t) : frames'[t][i] = IF i = Depth(t) THEN f ELSE frames[t][i]
    BY UpdateFacts
<1>2. ASSUME NEW u \in Thread
      PROVE  [i \in 1 .. Len(frames'[u]) |-> frames'[u][i].req]
                 = [i \in 1 .. Len(frames[u]) |-> frames[u][i].req]
    <2>1. Len(frames'[u]) = Len(frames[u]) BY <1>1 DEF Depth
    <2>2. \A i \in 1 .. Len(frames[u]) : frames'[u][i].req = frames[u][i].req
        BY <1>1 DEF Depth, Top
    <2> QED BY <2>1, <2>2
<1> QED BY <1>2 DEF Pending

LEMMA PendingPop ==
    ASSUME TypeOK, NEW t \in Thread, frames[t] # <<>>,
           frames' = [frames EXCEPT ![t] = Front(@)]
    PROVE  /\ Pending' = [Pending EXCEPT ![t] = Front(@)]
           /\ Pending[t] # <<>>
           /\ Last(Pending[t]) = Top(t).req
<1>1. frames \in [Thread -> Seq(Frame)] BY DEF TypeOK
<1>2. Pending = [u \in Thread |-> Requests(frames[u])] BY DEF Pending, Requests
<1>3. Pending' = [u \in Thread |-> Requests(frames'[u])] BY DEF Pending, Requests
<1>4. frames'[t] = Front(frames[t]) /\ \A u \in Thread \ {t} : frames'[u] = frames[u]
    BY <1>1
<1>5. Pending'[t] = Front(Pending[t]) BY <1>1, <1>2, <1>3, <1>4, RequestsFront
<1>6. \A u \in Thread \ {t} : Pending'[u] = Pending[u] BY <1>2, <1>3, <1>4
<1>7. Pending' = [Pending EXCEPT ![t] = Front(@)] BY <1>2, <1>3, <1>5, <1>6
<1>8. Pending[t] = Requests(frames[t]) BY <1>2
<1>9. Pending[t] # <<>> /\ Last(Pending[t]) = frames[t][Len(frames[t])].req
    BY <1>1, <1>8, RequestsFront
<1> QED BY <1>7, <1>9 DEF Top, Depth

LEMMA PendingPush ==
    ASSUME TypeOK, NEW t \in Thread, NEW f \in Frame,
           frames' = [frames EXCEPT ![t] = Append(@, f)]
    PROVE  /\ Pending' = [Pending EXCEPT ![t] = Append(@, f.req)]
           /\ frames[t] = <<>> => Pending[t] = <<>>
           /\ frames[t] # <<>> => Last(Pending[t]) = Top(t).req
<1>1. frames \in [Thread -> Seq(Frame)] BY DEF TypeOK
<1>2. Pending = [u \in Thread |-> Requests(frames[u])] BY DEF Pending, Requests
<1>3. Pending' = [u \in Thread |-> Requests(frames'[u])] BY DEF Pending, Requests
<1>4. frames'[t] = Append(frames[t], f) /\ \A u \in Thread \ {t} : frames'[u] = frames[u]
    BY <1>1
<1>5. Pending'[t] = Append(Pending[t], f.req) BY <1>1, <1>2, <1>3, <1>4, RequestsAppend
<1>6. \A u \in Thread \ {t} : Pending'[u] = Pending[u] BY <1>2, <1>3, <1>4
<1>7. Pending' = [Pending EXCEPT ![t] = Append(@, f.req)] BY <1>2, <1>3, <1>5, <1>6
<1>8. Pending[t] = Requests(frames[t]) BY <1>2
<1>9. ASSUME frames[t] = <<>> PROVE Pending[t] = <<>>
    <2>1. Requests(frames[t]) \in Seq(Request) /\ Len(Requests(frames[t])) = 0
        BY <1>1, <1>9, RequestsFacts, EmptySeq
    <2>2. Requests(frames[t]) = <<>> BY <2>1, EmptySeq
    <2> QED BY <1>8, <2>2
<1>10. ASSUME frames[t] # <<>> PROVE Last(Pending[t]) = Top(t).req
    BY <1>1, <1>8, <1>10, RequestsFront DEF Top, Depth
<1> QED BY <1>7, <1>9, <1>10

\* What a call returns is one of the answers that its request may get.
LEMMA ResultIsAnAnswer ==
    ASSUME SessionInv, NEW t \in Thread, frames[t] # <<>>, Top(t).stage = "return"
    PROVE  Result(Top(t)) \in Service!Answers(Top(t).req)
<1> DEFINE f == Top(t)
<1>1. Local(f) /\ f.complete \in BOOLEAN /\ f.req.hooks \in BOOLEAN BY TopInv, Stages
<1> HIDE DEF f
<1> SUFFICES ASSUME f.stage = "return" PROVE Result(f) \in Service!Answers(f.req)
    BY DEF f
<1>2. CASE ~f.directive
    <2>1. f.diags = Service!Refusal(f.req) /\ Service!Refusal(f.req) # {} /\ ~f.complete
        BY <1>1, <1>2 DEF Local
    <2>2. Result(f) = [diags |-> Service!Refusal(f.req), complete |-> FALSE, lang |-> NULL]
        BY <1>1, <1>2, <2>1 DEF Result
    <2> QED BY <2>1, <2>2 DEF Service!Answers
<1>3. CASE f.directive
    <2>1. /\ Service!Refusal(f.req) = {} /\ f.base = f.req.lang
          /\ f.complete <=> f.req.hooks
        BY <1>1, <1>3 DEF Local
    <2>2. PICK D \in HostSays(f.req) : f.diags = D \cup Service!Faults(f.req)
        BY <1>1, <1>3 DEF Local
    <2>3. f.complete = f.req.hooks BY <1>1, <2>1
    <2>4. Error(f.diags) <=> Service!Error(D \cup Service!Faults(f.req))
        BY <2>2 DEF Error, Service!Error
    <2>5. Result(f) =
              [diags |-> D \cup Service!Faults(f.req), complete |-> f.req.hooks,
               lang |-> IF Service!Error(D \cup Service!Faults(f.req)) THEN NULL
                        ELSE f.req.lang]
        BY <1>3, <2>1, <2>2, <2>3, <2>4 DEF Result
    <2> QED BY <2>1, <2>5 DEF Service!Answers, HostSays
<1> QED BY <1>2, <1>3

LEMMA InitRefines == Init => Service!Init
<1> SUFFICES ASSUME Init PROVE Service!Init OBVIOUS
<1>1. \A t \in Thread : Requests(frames[t]) = <<>>
    <2>1. ASSUME NEW t \in Thread PROVE Requests(frames[t]) = <<>>
        <3>1. frames[t] = <<>> /\ <<>> \in Seq(Frame) BY EmptySeq DEF Init
        <3>2. Requests(<<>>) \in Seq(Request) /\ Len(Requests(<<>>)) = 0
            BY <3>1, RequestsFacts, EmptySeq
        <3> QED BY <3>1, <3>2, EmptySeq
    <2> QED BY <2>1
<1>2. Pending = [t \in Thread |-> <<>>] BY <1>1 DEF Pending, Requests
<1> QED BY <1>2 DEF Init, Service!Init

\* A step within a call is invisible to the clients.
LEMMA InnerSteps ==
    ASSUME SessionInv, NEW t \in Thread,
           \/ RejectNull(t) \/ Begin(t) \/ Enter(t) \/ Parse(t) \/ Leave(t) \/ Take(t)
           \/ CallHook(t) \/ ParseHookReturns(t) \/ ValidateHookReturns(t) \/ Check(t)
    PROVE  Pending' = Pending /\ answer' = answer
<1>1. TypeOK /\ answer' = answer
    BY DEF SessionInv, RejectNull, Begin, Enter, Parse, Leave, Take, CallHook,
           ParseHookReturns, ValidateHookReturns, Check
<1>2. frames[t] # <<>>
    BY DEF RejectNull, Begin, Enter, Parse, Leave, Take, CallHook,
           ParseHookReturns, ValidateHookReturns, Check, At
<1>3. Top(t) \in Frame BY <1>2, Stages
<1>4. PICK f \in Frame : Update(t, f) /\ f.req = Top(t).req
    <2>1. CASE RejectNull(t)
        <3>1. [Top(t) EXCEPT !.stage = "return", !.diags = {"NullInput"}] \in Frame
            BY <1>3 DEF Frame, Stage, Code
        <3>2. [Top(t) EXCEPT !.stage = "return", !.diags = {"NullInput"}].req = Top(t).req
            BY <1>3 DEF Frame
        <3> QED BY <2>1, <3>1, <3>2 DEF RejectNull
    <2>2. CASE Begin(t)
        <3>1. [Top(t) EXCEPT !.stage = "enter"] \in Frame BY <1>3 DEF Frame, Stage
        <3>2. [Top(t) EXCEPT !.stage = "enter"].req = Top(t).req BY <1>3 DEF Frame
        <3> QED BY <2>2, <3>1, <3>2 DEF Begin
    <2>3. CASE Enter(t)
        <3> DEFINE f == [Top(t) EXCEPT !.stage = IF Mismatch(t) THEN "take" ELSE "parse",
                                       !.base = userLang[t]]
        <3>1. userLang[t] \in Lang \cup {NULL} BY SlotFacts
        <3>2. f \in Frame /\ f.req = Top(t).req BY <1>3, <3>1 DEF Frame, Stage
        <3>3. Update(t, f) BY <2>3 DEF Enter, Slot
        <3> QED BY <3>2, <3>3
    <2>4. CASE Parse(t)
        <3>1. [Top(t) EXCEPT !.stage = "leave"] \in Frame BY <1>3 DEF Frame, Stage
        <3>2. [Top(t) EXCEPT !.stage = "leave"].req = Top(t).req BY <1>3 DEF Frame
        <3> QED BY <2>4, <3>1, <3>2 DEF Parse
    <2>5. CASE Leave(t)
        <3> DEFINE f == [Top(t) EXCEPT !.stage = "take", !.directive = ~Error(current[t])]
        <3>1. (~Error(current[t])) \in BOOLEAN BY DEF Error
        <3>2. f \in Frame /\ f.req = Top(t).req BY <1>3, <3>1 DEF Frame, Stage
        <3>3. Update(t, f) BY <2>5 DEF Leave, Slot
        <3> QED BY <3>2, <3>3
    <2>6. CASE Take(t)
        <3> DEFINE f == [Top(t) EXCEPT !.diags = current[t], !.stage = AfterTake(Top(t))]
        <3>1. current[t] \in SUBSET Code BY SlotFacts
        <3>2. AfterTake(Top(t)) \in Stage BY DEF AfterTake, Stage
        <3>3. f \in Frame /\ f.req = Top(t).req BY <1>3, <3>1, <3>2 DEF Frame
        <3>4. Update(t, f) BY <2>6 DEF Take, Slot
        <3> QED BY <3>3, <3>4
    <2>7. CASE CallHook(t)
        <3> DEFINE f == [Top(t) EXCEPT !.stage =
                            IF MoreFragments(Top(t)) THEN "inParse" ELSE "inValidate"]
        <3>1. f \in Frame /\ f.req = Top(t).req BY <1>3 DEF Frame, Stage
        <3>2. Update(t, f) BY <2>7 DEF CallHook
        <3> QED BY <3>1, <3>2
    <2>8. CASE ParseHookReturns(t)
        <3>1. PICK D \in SUBSET HostReport :
                  Update(t, [Top(t) EXCEPT !.stage = "hooks", !.given = @ + 1,
                                           !.diags = @ \cup D])
            BY <2>8 DEF ParseHookReturns
        <3>2. Top(t).given + 1 \in Nat /\ Top(t).diags \cup D \in SUBSET Code
            <4>1. D \in SUBSET Code BY HostAssumption DEF Code
            <4> QED BY <1>2, <4>1, Stages
        <3> DEFINE f == [Top(t) EXCEPT !.stage = "hooks", !.given = @ + 1, !.diags = @ \cup D]
        <3>3. f \in Frame /\ f.req = Top(t).req BY <1>3, <3>2 DEF Frame, Stage
        <3> QED BY <3>1, <3>3
    <2>9. CASE ValidateHookReturns(t)
        <3>1. PICK D \in SUBSET HostReport :
                  Update(t, [Top(t) EXCEPT !.stage = "check", !.complete = TRUE,
                                           !.diags = @ \cup D])
            BY <2>9 DEF ValidateHookReturns
        <3>2. Top(t).diags \cup D \in SUBSET Code
            <4>1. D \in SUBSET Code BY HostAssumption DEF Code
            <4> QED BY <1>2, <4>1, Stages
        <3> DEFINE f == [Top(t) EXCEPT !.stage = "check", !.complete = TRUE, !.diags = @ \cup D]
        <3>3. f \in Frame /\ f.req = Top(t).req BY <1>3, <3>2 DEF Frame, Stage
        <3> QED BY <3>1, <3>3
    <2>10. CASE Check(t)
        <3> DEFINE f == [Top(t) EXCEPT !.stage = "return",
                                       !.diags = @ \cup CheckReports(Top(t).req)]
        <3>1. Top(t).diags \cup CheckReports(Top(t).req) \in SUBSET Code
            BY <1>2, Stages DEF CheckReports, Code
        <3>2. f \in Frame /\ f.req = Top(t).req BY <1>3, <3>1 DEF Frame, Stage
        <3>3. Update(t, f) BY <2>10 DEF Check
        <3> QED BY <3>2, <3>3
    <2> QED BY <2>1, <2>2, <2>3, <2>4, <2>5, <2>6, <2>7, <2>8, <2>9, <2>10
<1>5. Pending' = Pending BY <1>1, <1>2, <1>4, PendingUpdate
<1> QED BY <1>1, <1>5

LEMMA StepRefines == SessionInv /\ [Next]_vars => [Service!Next]_(Service!vars)
<1> SUFFICES ASSUME SessionInv, [Next]_vars PROVE [Service!Next]_(Service!vars)
    OBVIOUS
<1> USE DEF Service!vars
<1>1. TypeOK BY DEF SessionInv
<1>2. ASSUME NEW t \in Thread,
             \/ RejectNull(t) \/ Begin(t) \/ Enter(t) \/ Parse(t) \/ Leave(t) \/ Take(t)
             \/ CallHook(t) \/ ParseHookReturns(t) \/ ValidateHookReturns(t) \/ Check(t)
      PROVE  [Service!Next]_(Service!vars)
    <2>1. Pending' = Pending /\ answer' = answer BY <1>2, InnerSteps
    <2> QED BY <2>1
<1>3. ASSUME NEW t \in Thread, ParseThrows(t) \/ HookThrows(t)
      PROVE  Service!Next
    <2>1. frames[t] # <<>> /\ Unwind(t) BY <1>3 DEF ParseThrows, HookThrows, At
    <2>2. Pending' = [Pending EXCEPT ![t] = Front(@)] /\ Pending[t] # <<>> /\ answer' = answer
        BY <1>1, <2>1, PendingPop DEF Unwind
    <2>3. Service!Abandon(t) BY <2>2 DEF Service!Abandon, Service!Front, Front
    <2> QED BY <2>3 DEF Service!Next
<1>4. ASSUME NEW t \in Thread, Return(t) PROVE Service!Next
    <2>1. /\ frames[t] # <<>> /\ Top(t).stage = "return"
          /\ frames' = [frames EXCEPT ![t] = Front(@)]
          /\ answer' = [answer EXCEPT ![t] = Result(Top(t))]
        BY <1>4 DEF Return, At
    <2>2. /\ Pending' = [Pending EXCEPT ![t] = Front(@)] /\ Pending[t] # <<>>
          /\ Last(Pending[t]) = Top(t).req
        BY <1>1, <2>1, PendingPop
    <2>3. Result(Top(t)) \in Service!Answers(Service!Last(Pending[t]))
        BY <2>1, <2>2, ResultIsAnAnswer DEF Service!Last, Last
    <2>4. Service!Front(Pending[t]) = Front(Pending[t]) BY DEF Service!Front, Front
    <2>5. Service!Reply(t) BY <2>1, <2>2, <2>3, <2>4 DEF Service!Reply
    <2> QED BY <2>5 DEF Service!Next
<1>5. ASSUME NEW t \in Thread, NEW r \in Request, Call(t, r) PROVE Service!Next
    <2> DEFINE f == [req |-> r, stage |-> "begin", base |-> NULL, directive |-> FALSE,
                     diags |-> {}, given |-> 0, complete |-> FALSE]
    <2>1. /\ frames[t] = <<>> \/ At(t, "inParse") \/ At(t, "inValidate")
          /\ frames' = [frames EXCEPT ![t] = Append(@, f)]
          /\ answer' = [answer EXCEPT ![t] = NULL]
        BY <1>5 DEF Call
    <2>2. f \in Frame /\ f.req = r BY DEF Frame, Stage
    <2> HIDE DEF f
    <2>3. /\ Pending' = [Pending EXCEPT ![t] = Append(@, r)]
          /\ frames[t] = <<>> => Pending[t] = <<>>
          /\ frames[t] # <<>> => Last(Pending[t]) = Top(t).req
        BY <1>1, <2>1, <2>2, PendingPush
    <2>4. ASSUME frames[t] # <<>>
          PROVE  /\ Service!Last(Pending[t]).hooks
                 /\ Service!Refusal(Service!Last(Pending[t])) = {}
        <3>1. Top(t).stage \in {"inParse", "inValidate"} BY <2>1, <2>4 DEF At
        <3>2. Local(Top(t)) BY <2>4, TopInv
        <3>3. Top(t).req.hooks /\ Service!Refusal(Top(t).req) = {} BY <3>1, <3>2 DEF Local
        <3>4. Service!Last(Pending[t]) = Top(t).req BY <2>3, <2>4 DEF Service!Last, Last
        <3> QED BY <3>3, <3>4
    <2>5. Service!Call(t, r) BY <2>1, <2>3, <2>4 DEF Service!Call
    <2> QED BY <2>5 DEF Service!Next
<1>6. CASE UNCHANGED vars BY <1>6 DEF vars, Pending
<1>7. CASE Next BY <1>2, <1>3, <1>4, <1>5, <1>7 DEF Next, Step
<1> QED BY <1>6, <1>7

\* parseDirective answers every call as if it were the only one ever made.
THEOREM EveryCallAnsweredAlone == Spec => AnswersItsOwnCall
<1>1. Spec => Service!Spec
    BY InitRefines, StepRefines, SessionInvariant, PTL DEF Spec, Service!Spec
<1> QED BY <1>1 DEF AnswersItsOwnCall
==============================================================================
