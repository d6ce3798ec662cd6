------------------------- MODULE PreprocessorProofs -------------------------
(***************************************************************************)
(* TLAPS proofs about Preprocessor, for sources of any length: the tokens  *)
(* keep the order of the source, the recursion follows the nesting of the  *)
(* chains, directives are handled, and of each chain the branch that the   *)
(* conditions select is the one compiled.                                  *)
(***************************************************************************)
EXTENDS PreprocessorInv, ScriptLemmas, SequenceTheorems

----------------------------------------------------------------------------
(* Sequences whose end changes.                                            *)
LEMMA FrontAndLast ==
  ASSUME NEW S, NEW s \in Seq(S), s # <<>>
  PROVE  /\ Len(s) \in Nat /\ Len(s) >= 1 /\ DOMAIN s = 1 .. Len(s)
         /\ Front(s) \in Seq(S) /\ Len(Front(s)) = Len(s) - 1
         /\ \A i \in 1 .. Len(s) - 1 : Front(s)[i] = s[i]
         /\ Last(s) = s[Len(s)] /\ Last(s) \in S
<1>1. Len(s) \in Nat /\ Len(s) >= 1 /\ DOMAIN s = 1 .. Len(s)
  OBVIOUS
<1>2. \A i \in 1 .. Len(s) - 1 : s[i] \in S
  OBVIOUS
<1>3. Front(s) \in Seq(S) /\ Len(Front(s)) = Len(s) - 1
  BY <1>1, <1>2, SubSeqProperties DEF Front
<1>4. \A i \in 1 .. Len(s) - 1 : Front(s)[i] = s[i]
  BY <1>1, <1>2, SubSeqProperties DEF Front
<1> QED BY <1>1, <1>3, <1>4 DEF Last

LEMMA LastReplaced ==
  ASSUME NEW S, NEW s \in Seq(S), s # <<>>, NEW f \in S
  PROVE  LET r == Append(Front(s), f)
         IN  /\ r \in Seq(S) /\ Len(r) = Len(s) /\ r # <<>>
             /\ r[Len(s)] = f /\ Last(r) = f
             /\ \A i \in 1 .. Len(s) - 1 : r[i] = s[i]
<1> DEFINE r == Append(Front(s), f)
<1>1. r \in Seq(S) /\ Len(r) = Len(s) /\ r # <<>> /\ r[Len(s)] = f
  BY FrontAndLast, AppendProperties
<1>2. \A i \in 1 .. Len(s) - 1 : r[i] = s[i]
  BY FrontAndLast, AppendProperties
<1> QED BY <1>1, <1>2 DEF Last

LEMMA TwoReplaced ==
  ASSUME NEW S, NEW s \in Seq(S), s # <<>>, Len(s) # 1, NEW f \in S
  PROVE  LET r == Append(Front(Front(s)), f)
         IN  /\ Len(s) >= 2 /\ Last(Front(s)) = s[Len(s) - 1]
             /\ r \in Seq(S) /\ Len(r) = Len(s) - 1 /\ r # <<>>
             /\ r[Len(s) - 1] = f /\ Last(r) = f
             /\ \A i \in 1 .. Len(s) - 2 : r[i] = s[i]
<1>1. /\ Len(s) \in Nat /\ Len(s) >= 2 /\ Front(s) \in Seq(S)
      /\ Len(Front(s)) = Len(s) - 1 /\ Front(s) # <<>>
      /\ \A i \in 1 .. Len(s) - 1 : Front(s)[i] = s[i]
  <2>1. /\ Len(s) \in Nat /\ Len(s) >= 2 /\ Front(s) \in Seq(S)
        /\ Len(Front(s)) = Len(s) - 1
        /\ \A i \in 1 .. Len(s) - 1 : Front(s)[i] = s[i]
    <3>1. /\ Len(s) \in Nat /\ Len(s) >= 1 /\ Front(s) \in Seq(S)
          /\ Len(Front(s)) = Len(s) - 1
          /\ \A i \in 1 .. Len(s) - 1 : Front(s)[i] = s[i]
      BY FrontAndLast, Zenon
    <3>2. Len(s) >= 2
      BY <3>1
    <3> QED BY ONLY <3>1, <3>2
  <2>2. Len(<<>>) = 0
    OBVIOUS
  <2> QED BY ONLY <2>1, <2>2
<1>2. Last(Front(s)) = s[Len(s) - 1]
  BY <1>1 DEF Last
<1> QED BY SMTT(30), <1>1, <1>2, LastReplaced

LEMMA Pushed ==
  ASSUME NEW S, NEW s \in Seq(S), s # <<>>, NEW f \in S, NEW g \in S
  PROVE  LET r == Append(Append(Front(s), f), g)
         IN  /\ r \in Seq(S) /\ Len(r) = Len(s) + 1 /\ r # <<>>
             /\ r[Len(s)] = f /\ r[Len(s) + 1] = g /\ Last(r) = g
             /\ \A i \in 1 .. Len(s) - 1 : r[i] = s[i]
<1> DEFINE q == Append(Front(s), f)
           r == Append(q, g)
<1>1. /\ q \in Seq(S) /\ Len(q) = Len(s) /\ q[Len(s)] = f
      /\ \A i \in 1 .. Len(s) - 1 : q[i] = s[i]
  BY LastReplaced
<1>2. Len(s) \in Nat /\ Len(s) >= 1
  BY FrontAndLast
<1> HIDE DEF q
<1>3. r \in Seq(S) /\ Len(r) = Len(s) + 1 /\ r # <<>> /\ r[Len(s) + 1] = g
  BY <1>1, <1>2, AppendProperties
<1>4. r[Len(s)] = f /\ \A i \in 1 .. Len(s) - 1 : r[i] = s[i]
  BY <1>1, <1>2, AppendProperties
<1> QED BY <1>3, <1>4 DEF Last, q

LEMMA Appends ==
  ASSUME NEW S, NEW s \in Seq(S), NEW f \in S
  PROVE  LET r == Append(s, f)
         IN  /\ r \in Seq(S) /\ Len(r) = Len(s) + 1 /\ r # <<>>
             /\ r[Len(s) + 1] = f /\ Last(r) = f
             /\ \A i \in 1 .. Len(s) : r[i] = s[i]
<1> DEFINE r == Append(s, f)
<1>1. r \in Seq(S) /\ Len(r) = Len(s) + 1 /\ r # <<>> /\ r[Len(s) + 1] = f
  BY AppendProperties
<1>2. \A i \in 1 .. Len(s) : r[i] = s[i]
  BY AppendProperties
<1> QED BY <1>1, <1>2 DEF Last

----------------------------------------------------------------------------
(* Types.                                                                  *)

LEMMA NewFrame ==
  ASSUME NEW flags \in Flags, NEW l \in Lines
  PROVE  Frame(flags, l) \in FrameType
BY DEF Frame, FrameType, Places

LEMMA FrameParts ==
  ASSUME NEW f \in FrameType
  PROVE  /\ \A pc \in Places : [f EXCEPT !.pc = pc] \in FrameType
         /\ \A pc \in Places, b \in Seq(Nat) :
              [f EXCEPT !.body = b, !.pc = pc] \in FrameType
         /\ f.body \in Seq(Nat) /\ f.elifs \in Seq(Branch) /\ f.else_branch \in Seq(Branch)
         /\ Contents(f) \in Branch
         /\ \A c \in Branch :
              /\ [f EXCEPT !.elifs = Append(@, c)] \in FrameType
              /\ [f EXCEPT !.else_branch = <<c>>] \in FrameType
<1> USE DEF FrameType
<1>1. f.body \in Seq(Nat) /\ f.elifs \in Seq(Branch) /\ f.else_branch \in Seq(Branch)
  BY DEF Branch
<1>2. /\ \A pc \in Places : [f EXCEPT !.pc = pc] \in FrameType
      /\ \A pc \in Places, b \in Seq(Nat) : [f EXCEPT !.body = b, !.pc = pc] \in FrameType
  OBVIOUS
<1>3. Contents(f) \in Branch
  BY DEF Contents, Branch
<1>4. ASSUME NEW c \in Branch
      PROVE  /\ [f EXCEPT !.elifs = Append(@, c)] \in FrameType
             /\ [f EXCEPT !.else_branch = <<c>>] \in FrameType
  <2>1. Append(f.elifs, c) \in Seq(Branch) /\ <<c>> \in Seq(Branch)
    BY <1>1, <1>4
  <2> QED BY <2>1 DEF Branch
<1> QED BY <1>1, <1>2, <1>3, <1>4

(* What a chain comes to is one of its branches, nothing, or an error.     *)
LEMMA ChosenIsABody ==
  ASSUME NEW f \in FrameType
  PROVE  LET c == handle_if_chain(f)
         IN  c = <<-1>> \/ (c \in Seq(Nat) /\ (c = <<>> \/ c \in Bodies(f)))
<1> DEFINE tested == <<Contents(f)>> \o f.elifs
           held   == {i \in DOMAIN tested : test_if_condition(tested[i].cond) # "0"}
<1>1. Contents(f) \in Branch /\ f.elifs \in Seq(Branch) /\ f.else_branch \in Seq(Branch)
  BY FrameParts
<1>2. tested \in Seq(Branch) /\ Len(tested) = Len(f.elifs) + 1 /\ tested[1] = Contents(f)
      /\ \A i \in DOMAIN tested : i # 1 => i - 1 \in DOMAIN f.elifs /\ tested[i] = f.elifs[i - 1]
  BY <1>1
<1>3. \A i \in DOMAIN tested : tested[i].body \in Seq(Nat) /\ tested[i].body \in Bodies(f)
  <2>1. \A i \in DOMAIN tested : tested[i].body \in Seq(Nat)
    <3>1. \A i \in DOMAIN tested : tested[i] \in Branch
      BY <1>2
    <3> QED BY <3>1 DEF Branch
  <2>2. Contents(f).body = f.body
    BY DEF Contents
  <2> QED BY <1>2, <2>1, <2>2 DEF Bodies
<1>4. ASSUME f.else_branch # <<>>
      PROVE  f.else_branch[1].body \in Seq(Nat) /\ f.else_branch[1].body \in Bodies(f)
  <2>1. 1 \in DOMAIN f.else_branch /\ f.else_branch[1] \in Branch
    BY <1>1, <1>4
  <2> QED BY <2>1 DEF Bodies, Branch
<1>5. handle_if_chain(f) =
        IF held = {} THEN IF f.else_branch = <<>> THEN <<>> ELSE f.else_branch[1].body
        ELSE LET i == CHOOSE i \in held : \A j \in held : i <= j
             IN  IF test_if_condition(tested[i].cond) = "1" THEN tested[i].body ELSE <<-1>>
  BY DEF handle_if_chain
<1>6. held \subseteq Nat
  BY <1>2
<1>7. held \subseteq DOMAIN tested
  OBVIOUS
<1> HIDE DEF tested, held
<1>8. CASE held = {}
  BY <1>4, <1>5, <1>8
<1>9. CASE held # {}
  <2>1. \E i \in held : \A j \in held : i <= j
    BY <1>6, <1>9, NatMin
  <2>2. PICK i \in held : i = CHOOSE k \in held : \A j \in held : k <= j
    BY <2>1
  <2>3. handle_if_chain(f) = IF test_if_condition(tested[i].cond) = "1"
                             THEN tested[i].body ELSE <<-1>>
    BY <1>5, <1>9, <2>2
  <2> QED BY <1>3, <1>7, <2>2, <2>3
<1> QED BY <1>8, <1>9

----------------------------------------------------------------------------
(* How a step changes the stack of calls: the top one is replaced, one is  *)
(* added, one is added by the top one, or the top one ends and the one     *)
(* below it is replaced.                                                   *)

depth == Len(frames)

Replaces(g) ==
  /\ frames # <<>> /\ Top = frames[depth] /\ g \in FrameType
  /\ frames' \in Seq(FrameType) /\ Len(frames') = depth /\ frames'[depth] = g
  /\ \A i \in 1 .. depth - 1 : frames'[i] = frames[i]

Adds(g) ==
  /\ g \in FrameType
  /\ frames' \in Seq(FrameType) /\ Len(frames') = depth + 1 /\ frames'[depth + 1] = g
  /\ \A i \in 1 .. depth : frames'[i] = frames[i]

Pushes(f, g) ==
  /\ frames # <<>> /\ Top = frames[depth] /\ f \in FrameType /\ g \in FrameType
  /\ frames' \in Seq(FrameType) /\ Len(frames') = depth + 1 /\ frames'[depth] = f /\ frames'[depth + 1] = g
  /\ \A i \in 1 .. depth - 1 : frames'[i] = frames[i]

Drops(g) ==
  /\ depth >= 2 /\ Top = frames[depth] /\ Last(Front(frames)) = frames[depth - 1] /\ g \in FrameType
  /\ frames' \in Seq(FrameType) /\ Len(frames') = depth - 1 /\ frames'[depth - 1] = g
  /\ \A i \in 1 .. depth - 2 : frames'[i] = frames[i]

LEMMA TopFrame ==
  ASSUME TypeOK, frames # <<>>
  PROVE  /\ depth \in Nat /\ depth >= 1 /\ DOMAIN frames = 1 .. depth /\ depth \in DOMAIN frames
         /\ Top = frames[depth] /\ Top \in FrameType
         /\ \A i \in DOMAIN frames : frames[i] \in FrameType
<1>1. frames \in Seq(FrameType)
  BY DEF TypeOK
<1>2. depth \in Nat /\ depth >= 1 /\ DOMAIN frames = 1 .. depth /\ Last(frames) = frames[depth]
      /\ Last(frames) \in FrameType
  BY <1>1, FrontAndLast DEF depth
<1> QED BY <1>1, <1>2 DEF Top

LEMMA Replacing ==
  ASSUME TypeOK, frames # <<>>, NEW g \in FrameType, SetTop(g)
  PROVE  Replaces(g)
<1>1. frames \in Seq(FrameType)
  BY DEF TypeOK
<1> DEFINE r == Append(Front(frames), g)
<1>2. /\ r \in Seq(FrameType) /\ Len(r) = depth /\ r[depth] = g
      /\ \A i \in 1 .. depth - 1 : r[i] = frames[i]
  BY <1>1, LastReplaced DEF depth
<1>3. frames' = r
  BY DEF SetTop
<1> HIDE DEF r
<1> QED BY <1>2, <1>3, TopFrame DEF Replaces

LEMMA Adding ==
  ASSUME TypeOK, NEW g \in FrameType, frames' = Append(frames, g)
  PROVE  Adds(g)
<1>1. frames \in Seq(FrameType)
  BY DEF TypeOK
<1> QED BY <1>1, Appends DEF Adds, depth

LEMMA Pushing ==
  ASSUME TypeOK, frames # <<>>, source # <<>>, NEW flags \in Flags, NEW pc \in Places,
         Push(flags, pc)
  PROVE  Pushes([Top EXCEPT !.pc = pc], Frame(flags, Last(source)))
<1>1. frames \in Seq(FrameType) /\ source \in Seq(Lines)
  BY DEF TypeOK
<1>2. Last(source) \in Lines
  BY <1>1, FrontAndLast
<1> DEFINE f == [Top EXCEPT !.pc = pc]
           g == Frame(flags, Last(source))
<1>3. f \in FrameType /\ g \in FrameType
  BY <1>2, TopFrame, FrameParts, NewFrame
<1>4. frames' = Append(Append(Front(frames), f), g)
  BY DEF Push
<1> HIDE DEF f, g
<1>5. Pushes(f, g)
  <2> DEFINE r == Append(Append(Front(frames), f), g)
  <2>1. /\ r \in Seq(FrameType) /\ Len(r) = depth + 1
        /\ r[depth] = f /\ r[depth + 1] = g
        /\ \A i \in 1 .. depth - 1 : r[i] = frames[i]
    BY <1>1, <1>3, Pushed DEF depth
  <2> HIDE DEF r
  <2>2. frames' = r
    BY <1>4 DEF r
  <2> QED BY <1>3, <2>1, <2>2, TopFrame DEF Pushes
<1> QED BY <1>5 DEF f, g

LEMMA Dropping ==
  ASSUME TypeOK, frames # <<>>, Len(frames) # 1, NEW g \in FrameType,
         frames' = Append(Front(Front(frames)), g)
  PROVE  Drops(g)
<1>1. frames \in Seq(FrameType)
  BY DEF TypeOK
<1>2. depth >= 2 /\ Last(Front(frames)) = frames[depth - 1]
  BY <1>1, TwoReplaced DEF depth
<1>3. /\ frames' \in Seq(FrameType) /\ Len(frames') = depth - 1 /\ frames'[depth - 1] = g
      /\ \A i \in 1 .. depth - 2 : frames'[i] = frames[i]
  BY <1>1, TwoReplaced DEF depth
<1> QED BY <1>2, <1>3, TopFrame DEF Drops

(* A call that is not the first has one below it, at the place it was      *)
(* made.                                                                   *)
LEMMA CallerBelow ==
  ASSUME TypeOK, Stacked, frames # <<>>, Top.flags # "Nothing"
  PROVE  /\ depth >= 2 /\ Last(Front(frames)) = frames[depth - 1] /\ frames[depth - 1] \in FrameType
         /\ depth - 1 \in DOMAIN frames
         /\ frames[depth - 1].pc = IF Top.flags = "StopOnEndif" THEN "after_else" ELSE "after_elif"
<1>1. frames \in Seq(FrameType)
  BY DEF TypeOK
<1>2. depth # 1
  BY TopFrame DEF Stacked
<1>3. depth >= 2 /\ Last(Front(frames)) = frames[depth - 1]
  <2>1. depth >= 2
    BY <1>2, TopFrame
  <2>2. /\ Front(frames) \in Seq(FrameType) /\ Len(Front(frames)) = depth - 1
        /\ \A i \in 1 .. depth - 1 : Front(frames)[i] = frames[i]
    BY <1>1, FrontAndLast DEF depth
  <2> DEFINE s == Front(frames)
  <2>3. s[Len(s)] = frames[depth - 1]
    BY <2>1, <2>2, TopFrame
  <2> QED BY <2>1, <2>3 DEF Last
<1>4. depth - 1 \in DOMAIN frames /\ frames[depth - 1] \in FrameType
  BY <1>3, TopFrame
<1>5. frames[depth - 1].pc \in CalledAt(Top.flags)
  BY <1>2, TopFrame DEF Stacked
<1>6. Top.flags \in Flags
  BY TopFrame DEF FrameType
<1> QED BY <1>3, <1>4, <1>5, <1>6 DEF CalledAt, Flags

LEMMA Returning ==
  ASSUME TypeOK, Stacked, frames # <<>>, Top.flags # "Nothing", Return
  PROVE  Drops(IF Top.flags = "StopOnElifElseEndif"
               THEN [frames[depth - 1] EXCEPT !.elifs = Append(@, Contents(Top))]
               ELSE [frames[depth - 1] EXCEPT !.else_branch = <<Contents(Top)>>])
<1> DEFINE caller == frames[depth - 1]
           g == IF Top.flags = "StopOnElifElseEndif"
                THEN [caller EXCEPT !.elifs = Append(@, Contents(Top))]
                ELSE [caller EXCEPT !.else_branch = <<Contents(Top)>>]
<1>1. caller \in FrameType /\ Last(Front(frames)) = caller /\ Len(frames) # 1
  <2>1. Len(frames) # 1
    <3>1. depth >= 2
      BY CallerBelow
    <3>2. Len(frames) >= 2
      BY ONLY <3>1 DEF depth
    <3> QED BY ONLY <3>2
  <2> QED BY <2>1, CallerBelow
<1>2. Contents(Top) \in Branch
  BY TopFrame, FrameParts
<1>3. g \in FrameType
  BY <1>1, <1>2, FrameParts
<1>4. frames' = Append(Front(Front(frames)), g)
  BY <1>1 DEF Return
<1> HIDE DEF g
<1>5. Drops(g)
  BY <1>1, <1>3, <1>4, Dropping
<1> QED BY <1>5 DEF g

----------------------------------------------------------------------------
(* The order of the calls is kept by each of these changes.                *)

LEMMA StackedReplaced ==
  ASSUME TypeOK, Stacked, NEW g, Replaces(g), g.flags = Top.flags
  PROVE  Stacked'
<1>1. DOMAIN frames' = 1 .. depth /\ DOMAIN frames = 1 .. depth /\ depth \in Nat
  BY TopFrame DEF Replaces
<1> SUFFICES ASSUME NEW k \in 1 .. depth
             PROVE  IF k = 1 THEN frames'[k].flags = "Nothing"
                    ELSE frames'[k - 1].pc \in CalledAt(frames'[k].flags)
  BY <1>1 DEF Stacked
<1>2. frames'[k].flags = frames[k].flags
  BY <1>1 DEF Replaces
<1>3. k # 1 => frames'[k - 1] = frames[k - 1]
  BY <1>1 DEF Replaces
<1> QED BY <1>1, <1>2, <1>3 DEF Stacked

LEMMA StackedAdded ==
  ASSUME TypeOK, Stacked, NEW g, Adds(g), g.flags = "Nothing",
         frames # <<>> => Top.pc \in {"body", "nested"}
  PROVE  Stacked'
<1>1. DOMAIN frames' = 1 .. depth + 1 /\ DOMAIN frames = 1 .. depth /\ depth \in Nat
  BY DEF Adds, TypeOK, depth
<1> SUFFICES ASSUME NEW k \in 1 .. depth + 1
             PROVE  IF k = 1 THEN frames'[k].flags = "Nothing"
                    ELSE frames'[k - 1].pc \in CalledAt(frames'[k].flags)
  BY <1>1 DEF Stacked
<1>2. CASE k = depth + 1
  <2>1. frames'[k] = g
    BY <1>2 DEF Adds
  <2>2. ASSUME k # 1
        PROVE  frames'[k - 1].pc \in {"body", "nested"}
    <3>1. k - 1 = depth /\ depth \in 1 .. depth /\ depth # 0
      BY <1>1, <1>2, <2>2
    <3>2. frames # <<>>
      BY <3>1 DEF depth
    <3> QED BY <3>1, <3>2, TopFrame DEF Adds
  <2> QED BY <2>1, <2>2 DEF CalledAt
<1>3. CASE k # depth + 1
  <2>1. frames'[k] = frames[k] /\ (k # 1 => frames'[k - 1] = frames[k - 1])
    BY <1>1, <1>3 DEF Adds
  <2> QED BY <1>1, <1>3, <2>1 DEF Stacked
<1> QED BY <1>2, <1>3

LEMMA StackedPushed ==
  ASSUME TypeOK, Stacked, NEW f, NEW g, Pushes(f, g), f.flags = Top.flags,
         f.pc \in CalledAt(g.flags)
  PROVE  Stacked'
<1>1. DOMAIN frames' = 1 .. depth + 1 /\ DOMAIN frames = 1 .. depth /\ depth \in Nat /\ depth >= 1
  BY TopFrame DEF Pushes
<1> SUFFICES ASSUME NEW k \in 1 .. depth + 1
             PROVE  IF k = 1 THEN frames'[k].flags = "Nothing"
                    ELSE frames'[k - 1].pc \in CalledAt(frames'[k].flags)
  BY <1>1 DEF Stacked
<1>2. CASE k = depth + 1
  BY <1>1, <1>2 DEF Pushes
<1>3. CASE k # depth + 1
  <2>1. frames'[k].flags = frames[k].flags
    BY <1>1, <1>3 DEF Pushes
  <2>2. k # 1 => frames'[k - 1] = frames[k - 1]
    BY <1>1, <1>3 DEF Pushes
  <2> QED BY <1>1, <1>3, <2>1, <2>2 DEF Stacked
<1> QED BY <1>2, <1>3

LEMMA StackedDropped ==
  ASSUME TypeOK, Stacked, NEW g, Drops(g), g.flags = frames[depth - 1].flags
  PROVE  Stacked'
<1>1. /\ DOMAIN frames' = 1 .. depth - 1 /\ DOMAIN frames = 1 .. depth
      /\ depth \in Nat /\ depth >= 2
  BY DEF Drops, TypeOK, depth
<1> SUFFICES ASSUME NEW k \in 1 .. depth - 1
             PROVE  IF k = 1 THEN frames'[k].flags = "Nothing"
                    ELSE frames'[k - 1].pc \in CalledAt(frames'[k].flags)
  BY <1>1 DEF Stacked
<1>2. frames'[k].flags = frames[k].flags
  BY <1>1 DEF Drops
<1>3. k # 1 => frames'[k - 1] = frames[k - 1]
  BY <1>1 DEF Drops
<1> QED BY <1>1, <1>2, <1>3 DEF Stacked

(* Where the top call is afterwards.                                       *)
LEMMA TopAfter ==
  ASSUME TypeOK
  PROVE  /\ \A g : Replaces(g) => frames' # <<>> /\ Top' = g
         /\ \A g : Adds(g) => frames' # <<>> /\ Top' = g
         /\ \A f, g : Pushes(f, g) => frames' # <<>> /\ Top' = g
         /\ \A g : Drops(g) => frames' # <<>> /\ Top' = g
<1>1. depth \in Nat
  BY DEF depth, TypeOK
<1>2. Top' = frames'[Len(frames')]
  BY DEF Top, Last
<1>3. ASSUME NEW g, Replaces(g)
      PROVE  frames' # <<>> /\ Top' = g
  BY <1>2, <1>3, TopFrame DEF Replaces
<1>4. ASSUME NEW g, Adds(g)
      PROVE  frames' # <<>> /\ Top' = g
  BY <1>1, <1>2, <1>4 DEF Adds
<1>5. ASSUME NEW f, NEW g, Pushes(f, g)
      PROVE  frames' # <<>> /\ Top' = g
  BY <1>1, <1>2, <1>5 DEF Pushes
<1>6. ASSUME NEW g, Drops(g)
      PROVE  frames' # <<>> /\ Top' = g
  BY <1>1, <1>2, <1>6 DEF Drops
<1> QED BY <1>3, <1>4, <1>5, <1>6

(* A line is read.                                                         *)
LEMMA Reading ==
  ASSUME TypeOK, NEW l, Reads(l)
  PROVE  /\ ~at_word /\ phase = "running" /\ l \in Lines
         /\ Len(source) \in Nat /\ DOMAIN source = 1 .. Len(source)
         /\ source' \in Seq(Lines) /\ source' # <<>> /\ Len(source') = Len(source) + 1
         /\ source'[Len(source) + 1] = l /\ Last(source') = l
         /\ \A i \in 1 .. Len(source) : source'[i] = source[i]
BY Appends DEF Reads, TypeOK

----------------------------------------------------------------------------
(* What each step does to the types, to the order of the calls and to the  *)
(* places they are at.                                                     *)

Shape == TypeOK /\ Stacked /\ Position

LEMMA NoFrames ==
  ASSUME TypeOK
  PROVE  /\ frames = <<>> <=> depth = 0
         /\ depth \in Nat /\ Len(source) \in Nat
         /\ DOMAIN frames = 1 .. depth /\ DOMAIN source = 1 .. Len(source)
BY DEF TypeOK, depth

LEMMA ShapeAtTop ==
  ASSUME Shape, Text \/ DirectiveAsText \/ Define \/ Error
  PROVE  Shape'
<1>1. PICK l : AtTop(l)
  BY DEF Text, DirectiveAsText, Define, Error
<1>2. /\ Reads(l) /\ frames = <<>> /\ frames' = frames /\ at_word' = at_word
  BY <1>1 DEF AtTop
<1>3. source' \in Seq(Lines) /\ Len(source) + 1 \in Nat
  BY <1>2, Reading DEF Shape
<1>4. /\ tokens' = tokens \/ tokens' = Append(tokens, Len(source) + 1)
      /\ phase' \in {"running", "error"}
      /\ on_new_line' = TRUE /\ oddities' \subseteq Oddity
  <2>1. phase = "running" /\ oddities \subseteq Oddity
    BY <1>2 DEF Reads, Shape, TypeOK
  <2>2. CASE Text
    BY <2>1, <2>2 DEF Text, LineNo
  <2>3. CASE DirectiveAsText
    BY <2>1, <2>3 DEF DirectiveAsText, LineNo, Notes, Oddity
  <2>4. CASE Define
    BY <2>1, <2>4 DEF Define, Handled
  <2>5. CASE Error
    BY <2>1, <2>5 DEF Error, Handled
  <2> QED BY <2>2, <2>3, <2>4, <2>5
<1>5. tokens' \in Seq(Nat)
  <2>1. tokens \in Seq(Nat)
    BY DEF Shape, TypeOK
  <2>2. Append(tokens, Len(source) + 1) \in Seq(Nat)
    BY <1>3, <2>1, AppendProperties
  <2> QED BY <1>4, <2>1, <2>2
<1>6. TypeOK'
  BY <1>2, <1>3, <1>4, <1>5 DEF Shape, TypeOK
<1>7. Stacked'
  BY <1>2 DEF Shape, Stacked
<1>8. Position'
  BY <1>2, <1>4 DEF Shape, Position, Reads
<1> QED BY <1>6, <1>7, <1>8 DEF Shape

LEMMA ShapeEnd ==
  ASSUME Shape, EndOfFile
  PROVE  Shape'
BY DEF Shape, TypeOK, Stacked, Position, EndOfFile

LEMMA ShapeIf ==
  ASSUME Shape, If \/ BodyIf
  PROVE  Shape' /\ \E l \in Lines : Reads(l) /\ Adds(Frame("Nothing", l))
<1>1. PICK l \in Lines : /\ Reads(l) /\ frames' = Append(frames, Frame("Nothing", l))
                         /\ frames # <<>> => Top.pc \in {"body", "nested"}
  <2>1. CASE If
    <3>1. PICK l \in Lines : frames = <<>> /\ Reads(l) /\ frames' = <<Frame("Nothing", l)>>
      BY <2>1 DEF If
    <3>2. frames' = Append(frames, Frame("Nothing", l))
      BY <3>1
    <3> QED BY <3>1, <3>2
  <2>2. CASE BodyIf
    BY <2>2 DEF BodyIf, InBody
  <2> QED BY <2>1, <2>2
<1> DEFINE g == Frame("Nothing", l)
<1>2. g \in FrameType /\ g.flags = "Nothing" /\ g.pc = "body"
  BY NewFrame DEF Frame, Flags
<1> HIDE DEF g
<1>3. Adds(g)
  <2>1. frames' = Append(frames, g)
    BY <1>1 DEF g
  <2> QED BY <1>2, <2>1, Adding DEF Shape
<1>4. Stacked'
  BY <1>1, <1>2, <1>3, StackedAdded DEF Shape
<1>5. frames' # <<>> /\ Top' = g
  BY <1>3, TopAfter DEF Shape
<1>6. /\ at_word' = at_word /\ tokens' = tokens /\ phase' = phase
      /\ on_new_line' \in BOOLEAN /\ oddities' = oddities
  <2>1. CASE If
    BY <2>1 DEF If, Handled
  <2>2. CASE BodyIf
    BY <2>2 DEF BodyIf, InBody, Shape, TypeOK
  <2> QED BY <1>1, <2>1, <2>2
<1>7. TypeOK'
  BY <1>1, <1>3, <1>6, Reading DEF Shape, TypeOK, Adds
<1>8. Position'
  BY <1>1, <1>2, <1>5, <1>6 DEF Position, Reads
<1> QED BY <1>1, <1>3, <1>4, <1>7, <1>8 DEF Shape, g

LEMMA ShapeBody ==
  ASSUME Shape, BodyText \/ BodyEnds
  PROVE  /\ Shape'
         /\ \E l \in Lines : \E b \in Seq(Nat) :
              /\ Reads(l) /\ frames # <<>>
              /\ b = Top.body \/ (b = Append(Top.body, Len(source) + 1) /\ ~at_word')
              /\ Replaces([Top EXCEPT !.body = b, !.pc = IF at_word' THEN "found" ELSE "body"])
<1>1. PICK l \in Lines : /\ InBody(l)
                         /\ \/ BodyText /\ l.dir \notin Ifs \cup Chain /\ ~ElseTextTaken(l)
                               /\ Notes("directive_in_branch", l.dir \in Directives)
                               /\ SetTop([Top EXCEPT !.pc = "body",
                                   !.body = IF l.dir = "blank" THEN @ ELSE Append(@, LineNo + 1)])
                               /\ UNCHANGED at_word
                            \/ /\ l.dir \in Chain \/ ElseTextTaken(l)
                               /\ oddities' \subseteq oddities \cup Oddity
                               /\ Goto("found")
                               /\ at_word' = TRUE
  BY DEF BodyText, BodyEnds, Oddity
<1>2. /\ Reads(l) /\ frames # <<>> /\ phase = "running" /\ phase' = "running"
      /\ on_new_line' = on_new_line /\ tokens' = tokens
      /\ Top.pc \in {"body", "nested"}
  BY <1>1 DEF InBody
<1>3. ~at_word /\ Len(source) \in Nat /\ source' \in Seq(Lines) /\ source' # <<>>
      /\ Last(source') = l
  BY <1>2, Reading DEF Shape
<1>4. Top \in FrameType /\ Top.body \in Seq(Nat) /\ Append(Top.body, Len(source) + 1) \in Seq(Nat)
  <2>1. Top \in FrameType
    BY <1>2, TopFrame DEF Shape
  <2>2. Top.body \in Seq(Nat)
    BY <2>1 DEF FrameType
  <2> QED BY <1>3, <2>1, <2>2, AppendProperties
<1> DEFINE b == IF at_word' \/ l.dir = "blank" THEN Top.body
                ELSE Append(Top.body, Len(source) + 1)
           g == [Top EXCEPT !.body = b, !.pc = IF at_word' THEN "found" ELSE "body"]
<1>5. b \in Seq(Nat)
  BY <1>4
<1>6. at_word' \in BOOLEAN /\ SetTop(g)
  <2>1. CASE ~at_word'
    <3>1. g = [Top EXCEPT !.pc = "body",
                 !.body = IF l.dir = "blank" THEN @ ELSE Append(@, LineNo + 1)]
      BY <1>4, <2>1 DEF FrameType, LineNo
    <3> HIDE DEF g
    <3>2. SetTop([Top EXCEPT !.pc = "body",
                   !.body = IF l.dir = "blank" THEN @ ELSE Append(@, LineNo + 1)])
          /\ at_word' = at_word
      BY <1>1, <2>1
    <3>3. SetTop(g)
      BY <3>1, <3>2, Zenon
    <3> QED BY <3>2, <3>3 DEF Shape, TypeOK
  <2>2. CASE at_word'
    <3>1. g = [Top EXCEPT !.pc = "found"]
      BY <1>4, <2>2 DEF FrameType
    <3> QED BY <1>1, <1>3, <2>2, <3>1 DEF Goto
  <2> QED BY <2>1, <2>2
<1>7. g \in FrameType /\ g.flags = Top.flags
      /\ g.pc = IF at_word' THEN "found" ELSE "body"
  BY <1>4, <1>5 DEF FrameType, Places
<1> HIDE DEF g
<1>8. Replaces(g)
  BY <1>2, <1>6, <1>7, Replacing DEF Shape
<1>9. Stacked'
  BY <1>7, <1>8, StackedReplaced DEF Shape
<1>10. frames' # <<>> /\ Top' = g
  BY <1>8, TopAfter DEF Shape
<1>11. TypeOK'
  <2>1. oddities' \subseteq Oddity
    BY <1>1 DEF Shape, TypeOK, Notes, Oddity
  <2> QED BY <1>2, <1>3, <1>6, <1>8, <2>1 DEF Shape, TypeOK, Replaces
<1>12. Position'
  <2>1. at_word' => Word' \in Chain
    <3>1. at_word' => l.dir \in Chain \/ l.dir = "else_text"
      BY <1>1, <1>3 DEF ElseTextTaken
    <3> QED BY <1>3, <3>1 DEF Word, Chain
  <2> QED BY <1>2, <1>3, <1>7, <1>10, <2>1 DEF Position
<1>13. b = Top.body \/ (b = Append(Top.body, Len(source) + 1) /\ ~at_word')
  OBVIOUS
<1> HIDE DEF b
<1> QED BY <1>2, <1>5, <1>8, <1>9, <1>11, <1>12, <1>13 DEF Shape, g

LEMMA ShapeBodyWord ==
  ASSUME Shape, BodyWord
  PROVE  /\ Shape' /\ frames # <<>> /\ source # <<>> /\ Word = "elif" /\ Top.pc = "body"
         /\ Replaces([Top EXCEPT !.body = Append(Top.body, Len(source))])
<1> DEFINE b == Append(Top.body, Len(source))
           g == [Top EXCEPT !.body = b]
<1>1. /\ frames # <<>> /\ phase = "running" /\ at_word /\ Top.pc = "body"
      /\ SetTop(g) /\ at_word' = FALSE
      /\ UNCHANGED <<source, on_new_line, tokens, macro_definitions, phase, oddities>>
  BY DEF BodyWord, InFrame, LineNo
<1>2. Top \in FrameType /\ Len(source) \in Nat
  BY <1>1, TopFrame, NoFrames DEF Shape
<1>3. b \in Seq(Nat)
  <2>1. Top.body \in Seq(Nat)
    BY <1>2 DEF FrameType
  <2> QED BY <1>2, <2>1, AppendProperties
<1>4. g \in FrameType /\ g.flags = Top.flags /\ g.pc = "body"
  BY <1>1, <1>2, <1>3 DEF FrameType
<1> HIDE DEF g
<1>5. Replaces(g)
  BY <1>1, <1>4, Replacing DEF Shape
<1>6. Stacked' /\ frames' # <<>> /\ Top' = g
  BY <1>4, <1>5, StackedReplaced, TopAfter DEF Shape
<1>7. TypeOK'
  BY <1>1, <1>5 DEF Shape, TypeOK, Replaces
<1>8. Position'
  BY <1>1, <1>4, <1>6 DEF Position
<1>9. source # <<>> /\ Word = "elif"
  BY <1>1 DEF Shape, Position
<1> QED BY <1>1, <1>5, <1>6, <1>7, <1>8, <1>9 DEF Shape, g

(* The three steps of the outer loop: each returns, or calls again, or     *)
(* goes on to another place.                                               *)
Loops == Found \/ AfterElif \/ AfterElse

LEMMA LoopSteps ==
  ASSUME Shape, Loops
  PROVE  /\ frames # <<>> /\ source # <<>> /\ phase = "running" /\ at_word /\ Word \in Chain
         /\ UNCHANGED <<source, on_new_line, tokens, macro_definitions, phase, oddities>>
         /\ Top \in FrameType
         /\ \/ /\ Top.flags # "Nothing" /\ Return /\ at_word' = TRUE
               /\ Top.flags = "StopOnEndif" => Word # "else"
               /\ \/ Top.flags = "StopOnElifElseEndif"
                  \/ EndsHere
                  \/ Top.pc = "after_else"
            \/ \E flags \in Flags, pc \in Places :
                 /\ Push(flags, pc) /\ at_word' = FALSE
                 /\ \/ flags = "StopOnElifElseEndif" /\ pc = "after_elif" /\ Word = "elif"
                       /\ Top.pc = "found"
                    \/ flags = "StopOnEndif" /\ pc = "after_else" /\ Word = "else"
                       /\ Top.pc = "after_elif"
            \/ \E pc \in Places :
                 /\ Goto(pc) /\ at_word' = TRUE
                 /\ \/ pc = "after_elif" /\ Top.pc = "found" /\ Word # "elif" /\ ~EndsHere
                       /\ Top.flags # "StopOnElifElseEndif"
                    \/ pc = "after_else" /\ Top.pc = "after_elif" /\ Word # "else" /\ ~EndsHere
                    \/ /\ pc = "body" /\ Top.pc = "after_else" /\ Word = "elif"
                       /\ Top.flags = "Nothing"
<1>1. /\ frames # <<>> /\ phase = "running" /\ at_word
      /\ Top.pc \in {"found", "after_elif", "after_else"}
      /\ UNCHANGED <<source, on_new_line, tokens, macro_definitions, phase, oddities>>
  BY DEF Loops, Found, AfterElif, AfterElse, InFrame, Step
<1>2. source # <<>> /\ Word \in Chain /\ (Top.pc = "after_else" => Word # "else")
  BY <1>1 DEF Shape, Position
<1>3. Top \in FrameType /\ Top.flags \in Flags
  <2>1. Top \in FrameType
    BY <1>1, TopFrame DEF Shape
  <2> QED BY <2>1 DEF FrameType
<1>4. CASE Found
  <2>1. Top.pc = "found" /\ (EndsHere => Top.flags = "StopOnEndif" /\ Word = "endif")
    BY <1>4 DEF Found, InFrame, EndsHere
  <2> QED BY <1>1, <1>2, <1>3, <1>4, <2>1 DEF Found, Flags, Places, Chain
<1>5. CASE AfterElif
  <2>1. Top.pc = "after_elif" /\ (EndsHere => Top.flags = "StopOnEndif" /\ Word = "endif")
    BY <1>5 DEF AfterElif, InFrame, EndsHere
  <2> QED BY <1>1, <1>2, <1>3, <1>5, <2>1 DEF AfterElif, Flags, Places, Chain
<1>6. CASE AfterElse
  <2>1. Top.pc = "after_else" /\ at_word' = at_word
    BY <1>6 DEF AfterElse, InFrame
  <2> QED BY <1>1, <1>2, <1>3, <1>6, <2>1 DEF AfterElse, Flags, Places, Chain
<1> QED BY <1>4, <1>5, <1>6 DEF Loops

(* The frame below, when the top call has returned to it.                  *)
Returned ==
  IF Top.flags = "StopOnElifElseEndif"
  THEN [frames[depth - 1] EXCEPT !.elifs = Append(@, Contents(Top))]
  ELSE [frames[depth - 1] EXCEPT !.else_branch = <<Contents(Top)>>]

Returns ==
  /\ Top.flags # "Nothing" /\ at_word' = TRUE
  /\ Drops(Returned) /\ Returned.pc # "body"
  /\ \/ Top.flags = "StopOnElifElseEndif"
     \/ EndsHere
     \/ Top.pc = "after_else"

Calls(flags, pc) ==
  /\ Pushes([Top EXCEPT !.pc = pc], Frame(flags, Last(source))) /\ at_word' = FALSE
  /\ \/ /\ flags = "StopOnElifElseEndif" /\ pc = "after_elif" /\ Word = "elif"
        /\ Top.pc = "found"
     \/ flags = "StopOnEndif" /\ pc = "after_else" /\ Word = "else" /\ Top.pc = "after_elif"

Goes(pc) ==
  /\ Replaces([Top EXCEPT !.pc = pc]) /\ at_word' = TRUE
  /\ \/ /\ pc = "after_elif" /\ Top.pc = "found" /\ Word # "elif" /\ ~EndsHere
        /\ Top.flags # "StopOnElifElseEndif"
     \/ pc = "after_else" /\ Top.pc = "after_elif" /\ Word # "else" /\ ~EndsHere
     \/ pc = "body" /\ Top.pc = "after_else" /\ Word = "elif" /\ Top.flags = "Nothing"

LEMMA ShapeLoops ==
  ASSUME Shape, Loops
  PROVE  /\ Shape'
         /\ Returns \/ \E flags \in Flags, pc \in Places : Calls(flags, pc) \/ Goes(pc)
<1>1. /\ frames # <<>> /\ source # <<>> /\ phase = "running" /\ at_word /\ Word \in Chain
      /\ UNCHANGED <<source, on_new_line, tokens, macro_definitions, phase, oddities>>
      /\ Top \in FrameType /\ Top.flags \in Flags
  <2>1. Top \in FrameType
    BY LoopSteps
  <2> QED BY <2>1, LoopSteps DEF FrameType
<1>2. Word' = Word
  BY <1>1 DEF Word
<1>3. TypeOK' <=> at_word' \in BOOLEAN /\ frames' \in Seq(FrameType)
  BY <1>1 DEF Shape, TypeOK
<1>4. ASSUME Top.flags # "Nothing", Return, at_word' = TRUE,
             Top.flags = "StopOnEndif" => Word # "else",
             Top.flags = "StopOnElifElseEndif" \/ EndsHere \/ Top.pc = "after_else"
      PROVE  Shape' /\ Returns
  <2>1. Drops(Returned)
    BY <1>1, <1>4, Returning DEF Shape, Returned
  <2>2. /\ frames[depth - 1] \in FrameType
        /\ frames[depth - 1].pc = IF Top.flags = "StopOnEndif" THEN "after_else" ELSE "after_elif"
    BY <1>1, <1>4, CallerBelow DEF Shape
  <2>3. Returned.flags = frames[depth - 1].flags /\ Returned.pc = frames[depth - 1].pc
    BY <2>2 DEF Returned, FrameType
  <2>4. Stacked' /\ Top' = Returned /\ frames' # <<>>
    BY <2>1, <2>3, StackedDropped, TopAfter DEF Shape
  <2>5. TypeOK'
    BY <1>3, <1>4, <2>1 DEF Drops
  <2>6. Position'
    BY <1>1, <1>2, <1>4, <2>2, <2>3, <2>4 DEF Position
  <2> QED BY <1>4, <2>1, <2>2, <2>3, <2>4, <2>5, <2>6 DEF Shape, Returns
<1>5. ASSUME NEW flags \in Flags, NEW pc \in Places, Push(flags, pc), at_word' = FALSE,
             \/ flags = "StopOnElifElseEndif" /\ pc = "after_elif" /\ Word = "elif"
                /\ Top.pc = "found"
             \/ flags = "StopOnEndif" /\ pc = "after_else" /\ Word = "else"
                /\ Top.pc = "after_elif"
      PROVE  Shape' /\ Calls(flags, pc)
  <2> DEFINE f == [Top EXCEPT !.pc = pc]
             g == Frame(flags, Last(source))
  <2>1. Pushes(f, g)
    BY <1>1, <1>5, Pushing DEF Shape
  <2>2. f.flags = Top.flags /\ f.pc = pc
    BY <1>1 DEF FrameType
  <2>3. g.flags = flags /\ g.pc = "body"
    BY DEF Frame
  <2>4. pc \in CalledAt(flags)
    BY <1>5 DEF CalledAt
  <2>5. Calls(flags, pc)
    BY <1>5, <2>1 DEF Calls
  <2> HIDE DEF f, g
  <2>6. Stacked' /\ Top' = g /\ frames' # <<>>
    BY <2>1, <2>2, <2>3, <2>4, StackedPushed, TopAfter DEF Shape
  <2>7. TypeOK'
    BY <1>3, <1>5, <2>1 DEF Pushes
  <2>8. Position'
    BY <1>1, <1>5, <2>3, <2>6 DEF Position
  <2> QED BY <2>5, <2>6, <2>7, <2>8 DEF Shape
<1>6. ASSUME NEW pc \in Places, Goto(pc), at_word' = TRUE,
             \/ pc = "after_elif" /\ Top.pc = "found" /\ Word # "elif" /\ ~EndsHere
                /\ Top.flags # "StopOnElifElseEndif"
             \/ pc = "after_else" /\ Top.pc = "after_elif" /\ Word # "else" /\ ~EndsHere
             \/ /\ pc = "body" /\ Top.pc = "after_else" /\ Word = "elif"
                /\ Top.flags = "Nothing"
      PROVE  Shape' /\ Goes(pc)
  <2> DEFINE f == [Top EXCEPT !.pc = pc]
  <2>1. f \in FrameType /\ f.flags = Top.flags /\ f.pc = pc
    BY <1>1, FrameParts DEF FrameType
  <2>2. SetTop(f)
    BY <1>6 DEF Goto
  <2> HIDE DEF f
  <2>3. Replaces(f)
    BY <1>1, <2>1, <2>2, Replacing DEF Shape
  <2>4. Stacked' /\ Top' = f /\ frames' # <<>>
    BY <2>1, <2>3, StackedReplaced, TopAfter DEF Shape
  <2>5. TypeOK'
    BY <1>3, <1>6, <2>3 DEF Replaces
  <2>6. Position'
    BY <1>1, <1>2, <1>6, <2>1, <2>4 DEF Position
  <2>7. Goes(pc)
    BY <1>6, <2>3 DEF Goes, f
  <2> QED BY <2>4, <2>5, <2>6, <2>7 DEF Shape
<1>7. \E pc \in Places : TRUE
  BY DEF Places
<1> QED BY <1>1, <1>4, <1>5, <1>6, <1>7, LoopSteps

(* The end of a chain.                                                     *)
Around == frames[depth - 1]

Ended(c) == [Around EXCEPT !.body = @ \o c, !.pc = "nested"]

Ends(c) ==
  /\ c = handle_if_chain(Top) /\ c \in Seq(Nat) /\ (c = <<>> \/ c \in Bodies(Top))
  /\ \/ /\ depth = 1 /\ frames' = <<>>
        /\ tokens' = tokens \o c
     \/ /\ depth >= 2 /\ Around \in FrameType /\ Around.pc \in {"body", "nested"}
        /\ Drops(Ended(c)) /\ tokens' = tokens

LEMMA ShapeEndChain ==
  ASSUME Shape, EndChain
  PROVE  /\ Shape' /\ source' = source /\ macro_definitions' = macro_definitions
         /\ oddities' = oddities
         /\ phase = "running" /\ at_word /\ at_word' = FALSE
         /\ frames # <<>> /\ source # <<>> /\ Top \in FrameType
         /\ Top.flags = "Nothing" /\ Word = "endif" /\ Top.pc = "after_else"
         /\ \/ phase' = "error" /\ frames' = frames /\ tokens' = tokens
            \/ phase' = "running" /\ \E c : Ends(c)
<1>1. /\ frames # <<>> /\ phase = "running" /\ at_word /\ Top.pc = "after_else"
      /\ Top.flags = "Nothing" /\ Word = "endif"
      /\ at_word' = FALSE /\ on_new_line' = FALSE
      /\ UNCHANGED <<source, macro_definitions, oddities>>
  BY DEF EndChain, InFrame
<1>2. source # <<>> /\ Last(source).dir = "endif" /\ Top \in FrameType /\ depth \in Nat
      /\ depth >= 1
  <2>1. source # <<>>
    BY <1>1 DEF Shape, Position
  <2>2. Last(source).dir = "endif"
    BY <1>1 DEF Word
  <2> QED BY <1>1, <2>1, <2>2, TopFrame DEF Shape
<1> DEFINE c == handle_if_chain(Top)
<1>3. /\ c = <<-1>> => phase' = "error" /\ frames' = frames /\ tokens' = tokens
      /\ c # <<-1>> /\ depth = 1 =>
           tokens' = tokens \o c /\ frames' = <<>> /\ phase' = phase
      /\ c # <<-1>> /\ depth # 1 =>
           /\ frames' = Append(Front(Front(frames)),
                          [Last(Front(frames)) EXCEPT !.body = @ \o c, !.pc = "nested"])
           /\ tokens' = tokens /\ phase' = phase
  BY DEF EndChain, depth
<1>4. c = <<-1>> \/ (c \in Seq(Nat) /\ (c = <<>> \/ c \in Bodies(Top)))
  BY <1>2, ChosenIsABody
<1> HIDE DEF c
<1>5. tokens \in Seq(Nat)
  BY DEF Shape, TypeOK
<1>6. CASE c = <<-1>>
  <2>1. TypeOK' /\ Stacked' /\ Position'
    BY <1>1, <1>3, <1>6 DEF Shape, TypeOK, Stacked, Position
  <2> QED BY <1>1, <1>2, <1>3, <1>6, <2>1 DEF Shape
<1>7. CASE c # <<-1>> /\ depth = 1
  <2>1. frames' = <<>> /\ tokens' = tokens \o c /\ phase' = "running"
        /\ c \in Seq(Nat) /\ (c = <<>> \/ c \in Bodies(Top))
    BY <1>1, <1>3, <1>4, <1>7
  <2>2. tokens \o c \in Seq(Nat)
    BY <1>5, <2>1, ConcatProperties
  <2>3. TypeOK'
    <3>1. frames' \in Seq(FrameType)
      BY <2>1
    <3> QED BY <1>1, <2>1, <2>2, <3>1 DEF Shape, TypeOK
  <2>4. Stacked'
    BY <2>1 DEF Stacked
  <2>5. Position'
    BY <1>1, <1>2, <2>1 DEF Position
  <2>6. Ends(c)
    BY <1>7, <2>1 DEF Ends, c
  <2> QED BY <1>1, <1>2, <2>1, <2>3, <2>4, <2>5, <2>6 DEF Shape
<1>8. CASE c # <<-1>> /\ depth # 1
  <2>1. depth >= 2 /\ depth - 1 \in DOMAIN frames /\ Last(Front(frames)) = Around
        /\ Around \in FrameType /\ Len(frames) # 1
    <3>1. frames \in Seq(FrameType) /\ Len(frames) # 1
      BY <1>8 DEF Shape, TypeOK, depth
    <3>2. Last(Front(frames)) = frames[depth - 1]
      BY <1>1, <3>1, <1>2, TwoReplaced DEF depth
    <3> QED BY <1>1, <1>2, <1>8, <3>1, <3>2, TopFrame DEF Around, Shape
  <2>2. Around.pc \in {"body", "nested"}
    <3>1. Around.pc \in CalledAt(Top.flags)
      BY <1>1, <1>8, TopFrame DEF Shape, Stacked, Around
    <3> QED BY <1>1, <3>1 DEF CalledAt
  <2> DEFINE g == Ended(c)
  <2>3. g \in FrameType /\ g.flags = Around.flags /\ g.pc = "nested"
    <3>1. Around.body \o c \in Seq(Nat)
      <4>1. Around.body \in Seq(Nat) /\ c \in Seq(Nat)
        BY <1>4, <1>8, <2>1 DEF FrameType
      <4> QED BY <4>1, ConcatProperties
    <3> QED BY <2>1, <3>1 DEF Ended, FrameType, Places
  <2>4. frames' = Append(Front(Front(frames)), g) /\ tokens' = tokens /\ phase' = "running"
    BY <1>1, <1>3, <1>8, <2>1 DEF Ended
  <2> HIDE DEF g
  <2>5. Drops(g)
    BY <1>1, <2>1, <2>3, <2>4, Dropping DEF Shape
  <2>6. Stacked' /\ Top' = g /\ frames' # <<>>
    BY <2>3, <2>5, StackedDropped, TopAfter DEF Shape, Around
  <2>7. TypeOK'
    BY <1>1, <2>4, <2>5 DEF Shape, TypeOK, Drops
  <2>8. Position'
    BY <1>1, <2>3, <2>4, <2>6 DEF Position
  <2>9. Ends(c)
    BY <1>4, <1>8, <2>1, <2>2, <2>4, <2>5 DEF Ends, c, g
  <2> QED BY <1>1, <1>2, <2>4, <2>6, <2>7, <2>8, <2>9 DEF Shape
<1> QED BY <1>2, <1>6, <1>7, <1>8

LEMMA ShapeNext ==
  ASSUME Shape, [Next]_vars
  PROVE  Shape'
<1>1. CASE UNCHANGED vars
  BY <1>1 DEF Shape, TypeOK, Stacked, Position, vars, Word, Top
<1> QED BY <1>1, ShapeAtTop, ShapeEnd, ShapeIf, ShapeBody, ShapeBodyWord, ShapeLoops,
           ShapeEndChain DEF Next, Loops, Stopped

LEMMA ShapeInit == Init => Shape
<1>1. <<>> \in Seq(Lines) /\ <<>> \in Seq(FrameType) /\ <<>> \in Seq(Nat)
  OBVIOUS
<1>2. Init => TypeOK
  BY <1>1 DEF Init, TypeOK
<1>3. Init => Stacked
  BY DEF Init, Stacked
<1>4. Init => Position
  BY DEF Init, Position
<1> QED BY <1>2, <1>3, <1>4 DEF Shape

----------------------------------------------------------------------------
(* Where the bodies of the frames come from.                               *)

New(p) ==
  /\ p \in Nat /\ 1 <= p /\ Processed < p /\ p <= Processed'
  /\ frames = <<>> \/ BodyText \/ BodyWord

Made(k, b) ==
  \/ b = <<>>
  \/ \E m \in DOMAIN frames : m >= k /\ b \in Bodies(frames[m])
  \/ k \in DOMAIN frames /\ \E p : New(p) /\ b = Append(frames[k].body, p)
  \/ k \in DOMAIN frames /\ \E m \in DOMAIN frames : m > k /\
       \E c \in Bodies(frames[m]) : b = frames[k].body \o c

Collects ==
  \A k \in DOMAIN frames' :
    /\ k < Len(frames') => k \in DOMAIN frames /\ frames'[k].body = frames[k].body
    /\ \A b \in Bodies(frames'[k]) : Made(k, b)

LEMMA BodyTypes ==
  ASSUME NEW f \in FrameType
  PROVE  /\ f.body \in Bodies(f) /\ \A b \in Bodies(f) : b \in Seq(Nat)
         /\ \A pc : Bodies([f EXCEPT !.pc = pc]) = Bodies(f)
         /\ \A b \in Seq(Nat), pc \in Places :
              \A d \in Bodies([f EXCEPT !.body = b, !.pc = pc]) : d = b \/ d \in Bodies(f)
         /\ \A b \in Seq(Nat) :
              \A d \in Bodies([f EXCEPT !.body = b]) : d = b \/ d \in Bodies(f)
<1>1. f.body \in Seq(Nat) /\ f.elifs \in Seq(Branch) /\ f.else_branch \in Seq(Branch)
  BY FrameParts
<1>2. \A b \in Bodies(f) : b \in Seq(Nat)
  <2>1. /\ \A i \in DOMAIN f.elifs : f.elifs[i] \in Branch
        /\ \A i \in DOMAIN f.else_branch : f.else_branch[i] \in Branch
    BY <1>1
  <2>2. \A c \in Branch : c.body \in Seq(Nat)
    BY DEF Branch
  <2> QED BY <1>1, <2>1, <2>2 DEF Bodies
<1>3. \A pc : LET g == [f EXCEPT !.pc = pc]
              IN  g.body = f.body /\ g.elifs = f.elifs /\ g.else_branch = f.else_branch
  BY DEF FrameType
<1>4. \A b, pc : LET g == [f EXCEPT !.body = b, !.pc = pc]
              IN  g.body = b /\ g.elifs = f.elifs /\ g.else_branch = f.else_branch
  BY DEF FrameType
<1>5. \A b : LET g == [f EXCEPT !.body = b]
              IN  g.body = b /\ g.elifs = f.elifs /\ g.else_branch = f.else_branch
  BY DEF FrameType
<1>6. \A pc : Bodies([f EXCEPT !.pc = pc]) = Bodies(f)
  BY <1>3 DEF Bodies
<1>7. ASSUME NEW b, NEW pc, NEW d \in Bodies([f EXCEPT !.body = b, !.pc = pc])
      PROVE  d = b \/ d \in Bodies(f)
  BY <1>4 DEF Bodies
<1>8. ASSUME NEW b, NEW d \in Bodies([f EXCEPT !.body = b])
      PROVE  d = b \/ d \in Bodies(f)
  BY <1>5 DEF Bodies
<1> QED BY <1>2, <1>6, <1>7, <1>8 DEF Bodies

LEMMA NewFrameBodies ==
  ASSUME NEW flags, NEW l
  PROVE  \A b \in Bodies(Frame(flags, l)) : b = <<>>
BY DEF Bodies, Frame

LEMMA SameFrames ==
  ASSUME TypeOK, frames' = frames
  PROVE  Collects
<1>1. ASSUME NEW k \in DOMAIN frames, NEW b \in Bodies(frames[k])
      PROVE  Made(k, b)
  BY <1>1, NoFrames DEF Made
<1> QED BY <1>1 DEF Collects

LEMMA CollectsReplaced ==
  ASSUME TypeOK, NEW g, Replaces(g),
         \A b \in Bodies(g) : \/ b \in Bodies(Top)
                              \/ \E p : New(p) /\ b = Append(Top.body, p)
  PROVE  Collects
<1>1. /\ DOMAIN frames' = 1 .. depth /\ DOMAIN frames = 1 .. depth /\ depth \in Nat
      /\ Len(frames') = depth /\ Top = frames[depth] /\ depth >= 1
  BY TopFrame DEF Replaces
<1>2. ASSUME NEW k \in 1 .. depth, k # depth
      PROVE  frames'[k] = frames[k]
  BY <1>1, <1>2 DEF Replaces
<1>3. ASSUME NEW k \in 1 .. depth, NEW b \in Bodies(frames'[k])
      PROVE  Made(k, b)
  <2>1. CASE k # depth
    BY <1>1, <1>2, <1>3, <2>1 DEF Made
  <2>2. CASE k = depth
    <3>1. b \in Bodies(g)
      BY <1>3, <2>2 DEF Replaces
    <3> QED BY <1>1, <2>2, <3>1 DEF Made
  <2> QED BY <2>1, <2>2
<1> QED BY <1>1, <1>2, <1>3 DEF Collects

LEMMA CollectsAdded ==
  ASSUME TypeOK, NEW g, Adds(g), \A b \in Bodies(g) : b = <<>>
  PROVE  Collects
<1>1. /\ DOMAIN frames' = 1 .. depth + 1 /\ DOMAIN frames = 1 .. depth /\ depth \in Nat
      /\ Len(frames') = depth + 1
  BY NoFrames DEF Adds
<1>2. ASSUME NEW k \in 1 .. depth + 1, k # depth + 1
      PROVE  k \in DOMAIN frames /\ frames'[k] = frames[k]
  BY <1>1, <1>2 DEF Adds
<1>3. ASSUME NEW k \in 1 .. depth + 1, NEW b \in Bodies(frames'[k])
      PROVE  Made(k, b)
  <2>1. CASE k # depth + 1
    BY <1>1, <1>2, <1>3, <2>1 DEF Made
  <2>2. CASE k = depth + 1
    BY <1>1, <1>3, <2>2 DEF Made, Adds
  <2> QED BY <2>1, <2>2
<1> QED BY <1>1, <1>2, <1>3 DEF Collects

LEMMA CollectsPushed ==
  ASSUME TypeOK, NEW f, NEW g, Pushes(f, g), f.body = Top.body, Bodies(f) = Bodies(Top),
         \A b \in Bodies(g) : b = <<>>
  PROVE  Collects
<1>1. /\ DOMAIN frames' = 1 .. depth + 1 /\ DOMAIN frames = 1 .. depth /\ depth \in Nat
      /\ Len(frames') = depth + 1
  BY NoFrames DEF Pushes
<1>2. ASSUME NEW k \in 1 .. depth + 1, k # depth + 1
      PROVE  k \in DOMAIN frames /\ frames'[k].body = frames[k].body
             /\ Bodies(frames'[k]) = Bodies(frames[k])
  <2>1. CASE k = depth
    BY <1>1, <2>1 DEF Pushes
  <2>2. CASE k # depth
    <3>1. frames'[k] = frames[k]
      BY <1>1, <1>2, <2>2 DEF Pushes
    <3> QED BY <1>1, <1>2, <3>1
  <2> QED BY <2>1, <2>2
<1>3. ASSUME NEW k \in 1 .. depth + 1, NEW b \in Bodies(frames'[k])
      PROVE  Made(k, b)
  <2>1. CASE k # depth + 1
    BY <1>1, <1>2, <1>3, <2>1 DEF Made
  <2>2. CASE k = depth + 1
    BY <1>1, <1>3, <2>2 DEF Made, Pushes
  <2> QED BY <2>1, <2>2
<1> QED BY <1>1, <1>2, <1>3 DEF Collects

LEMMA CollectsDropped ==
  ASSUME TypeOK, NEW g, Drops(g),
         \A b \in Bodies(g) : \/ b \in Bodies(Around) \cup Bodies(Top) \cup {<<>>}
                              \/ \E c \in Bodies(Top) : b = Around.body \o c
  PROVE  Collects
<1>1. /\ DOMAIN frames' = 1 .. depth - 1 /\ DOMAIN frames = 1 .. depth /\ depth \in Nat
      /\ Len(frames') = depth - 1 /\ Top = frames[depth] /\ depth >= 2
      /\ Around = frames[depth - 1]
  BY NoFrames DEF Drops, Around
<1>2. ASSUME NEW k \in 1 .. depth - 1, k # depth - 1
      PROVE  frames'[k] = frames[k]
  BY <1>1, <1>2 DEF Drops
<1>3. ASSUME NEW k \in 1 .. depth - 1, NEW b \in Bodies(frames'[k])
      PROVE  Made(k, b)
  <2>1. CASE k # depth - 1
    BY <1>1, <1>2, <1>3, <2>1 DEF Made
  <2>2. CASE k = depth - 1
    <3>1. b \in Bodies(g)
      BY <1>3, <2>2 DEF Drops
    <3>2. depth \in DOMAIN frames /\ k \in DOMAIN frames /\ depth > k
      BY <1>1, <2>2
    <3> QED BY <1>1, <2>2, <3>1, <3>2 DEF Made
  <2> QED BY <2>1, <2>2
<1> QED BY <1>1, <1>2, <1>3 DEF Collects

----------------------------------------------------------------------------
(* The order of what is collected.                                         *)

LEMMA RisingAppend ==
  ASSUME NEW s \in Seq(Nat), Rising(s), NEW p \in Nat, \A i \in DOMAIN s : s[i] < p
  PROVE  /\ Rising(Append(s, p))
         /\ \A i \in DOMAIN Append(s, p) :
              Append(s, p)[i] = p \/ \E j \in DOMAIN s : Append(s, p)[i] = s[j]
<1> DEFINE r == Append(s, p)
<1>1. /\ Len(s) \in Nat /\ DOMAIN s = 1 .. Len(s) /\ DOMAIN r = 1 .. Len(s) + 1
      /\ r[Len(s) + 1] = p /\ \A i \in 1 .. Len(s) : r[i] = s[i]
  BY AppendProperties
<1> HIDE DEF r
<1>2. ASSUME NEW i \in DOMAIN r, i # Len(s) + 1
      PROVE  i \in DOMAIN s /\ r[i] = s[i]
  BY <1>1, <1>2
<1>3. \A i \in DOMAIN r : r[i] = p \/ \E j \in DOMAIN s : r[i] = s[j]
  BY <1>1, <1>2
<1>4. ASSUME NEW i \in DOMAIN r, NEW j \in DOMAIN r, i < j
      PROVE  r[i] < r[j]
  <2>1. i \in DOMAIN s /\ r[i] = s[i]
    BY <1>1, <1>2, <1>4
  <2>2. CASE j = Len(s) + 1
    BY <1>1, <2>1, <2>2
  <2>3. CASE j # Len(s) + 1
    BY <1>2, <1>4, <2>1, <2>3 DEF Rising
  <2> QED BY <2>2, <2>3
<1> QED BY <1>3, <1>4 DEF Rising, r

LEMMA ElementOfConcat ==
  ASSUME NEW s \in Seq(Nat), NEW t \in Seq(Nat), NEW i \in DOMAIN (s \o t)
  PROVE  \/ \E j \in DOMAIN s : (s \o t)[i] = s[j]
         \/ \E j \in DOMAIN t : (s \o t)[i] = t[j]
<1> DEFINE r == s \o t
<1>1. /\ Len(s) \in Nat /\ Len(t) \in Nat /\ DOMAIN s = 1 .. Len(s) /\ DOMAIN t = 1 .. Len(t)
      /\ DOMAIN r = 1 .. Len(s) + Len(t)
      /\ \A k \in 1 .. Len(s) + Len(t) : r[k] = IF k <= Len(s) THEN s[k] ELSE t[k - Len(s)]
  BY ConcatProperties
<1>2. i \in DOMAIN r
  OBVIOUS
<1> HIDE DEF r
<1>3. IF i <= Len(s) THEN i \in DOMAIN s /\ r[i] = s[i]
      ELSE i - Len(s) \in DOMAIN t /\ r[i] = t[i - Len(s)]
  BY <1>1, <1>2
<1> QED BY <1>3 DEF r

LEMMA RisingConcat ==
  ASSUME NEW s \in Seq(Nat), Rising(s), NEW t \in Seq(Nat), Rising(t), Before(s, t)
  PROVE  /\ Rising(s \o t)
         /\ \A i \in DOMAIN (s \o t) : \/ \E j \in DOMAIN s : (s \o t)[i] = s[j]
                                       \/ \E j \in DOMAIN t : (s \o t)[i] = t[j]
<1> DEFINE r == s \o t
<1>1. /\ Len(s) \in Nat /\ Len(t) \in Nat /\ DOMAIN s = 1 .. Len(s) /\ DOMAIN t = 1 .. Len(t)
      /\ DOMAIN r = 1 .. Len(s) + Len(t)
      /\ \A i \in 1 .. Len(s) + Len(t) : r[i] = IF i <= Len(s) THEN s[i] ELSE t[i - Len(s)]
  BY ConcatProperties
<1> HIDE DEF r
<1>2. ASSUME NEW i \in DOMAIN r
      PROVE  IF i <= Len(s) THEN i \in DOMAIN s /\ r[i] = s[i]
             ELSE i - Len(s) \in DOMAIN t /\ r[i] = t[i - Len(s)]
  BY <1>1
<1>3. \A i \in DOMAIN r : \/ \E j \in DOMAIN s : r[i] = s[j]
                          \/ \E j \in DOMAIN t : r[i] = t[j]
  BY <1>2
<1>4. ASSUME NEW i \in DOMAIN r, NEW j \in DOMAIN r, i < j
      PROVE  r[i] < r[j]
  <2>1. CASE j <= Len(s)
    <3>1. i <= Len(s)
      BY <1>1, <1>4, <2>1
    <3> QED BY <1>2, <1>4, <2>1, <3>1 DEF Rising
  <2>2. CASE i <= Len(s) /\ ~(j <= Len(s))
    BY <1>2, <2>2 DEF Before
  <2>3. CASE ~(i <= Len(s)) /\ ~(j <= Len(s))
    <3>1. i - Len(s) < j - Len(s)
      BY <1>1, <1>4
    <3> QED BY <1>2, <2>3, <3>1 DEF Rising
  <2> QED BY <2>1, <2>2, <2>3
<1> QED BY <1>3, <1>4 DEF Rising, r

LEMMA ProcessedGrows ==
  ASSUME TypeOK
  PROVE  /\ Processed \in Int /\ Processed <= Len(source)
         /\ Len(source) <= Processed + 1 /\ (~at_word => Processed = Len(source))
         /\ Position /\ phase = "running" => Processed \in Nat
<1>1. Len(source) \in Nat /\ (source # <<>> => Len(source) >= 1) /\ at_word \in BOOLEAN
  BY DEF TypeOK
<1> QED BY <1>1 DEF Processed, Position

(* Whatever is made of ordered bodies is in order.                         *)
InPlace(k, b) ==
  /\ b \in Seq(Nat) /\ Rising(b) /\ Before(tokens, b)
  /\ \A i \in DOMAIN b : 1 <= b[i] /\ b[i] <= Processed'
  /\ \A i \in DOMAIN frames : i < k => Before(frames[i].body, b)

LEMMA FrameOrder ==
  ASSUME TypeOK, Ordered, NEW k \in DOMAIN frames, NEW b \in Bodies(frames[k])
  PROVE  /\ b \in Seq(Nat) /\ Rising(b) /\ ReadIn(b) /\ Before(tokens, b)
         /\ \A i \in DOMAIN frames : i < k => Before(frames[i].body, b)
<1>1. frames[k] \in FrameType
  BY DEF TypeOK
<1>2. b \in Seq(Nat)
  BY <1>1, BodyTypes
<1> QED BY <1>2 DEF Ordered

LEMMA MadeInOrder ==
  ASSUME TypeOK, Ordered, Processed <= Processed', Processed' \in Int, NEW k \in Nat, NEW b,
         Made(k, b)
  PROVE  InPlace(k, b)
<1>1. Processed \in Int /\ DOMAIN frames \subseteq Nat /\ tokens \in Seq(Nat)
  BY ProcessedGrows, NoFrames DEF TypeOK
<1>2. ASSUME NEW m \in DOMAIN frames, m >= k, NEW c \in Bodies(frames[m])
      PROVE  InPlace(k, c)
  <2>1. \A i \in DOMAIN c : c[i] \in Nat
    BY <1>2, FrameOrder
  <2>2. \A i \in DOMAIN frames : i < k => i < m
    BY <1>1, <1>2
  <2> QED BY <1>1, <1>2, <2>1, <2>2, FrameOrder DEF InPlace, ReadIn
<1>3. CASE b = <<>>
  <2>1. b \in Seq(Nat) /\ DOMAIN b = {}
    BY <1>3
  <2> QED BY <2>1 DEF InPlace, Rising, Before
<1>4. CASE \E m \in DOMAIN frames : m >= k /\ b \in Bodies(frames[m])
  BY <1>2, <1>4
<1>5. ASSUME k \in DOMAIN frames
      PROVE  LET s == frames[k].body
             IN  s \in Bodies(frames[k]) /\ InPlace(k, s) /\ \A i \in DOMAIN s : s[i] <= Processed
  <2>1. frames[k].body \in Bodies(frames[k])
    BY DEF Bodies
  <2> QED BY <1>2, <1>5, <2>1, FrameOrder DEF ReadIn
<1>6. ASSUME k \in DOMAIN frames, NEW p, New(p), b = Append(frames[k].body, p)
      PROVE  InPlace(k, b)
  <2> DEFINE s == frames[k].body
  <2>1. s \in Seq(Nat) /\ Rising(s) /\ p \in Nat /\ \A i \in DOMAIN s : s[i] \in Nat /\ s[i] < p
    <3>1. s \in Seq(Nat) /\ Rising(s) /\ \A i \in DOMAIN s : s[i] <= Processed
      BY <1>5, <1>6 DEF InPlace
    <3>2. p \in Nat /\ Processed < p
      BY <1>6 DEF New
    <3>3. \A i \in DOMAIN s : s[i] \in Nat
      BY <3>1
    <3> QED BY <1>1, <3>1, <3>2, <3>3
  <2>2. Rising(b) /\ b \in Seq(Nat)
        /\ \A i \in DOMAIN b : b[i] = p \/ \E j \in DOMAIN s : b[i] = s[j]
    BY <1>6, <2>1, RisingAppend, AppendProperties
  <2>3. p <= Processed' /\ 1 <= p
    BY <1>6 DEF New
  <2>4. \A i \in DOMAIN tokens : tokens[i] \in Nat /\ tokens[i] < p
    BY <1>1, <1>6 DEF New, Ordered, ReadIn
  <2>5. \A i \in DOMAIN frames : i < k =>
          \A j \in DOMAIN frames[i].body : frames[i].body[j] < p
    <3> SUFFICES ASSUME NEW i \in DOMAIN frames, i < k, NEW j \in DOMAIN frames[i].body
                 PROVE  frames[i].body[j] < p
      OBVIOUS
    <3>1. frames[i].body \in Bodies(frames[i])
      BY DEF Bodies
    <3>2. frames[i].body[j] <= Processed /\ frames[i].body[j] \in Nat
      BY <3>1, FrameOrder DEF ReadIn
    <3> QED BY <1>1, <1>6, <3>2 DEF New
  <2> HIDE DEF s
  <2>6. Before(tokens, s) /\ \A i \in DOMAIN frames : i < k => Before(frames[i].body, s)
    BY <1>5, <1>6 DEF InPlace, s
  <2>7. \A i \in DOMAIN s : 1 <= s[i] /\ s[i] <= Processed'
    BY <1>5, <1>6 DEF InPlace, s
  <2> QED BY <2>2, <2>3, <2>4, <2>5, <2>6, <2>7 DEF InPlace, Before
<1>7. ASSUME k \in DOMAIN frames, NEW m \in DOMAIN frames, m > k,
             NEW c \in Bodies(frames[m]), b = frames[k].body \o c
      PROVE  InPlace(k, b)
  <2> DEFINE s == frames[k].body
  <2>1. InPlace(k, s) /\ InPlace(k, c)
    BY <1>1, <1>2, <1>5, <1>7
  <2>2. Before(s, c)
    BY <1>7, FrameOrder
  <2> HIDE DEF s
  <2>3. s \in Seq(Nat) /\ Rising(s) /\ c \in Seq(Nat) /\ Rising(c) /\ b = s \o c
    BY <1>7, <2>1 DEF InPlace, s
  <2>4. b \in Seq(Nat) /\ Rising(b)
        /\ \A i \in DOMAIN b : \/ \E j \in DOMAIN s : b[i] = s[j]
                               \/ \E j \in DOMAIN c : b[i] = c[j]
    BY <2>2, <2>3, RisingConcat, ConcatProperties
  <2> QED BY <2>1, <2>4 DEF InPlace, Before
<1> QED BY <1>3, <1>4, <1>6, <1>7 DEF Made

LEMMA OrderedKept ==
  ASSUME TypeOK, Ordered, TypeOK', Collects, Processed <= Processed', Processed' \in Int,
         tokens' = tokens
  PROVE  Ordered'
<1>1. Processed \in Int /\ tokens \in Seq(Nat) /\ DOMAIN frames' \subseteq Nat
      /\ DOMAIN frames' = 1 .. Len(frames') /\ Len(frames') \in Nat
  BY ProcessedGrows DEF TypeOK
<1>2. Rising(tokens') /\ ReadIn(tokens)'
  BY <1>1 DEF Ordered, ReadIn
<1>3. ASSUME NEW k \in DOMAIN frames', NEW b \in Bodies(frames'[k])
      PROVE  /\ Rising(b) /\ Before(tokens', b)
             /\ \A i \in DOMAIN b : 1 <= b[i] /\ b[i] <= Processed'
             /\ \A i \in DOMAIN frames' : i < k => Before(frames'[i].body, b)
  <2>1. InPlace(k, b)
    BY <1>1, <1>3, MadeInOrder DEF Collects
  <2>2. ASSUME NEW i \in DOMAIN frames', i < k
        PROVE  Before(frames'[i].body, b)
    <3>1. i < Len(frames')
      BY <1>1, <2>2
    <3>2. i \in DOMAIN frames /\ frames'[i].body = frames[i].body
      BY <3>1 DEF Collects
    <3> QED BY <2>1, <2>2, <3>2 DEF InPlace
  <2> QED BY <2>1, <2>2 DEF InPlace
<1> QED BY <1>2, <1>3 DEF Ordered, ReadIn

(* At the top level only the program's tokens change.                      *)
LEMMA OrderedAtTop ==
  ASSUME TypeOK, Ordered, TypeOK', frames' = <<>>, Processed <= Processed', Processed' \in Int,
         \/ \E p : New(p) /\ tokens' = Append(tokens, p)
         \/ frames # <<>> /\ \E c \in Bodies(frames[1]) \cup {<<>>} : tokens' = tokens \o c
  PROVE  Ordered'
<1>1. Processed \in Int /\ tokens \in Seq(Nat) /\ Rising(tokens) /\ ReadIn(tokens)
  BY ProcessedGrows DEF TypeOK, Ordered
<1>2. Rising(tokens') /\ \A i \in DOMAIN tokens' : 1 <= tokens'[i] /\ tokens'[i] <= Processed'
  <2>1. \A i \in DOMAIN tokens : tokens[i] \in Nat /\ 1 <= tokens[i] /\ tokens[i] <= Processed
    BY <1>1 DEF ReadIn
  <2>2. ASSUME NEW p, New(p), tokens' = Append(tokens, p)
        PROVE  Rising(tokens') /\ \A i \in DOMAIN tokens' : 1 <= tokens'[i] /\ tokens'[i] <= Processed'
    <3>1. p \in Nat /\ \A i \in DOMAIN tokens : tokens[i] < p
      BY <1>1, <2>1, <2>2 DEF New
    <3>2. /\ Rising(Append(tokens, p))
          /\ \A i \in DOMAIN Append(tokens, p) :
               Append(tokens, p)[i] = p \/ \E j \in DOMAIN tokens : Append(tokens, p)[i] = tokens[j]
      BY <1>1, <3>1, RisingAppend
    <3> DEFINE r == Append(tokens, p)
    <3>3. tokens' = r
      BY <2>2
    <3> HIDE DEF r
    <3>4. ASSUME NEW i \in DOMAIN r
          PROVE  1 <= r[i] /\ r[i] <= Processed'
      BY <1>1, <2>1, <2>2, <3>1, <3>2 DEF New, r
    <3> QED BY <3>2, <3>3, <3>4 DEF r
  <2>3. ASSUME frames # <<>>, NEW c \in Bodies(frames[1]) \cup {<<>>}, tokens' = tokens \o c
        PROVE  Rising(tokens') /\ \A i \in DOMAIN tokens' : 1 <= tokens'[i] /\ tokens'[i] <= Processed'
    <3>1. c \in Seq(Nat) /\ Rising(c) /\ ReadIn(c) /\ Before(tokens, c)
      <4>1. CASE c \in Bodies(frames[1])
        <5>1. 1 \in DOMAIN frames
          BY <2>3, TopFrame
        <5> QED BY <4>1, <5>1, FrameOrder
      <4>2. CASE c = <<>>
        <5>1. c \in Seq(Nat) /\ DOMAIN c = {}
          BY <4>2
        <5> QED BY <5>1 DEF Rising, ReadIn, Before
      <4> QED BY <2>3, <4>1, <4>2
    <3> DEFINE r == tokens \o c
    <3>2. /\ Rising(r)
          /\ \A i \in DOMAIN r : \/ \E j \in DOMAIN tokens : r[i] = tokens[j]
                                 \/ \E j \in DOMAIN c : r[i] = c[j]
      BY <1>1, <3>1, RisingConcat
    <3>3. tokens' = r
      BY <2>3
    <3>4. \A j \in DOMAIN c : c[j] \in Nat /\ 1 <= c[j] /\ c[j] <= Processed
      BY <3>1 DEF ReadIn
    <3> HIDE DEF r
    <3>5. ASSUME NEW i \in DOMAIN r
          PROVE  1 <= r[i] /\ r[i] <= Processed'
      BY <1>1, <2>1, <3>2, <3>4
    <3> QED BY <3>2, <3>3, <3>5
  <2> QED BY <2>2, <2>3
<1> QED BY <1>2 DEF Ordered, ReadIn

(* Each step collects what it should.                                      *)
LEMMA ProcessedAfter ==
  ASSUME Shape, Shape', [Next]_vars
  PROVE  Processed \in Int /\ Processed' \in Int /\ Processed <= Processed'
<1>1. Processed \in Int /\ Processed' \in Int
  BY ProcessedGrows DEF Shape, TypeOK, Processed
<1>2. CASE UNCHANGED vars
  BY <1>1, <1>2 DEF vars, Processed
<1>3. ASSUME NEW l, Reads(l)
      PROVE  Processed <= Processed'
  BY <1>3, Reading DEF Shape, Processed
<1>4. ASSUME source' = source, at_word' \in {at_word, FALSE}
      PROVE  Processed <= Processed'
  <2>1. Len(source) \in Nat
    BY NoFrames DEF Shape
  <2>2. CASE at_word' = at_word
    BY <1>4, <2>1, <2>2 DEF Processed
  <2>3. CASE at_word' = FALSE
    BY <1>4, <2>1, <2>3 DEF Processed
  <2> QED BY <1>4, <2>2, <2>3
<1>5. ASSUME Loops
      PROVE  source' = source /\ at_word' \in {at_word, FALSE}
  <2>1. source' = source /\ at_word
    BY <1>5, LoopSteps
  <2>2. at_word' \in {TRUE, FALSE} /\ at_word \in {TRUE, FALSE}
    BY DEF Shape, TypeOK
  <2> QED BY <2>1, <2>2
<1>6. CASE Text \/ DirectiveAsText \/ Define \/ Error \/ If \/ BodyText \/ BodyIf \/ BodyEnds
  <2>1. PICK l : Reads(l)
    <3>1. CASE Text \/ DirectiveAsText \/ Define \/ Error \/ If
      BY <3>1 DEF Text, DirectiveAsText, Define, Error, If, AtTop
    <3>2. CASE BodyText \/ BodyIf \/ BodyEnds
      BY <3>2 DEF BodyText, BodyIf, BodyEnds, InBody
    <3> QED BY <1>6, <3>1, <3>2
  <2> QED BY <1>1, <1>3, <2>1
<1>7. CASE EndOfFile \/ BodyWord \/ EndChain \/ Loops \/ Stopped
  <2>1. source' = source /\ at_word' \in {at_word, FALSE}
    <3>1. CASE EndOfFile \/ Stopped
      BY <3>1 DEF EndOfFile, Stopped, vars
    <3>2. CASE BodyWord \/ EndChain
      BY <3>2 DEF BodyWord, EndChain
    <3> QED BY <1>5, <1>7, <3>1, <3>2
  <2> QED BY <1>1, <1>4, <2>1
<1> QED BY <1>2, <1>6, <1>7 DEF Next, Loops

LEMMA StepCollects ==
  ASSUME Shape, Shape', [Next]_vars
  PROVE  \/ Collects /\ tokens' = tokens
         \/ frames = <<>> /\ frames' = <<>> /\ tokens' = Append(tokens, Len(source) + 1)
            /\ New(Len(source) + 1) /\ (Text \/ DirectiveAsText)
         \/ frames # <<>> /\ frames' = <<>>
            /\ \E c \in Bodies(frames[1]) \cup {<<>>} : tokens' = tokens \o c
<1> USE DEF Shape
<1>1. CASE frames' = frames /\ tokens' = tokens
  BY <1>1, SameFrames
<1>2. CASE Text \/ DirectiveAsText
  <2>1. PICK l : Reads(l) /\ frames = <<>> /\ frames' = frames /\ at_word' = at_word
                 /\ (tokens' = tokens \/ tokens' = Append(tokens, Len(source) + 1))
    BY <1>2 DEF Text, DirectiveAsText, AtTop, LineNo
  <2>2. New(Len(source) + 1)
    BY <2>1, Reading DEF New, Processed
  <2> QED BY <1>1, <1>2, <2>1, <2>2
<1>3. CASE Define \/ Error \/ EndOfFile \/ Stopped \/ UNCHANGED vars
  BY <1>1, <1>3 DEF Define, Error, EndOfFile, AtTop, Stopped, vars
<1>4. CASE If \/ BodyIf
  <2>1. PICK l \in Lines : Adds(Frame("Nothing", l))
    BY <1>4, ShapeIf
  <2>2. tokens' = tokens
    BY <1>4 DEF If, BodyIf, InBody
  <2> QED BY <2>1, <2>2, CollectsAdded, NewFrameBodies
<1>5. CASE BodyText \/ BodyEnds
  <2>1. PICK l \in Lines, b \in Seq(Nat) :
          /\ Reads(l) /\ frames # <<>>
          /\ b = Top.body \/ (b = Append(Top.body, Len(source) + 1) /\ ~at_word')
          /\ Replaces([Top EXCEPT !.body = b, !.pc = IF at_word' THEN "found" ELSE "body"])
    BY <1>5, ShapeBody
  <2>2. tokens' = tokens /\ at_word' \in BOOLEAN
    BY <1>5 DEF BodyText, BodyEnds, InBody, TypeOK
  <2>3. ~at_word' => New(Len(source) + 1)
    <3>1. ~at_word' => BodyText
      BY <1>5 DEF BodyEnds
    <3>2. Len(source) \in Nat /\ Processed = Len(source)
      BY <2>1, Reading DEF Processed
    <3>3. ~at_word' => Processed' = Len(source) + 1
      BY <2>1, Reading DEF Processed
    <3> QED BY <3>1, <3>2, <3>3 DEF New
  <2>4. Top \in FrameType
    BY <2>1, TopFrame
  <2> DEFINE g == [Top EXCEPT !.body = b, !.pc = IF at_word' THEN "found" ELSE "body"]
  <2>5. \A d \in Bodies(g) : d = b \/ d \in Bodies(Top)
    BY <2>4, BodyTypes DEF Places
  <2>6. Top.body \in Bodies(Top)
    BY <2>4, BodyTypes
  <2> HIDE DEF g
  <2>7. \A d \in Bodies(g) : d \in Bodies(Top) \/ \E p : New(p) /\ d = Append(Top.body, p)
    BY <2>1, <2>3, <2>5, <2>6
  <2>8. Replaces(g)
    BY <2>1 DEF g
  <2> QED BY <2>2, <2>7, <2>8, CollectsReplaced
<1>6. CASE BodyWord
  <2> DEFINE g == [Top EXCEPT !.body = Append(Top.body, Len(source))]
  <2>1. Replaces(g) /\ frames # <<>> /\ source # <<>>
    BY <1>6, ShapeBodyWord
  <2>2. tokens' = tokens /\ source' = source /\ at_word /\ ~at_word'
    BY <1>6 DEF BodyWord
  <2>3. New(Len(source))
    BY <1>6, <2>1, <2>2, NoFrames DEF New, Processed, TypeOK
  <2>4. Top \in FrameType /\ Append(Top.body, Len(source)) \in Seq(Nat)
    <3>1. Top \in FrameType
      BY <2>1, TopFrame
    <3>2. Top.body \in Seq(Nat) /\ Len(source) \in Nat
      BY <3>1, NoFrames DEF FrameType
    <3> QED BY <3>1, <3>2, AppendProperties
  <2>5. \A d \in Bodies(g) : d = Append(Top.body, Len(source)) \/ d \in Bodies(Top)
    BY <2>4, BodyTypes
  <2> HIDE DEF g
  <2> QED BY <2>1, <2>2, <2>3, <2>5, CollectsReplaced
<1>7. CASE Loops
  <2>1. tokens' = tokens /\ Top \in FrameType
    BY <1>7, LoopSteps
  <2>2. CASE Returns
    <3>1. Drops(Returned) /\ Around \in FrameType
      BY <1>7, <2>2, LoopSteps, CallerBelow DEF Returns, Around
    <3>2. \A b \in Bodies(Returned) : b \in Bodies(Around) \cup Bodies(Top)
      <4>1. Top.body \in Bodies(Top) /\ Contents(Top).body = Top.body
        BY DEF Bodies, Contents
      <4>2. Around.elifs \in Seq(Branch) /\ Contents(Top) \in Branch
        BY <2>1, <3>1, FrameParts
      <4>3. CASE Top.flags = "StopOnElifElseEndif"
        <5> DEFINE es == Append(Around.elifs, Contents(Top))
        <5>1. /\ Returned.body = Around.body /\ Returned.else_branch = Around.else_branch
              /\ Returned.elifs = es
          BY <3>1, <4>3 DEF Returned, Around, FrameType
        <5>2. ASSUME NEW i \in DOMAIN es
              PROVE  es[i].body \in Bodies(Around) \cup Bodies(Top)
          <6>1. CASE i \in DOMAIN Around.elifs
            <7>1. es[i] = Around.elifs[i]
              BY <4>2, <6>1, AppendProperties
            <7> QED BY <6>1, <7>1 DEF Bodies
          <6>2. CASE i \notin DOMAIN Around.elifs
            <7>1. es[i] = Contents(Top)
              BY <4>2, <5>2, <6>2, AppendProperties
            <7> QED BY <4>1, <7>1
          <6> QED BY <6>1, <6>2
        <5> HIDE DEF es
        <5> QED BY <5>1, <5>2 DEF Bodies
      <4>4. CASE Top.flags # "StopOnElifElseEndif"
        <5>1. /\ Returned.body = Around.body /\ Returned.elifs = Around.elifs
              /\ Returned.else_branch = <<Contents(Top)>>
          BY <3>1, <4>4 DEF Returned, Around, FrameType
        <5> QED BY <4>1, <5>1 DEF Bodies
      <4> QED BY <4>3, <4>4
    <3> QED BY <2>1, <3>1, <3>2, CollectsDropped
  <2>3. ASSUME NEW flags \in Flags, NEW pc \in Places, Calls(flags, pc)
        PROVE  Collects
    <3> DEFINE f == [Top EXCEPT !.pc = pc]
               g == Frame(flags, Last(source))
    <3>1. f.body = Top.body /\ Bodies(f) = Bodies(Top) /\ Pushes(f, g)
      BY <2>1, <2>3, BodyTypes DEF FrameType, Calls
    <3>2. \A b \in Bodies(g) : b = <<>>
      BY NewFrameBodies
    <3> HIDE DEF f, g
    <3> QED BY <3>1, <3>2, CollectsPushed
  <2>4. ASSUME NEW pc \in Places, Goes(pc)
        PROVE  Collects
    <3> DEFINE f == [Top EXCEPT !.pc = pc]
    <3>1. Bodies(f) = Bodies(Top) /\ Replaces(f)
      BY <2>1, <2>4, BodyTypes DEF Goes
    <3> HIDE DEF f
    <3> QED BY <3>1, CollectsReplaced
  <2> QED BY <1>7, <2>1, <2>2, <2>3, <2>4, ShapeLoops
<1>8. CASE EndChain
  <2>1. CASE frames' = frames /\ tokens' = tokens
    BY <1>1, <2>1
  <2>2. ASSUME NEW c, Ends(c)
        PROVE  \/ Collects /\ tokens' = tokens
               \/ frames # <<>> /\ frames' = <<>>
                  /\ \E d \in Bodies(frames[1]) \cup {<<>>} : tokens' = tokens \o d
    <3>1. frames # <<>> /\ Top = frames[depth] /\ Top \in FrameType
      BY <1>8, ShapeEndChain, TopFrame
    <3>2. CASE depth = 1 /\ frames' = <<>> /\ tokens' = tokens \o c
      BY <2>2, <3>1, <3>2 DEF Ends
    <3>3. CASE Around \in FrameType /\ Drops(Ended(c)) /\ tokens' = tokens
      <4>1. c \in Seq(Nat) /\ (c = <<>> \/ c \in Bodies(Top))
        BY <2>2 DEF Ends
      <4>2. Around.body \in Seq(Nat) /\ Around.body \in Bodies(Around)
        BY <3>3, FrameParts, BodyTypes
      <4>3. Around.body \o c \in Seq(Nat) /\ (c = <<>> => Around.body \o c = Around.body)
        BY <4>1, <4>2, ConcatProperties, ConcatEmptySeq
      <4>4. \A d \in Bodies(Ended(c)) : d = Around.body \o c \/ d \in Bodies(Around)
        <5>1. Ended(c) = [Around EXCEPT !.body = Around.body \o c, !.pc = "nested"]
          BY DEF Ended
        <5> QED BY <3>3, <4>3, <5>1, BodyTypes DEF Places
      <4>5. \A d \in Bodies(Ended(c)) :
               \/ d \in Bodies(Around) \cup Bodies(Top) \cup {<<>>}
               \/ \E e \in Bodies(Top) : d = Around.body \o e
        BY <4>1, <4>2, <4>3, <4>4
      <4> QED BY <3>3, <4>5, CollectsDropped
    <3> QED BY <2>2, <3>2, <3>3 DEF Ends
  <2> QED BY <1>8, <2>1, <2>2, ShapeEndChain
<1> QED BY <1>2, <1>3, <1>4, <1>5, <1>6, <1>7, <1>8 DEF Next, Loops

LEMMA OrderedNext ==
  ASSUME Shape, Ordered, [Next]_vars
  PROVE  Ordered'
<1>1. Shape'
  BY ShapeNext
<1>2. TypeOK /\ TypeOK' /\ Processed \in Int /\ Processed' \in Int /\ Processed <= Processed'
  BY <1>1, ProcessedAfter DEF Shape
<1>3. CASE Collects /\ tokens' = tokens
  BY <1>2, <1>3, OrderedKept
<1>4. CASE frames' = <<>> /\ New(Len(source) + 1) /\ tokens' = Append(tokens, Len(source) + 1)
  BY <1>2, <1>4, OrderedAtTop
<1>5. CASE frames # <<>> /\ frames' = <<>>
           /\ \E c \in Bodies(frames[1]) \cup {<<>>} : tokens' = tokens \o c
  BY <1>2, <1>5, OrderedAtTop
<1> QED BY <1>1, <1>3, <1>4, <1>5, StepCollects

----------------------------------------------------------------------------
(* The nesting of the source, and the chains under way.                    *)

Net(src, j, k) ==
  Cardinality({i \in j .. k : src[i].dir \in Ifs})
    - Cardinality({i \in j .. k : src[i].dir = "endif"})

Turn(dir) == IF dir \in Ifs THEN 1 ELSE IF dir = "endif" THEN -1 ELSE 0

Count(S, j, k) == Cardinality({i \in j .. k : i \in S})

LEMMA CountOne ==
  ASSUME NEW S, NEW j \in Nat, NEW k \in Nat, j <= k + 1
  PROVE  /\ Count(S, j, k) \in Nat
         /\ Count(S, j, k + 1) = Count(S, j, k) + (IF k + 1 \in S THEN 1 ELSE 0)
<1> DEFINE old == {i \in j .. k : i \in S}
           new == {i \in j .. k + 1 : i \in S}
<1>1. IsFiniteSet(old) /\ Cardinality(old) \in Nat
  <2>1. IsFiniteSet(j .. k) /\ old \subseteq j .. k
    BY FS_Interval
  <2> HIDE DEF old
  <2> QED BY <2>1, FS_Subset, FS_CardinalityType
<1>2. k + 1 \notin old
  OBVIOUS
<1>3. k + 1 \in S => new = old \cup {k + 1}
  OBVIOUS
<1>4. k + 1 \notin S => new = old
  <2>1. ASSUME k + 1 \notin S, NEW i \in new
        PROVE  i \in old
    <3>1. i # k + 1 /\ i \in j .. k + 1
      BY <2>1
    <3>2. i \in j .. k
      BY <3>1
    <3> QED BY <2>1, <3>2
  <2>2. old \subseteq new
    OBVIOUS
  <2> QED BY <2>1, <2>2
<1> HIDE DEF old, new
<1>5. k + 1 \in S => Cardinality(new) = Cardinality(old) + 1
  BY <1>1, <1>2, <1>3, FS_AddElement
<1>6. Count(S, j, k) = Cardinality(old) /\ Count(S, j, k + 1) = Cardinality(new)
  BY DEF Count, old, new
<1> QED BY <1>1, <1>4, <1>5, <1>6

LEMMA NetOne ==
  ASSUME NEW src, NEW j \in Nat, NEW k \in Nat, j <= k + 1
  PROVE  Net(src, j, k) \in Int /\ Net(src, j, k + 1) = Net(src, j, k) + Turn(src[k + 1].dir)
<1> DEFINE S == {i \in Nat : src[i].dir \in Ifs}
           T == {i \in Nat : src[i].dir = "endif"}
<1>1. \A m \in Nat : {i \in j .. m : src[i].dir \in Ifs} = {i \in j .. m : i \in S}
  OBVIOUS
<1>2. \A m \in Nat : {i \in j .. m : src[i].dir = "endif"} = {i \in j .. m : i \in T}
  OBVIOUS
<1>3. k + 1 \in Nat
  OBVIOUS
<1>4. (k + 1 \in S <=> src[k + 1].dir \in Ifs) /\ (k + 1 \in T <=> src[k + 1].dir = "endif")
  BY <1>3
<1>5. ~(k + 1 \in S /\ k + 1 \in T)
  BY <1>4 DEF Ifs
<1> HIDE DEF S, T
<1>6. Count(S, j, k) \in Nat
      /\ Count(S, j, k + 1) = Count(S, j, k) + (IF k + 1 \in S THEN 1 ELSE 0)
  BY CountOne
<1>7. Count(T, j, k) \in Nat
      /\ Count(T, j, k + 1) = Count(T, j, k) + (IF k + 1 \in T THEN 1 ELSE 0)
  BY CountOne
<1>8. /\ Net(src, j, k) = Count(S, j, k) - Count(T, j, k)
      /\ Net(src, j, k + 1) = Count(S, j, k + 1) - Count(T, j, k + 1)
  BY <1>1, <1>2, <1>3 DEF Net, Count
<1> QED BY <1>4, <1>5, <1>6, <1>7, <1>8 DEF Turn

LEMMA NetEmpty ==
  ASSUME NEW src, NEW j \in Int, NEW k \in Int, k < j
  PROVE  Net(src, j, k) = 0
<1>1. j .. k = {}
  OBVIOUS
<1>2. {i \in j .. k : src[i].dir \in Ifs} = {} /\ {i \in j .. k : src[i].dir = "endif"} = {}
  BY <1>1
<1>3. Cardinality({}) = 0
  BY FS_EmptySet
<1> QED BY <1>2, <1>3 DEF Net

LEMMA NetSame ==
  ASSUME NEW src, NEW new, NEW j \in Int, NEW k \in Int,
         \A i \in j .. k : new[i] = src[i]
  PROVE  Net(new, j, k) = Net(src, j, k)
<1>1. {i \in j .. k : src[i].dir \in Ifs} = {i \in j .. k : new[i].dir \in Ifs}
  OBVIOUS
<1>2. {i \in j .. k : src[i].dir = "endif"} = {i \in j .. k : new[i].dir = "endif"}
  OBVIOUS
<1> QED BY <1>1, <1>2 DEF Net

LEMMA ChainCountOf ==
  ASSUME NEW fs \in Seq(FrameType), fs # <<>> => fs[1].flags = "Nothing"
  PROVE  LET C == {k \in DOMAIN fs : fs[k].flags = "Nothing"}
         IN  /\ IsFiniteSet(C) /\ Cardinality(C) \in Nat
             /\ fs # <<>> => Cardinality(C) > 0
             /\ fs = <<>> => Cardinality(C) = 0
<1> DEFINE C == {k \in DOMAIN fs : fs[k].flags = "Nothing"}
<1>1. DOMAIN fs = 1 .. Len(fs) /\ Len(fs) \in Nat /\ (fs = <<>> <=> Len(fs) = 0)
  OBVIOUS
<1>2. IsFiniteSet(C) /\ Cardinality(C) \in Nat
  <2>1. IsFiniteSet(1 .. Len(fs)) /\ C \subseteq 1 .. Len(fs)
    BY <1>1, FS_Interval
  <2> HIDE DEF C
  <2> QED BY <2>1, FS_Subset, FS_CardinalityType
<1>3. fs # <<>> => 1 \in C
  BY <1>1
<1>4. fs = <<>> => C = {}
  BY <1>1
<1> HIDE DEF C
<1>5. C = {} <=> Cardinality(C) = 0
  BY <1>2, FS_EmptySet
<1> QED BY <1>2, <1>3, <1>4, <1>5 DEF C

LEMMA ChainCount ==
  ASSUME Shape
  PROVE  /\ IsFiniteSet(Chains) /\ Cardinality(Chains) \in Nat
         /\ frames # <<>> => Cardinality(Chains) > 0
         /\ frames = <<>> => Cardinality(Chains) = 0
<1>1. frames \in Seq(FrameType) /\ (frames # <<>> => frames[1].flags = "Nothing")
  BY DEF Shape, TypeOK, Stacked
<1> QED BY <1>1, ChainCountOf DEF Chains

LEMMA ChainCountAfter ==
  ASSUME Shape'
  PROVE  /\ IsFiniteSet(Chains') /\ Cardinality(Chains') \in Nat
         /\ frames' # <<>> => Cardinality(Chains') > 0
         /\ frames' = <<>> => Cardinality(Chains') = 0
<1>1. frames' \in Seq(FrameType) /\ (frames' # <<>> => frames'[1].flags = "Nothing")
  BY DEF Shape, TypeOK, Stacked
<1> QED BY <1>1, ChainCountOf DEF Chains

LEMMA ChainsChange ==
  ASSUME Shape, Shape'
  PROVE  /\ \A g : Replaces(g) /\ g.flags = Top.flags => Cardinality(Chains') = Cardinality(Chains)
         /\ \A g : Adds(g) /\ g.flags = "Nothing" =>
              Cardinality(Chains') = Cardinality(Chains) + 1
         /\ \A f, g : Pushes(f, g) /\ f.flags = Top.flags /\ g.flags # "Nothing" =>
              Cardinality(Chains') = Cardinality(Chains)
         /\ \A g : Drops(g) /\ g.flags = Around.flags =>
              Cardinality(Chains') = Cardinality(Chains) - (IF Top.flags = "Nothing" THEN 1 ELSE 0)
<1>1. /\ DOMAIN frames = 1 .. depth /\ depth \in Nat
      /\ DOMAIN frames' = 1 .. Len(frames')
  BY NoFrames DEF Shape, TypeOK
<1>2. /\ IsFiniteSet(Chains) /\ Cardinality(Chains) \in Nat
      /\ IsFiniteSet(Chains') /\ Cardinality(Chains') \in Nat
  <2>1. IsFiniteSet(Chains')
    <3>1. Len(frames') \in Nat
      BY DEF Shape, TypeOK
    <3>2. IsFiniteSet(1 .. Len(frames')) /\ Chains' \subseteq 1 .. Len(frames')
      BY <1>1, <3>1, FS_Interval DEF Chains
    <3> QED BY <3>2, FS_Subset
  <2> QED BY <2>1, ChainCount, FS_CardinalityType
<1>3. ASSUME NEW g, Replaces(g), g.flags = Top.flags
      PROVE  Cardinality(Chains') = Cardinality(Chains)
  <2>1. Chains' = Chains
    <3>1. \A k \in 1 .. depth : frames'[k].flags = frames[k].flags
      BY <1>1, <1>3 DEF Replaces
    <3> QED BY <1>1, <1>3, <3>1 DEF Chains, Replaces
  <2> QED BY <2>1
<1>4. ASSUME NEW g, Adds(g), g.flags = "Nothing"
      PROVE  Cardinality(Chains') = Cardinality(Chains) + 1
  <2>1. Chains' = Chains \cup {depth + 1}
    BY <1>1, <1>4 DEF Chains, Adds
  <2>2. depth + 1 \notin Chains
    BY <1>1 DEF Chains
  <2> QED BY <1>2, <2>1, <2>2, FS_AddElement
<1>5. ASSUME NEW f, NEW g, Pushes(f, g), f.flags = Top.flags, g.flags # "Nothing"
      PROVE  Cardinality(Chains') = Cardinality(Chains)
  <2>1. Chains' = Chains
    <3>1. \A k \in 1 .. depth : frames'[k].flags = frames[k].flags
      BY <1>1, <1>5 DEF Pushes
    <3>2. DOMAIN frames' = 1 .. depth + 1 /\ frames'[depth + 1].flags # "Nothing"
      BY <1>1, <1>5 DEF Pushes
    <3> QED BY <1>1, <3>1, <3>2 DEF Chains
  <2> QED BY <2>1
<1>6. ASSUME NEW g, Drops(g), g.flags = Around.flags
      PROVE  Cardinality(Chains') = Cardinality(Chains) - (IF Top.flags = "Nothing" THEN 1 ELSE 0)
  <2>1. \A k \in 1 .. depth - 1 : frames'[k].flags = frames[k].flags
    BY <1>1, <1>6 DEF Drops, Around
  <2>2. DOMAIN frames' = 1 .. depth - 1 /\ Top = frames[depth] /\ depth >= 2
    BY <1>1, <1>6 DEF Drops
  <2>3. CASE Top.flags # "Nothing"
    <3>1. Chains' = Chains
      BY <1>1, <2>1, <2>2, <2>3 DEF Chains
    <3> QED BY <1>2, <2>3, <3>1
  <2>4. CASE Top.flags = "Nothing"
    <3>1. Chains = Chains' \cup {depth} /\ depth \notin Chains'
      BY <1>1, <2>1, <2>2, <2>4 DEF Chains
    <3>2. Cardinality(Chains) = Cardinality(Chains') + 1
      BY <1>2, <3>1, FS_AddElement
    <3> QED BY <1>2, <2>4, <3>2
  <2> QED BY <2>3, <2>4
<1> QED BY <1>3, <1>4, <1>5, <1>6

(* What a step reads, and what becomes of the chains.                      *)
Nests(d) ==
  /\ Cardinality(Chains') = Cardinality(Chains) + d
  /\ \/ Processed' = Processed /\ d = 0
     \/ Processed' = Processed + 1 /\ d = Turn(source'[Processed + 1].dir)
  /\ \A i \in 1 .. Processed : source'[i] = source[i]

LEMMA NestsReading ==
  ASSUME Shape, NEW l, Reads(l), NEW d \in Int,
         Cardinality(Chains') = Cardinality(Chains) + d,
         (at_word' = TRUE /\ d = 0) \/ (at_word' = FALSE /\ d = Turn(l.dir))
  PROVE  Nests(d)
<1>1. /\ ~at_word /\ Len(source) \in Nat /\ Len(source') = Len(source) + 1
      /\ source'[Len(source) + 1] = l /\ Processed = Len(source)
      /\ \A i \in 1 .. Len(source) : source'[i] = source[i]
  BY Reading DEF Shape, Processed
<1>2. Processed' = IF at_word' THEN Processed ELSE Processed + 1
  BY <1>1 DEF Processed
<1> QED BY <1>1, <1>2 DEF Nests

LEMMA NestsAtWord ==
  ASSUME Shape, at_word, source # <<>>, source' = source, NEW d \in Int,
         \/ at_word' = TRUE /\ d = 0
         \/ at_word' = FALSE /\ d = Turn(Last(source).dir),
         Cardinality(Chains') = Cardinality(Chains) + d
  PROVE  Nests(d)
<1>1. Len(source) \in Nat
  BY NoFrames DEF Shape
<1>2. Processed = Len(source) - 1
  BY DEF Processed
<1>3. Processed' = IF at_word' THEN Processed ELSE Processed + 1
  BY <1>1, <1>2 DEF Processed
<1>4. source'[Processed + 1] = Last(source)
  BY <1>1, <1>2 DEF Last
<1> QED BY <1>3, <1>4 DEF Nests

LEMMA NestsNothing ==
  ASSUME Shape, Cardinality(Chains') = Cardinality(Chains),
         \/ \E l \in Lines : Reads(l) /\ (at_word' = TRUE \/ (at_word' = FALSE /\ Turn(l.dir) = 0))
         \/ /\ at_word /\ source # <<>> /\ source' = source
            /\ at_word' = TRUE \/ (at_word' = FALSE /\ Turn(Last(source).dir) = 0)
  PROVE  Nests(0)
<1>1. Cardinality(Chains') = Cardinality(Chains) + 0 /\ 0 \in Int
  BY ChainCount
<1>2. ASSUME NEW l, Reads(l), at_word' = TRUE \/ (at_word' = FALSE /\ Turn(l.dir) = 0)
      PROVE  Nests(0)
  BY <1>1, <1>2, NestsReading
<1>3. ASSUME at_word, source # <<>>, source' = source,
             at_word' = TRUE \/ (at_word' = FALSE /\ Turn(Last(source).dir) = 0)
      PROVE  Nests(0)
  BY <1>1, <1>3, NestsAtWord
<1> QED BY <1>2, <1>3

LEMMA NestsLater ==
  ASSUME Shape, Cardinality(Chains') = Cardinality(Chains), at_word',
         (\E l \in Lines : Reads(l)) \/ (at_word /\ source' = source)
  PROVE  Nests(0)
<1>1. Len(source) \in Nat
  BY NoFrames DEF Shape
<1>2. Processed' = Processed /\ \A i \in 1 .. Processed : source'[i] = source[i]
  <2>1. CASE \E l \in Lines : Reads(l)
    BY <1>1, <2>1, Reading DEF Shape, Processed
  <2>2. CASE at_word /\ source' = source
    BY <2>2 DEF Processed
  <2> QED BY <2>1, <2>2
<1>3. Cardinality(Chains') = Cardinality(Chains) + 0
  BY ChainCount
<1> QED BY <1>2, <1>3 DEF Nests

LEMMA StepNests ==
  ASSUME Shape, [Next]_vars, ~DirectiveAsText, phase' # "error"
  PROVE  \E d \in Int : Nests(d)
<1>1. Shape'
  BY ShapeNext
<1>2. Cardinality(Chains) \in Nat
  BY ChainCount
<1> USE DEF Shape
<1>3. CASE source' = source /\ at_word' = at_word /\ frames' = frames
  <2>1. Processed' = Processed /\ Chains' = Chains
    BY <1>3 DEF Processed, Chains
  <2>2. Nests(0)
    BY <1>2, <1>3, <2>1 DEF Nests
  <2> QED BY <2>2
<1>4. CASE Text \/ Define
  <2>1. PICK l \in Lines : Reads(l) /\ frames' = frames /\ at_word' = at_word
                           /\ l.dir \in Texts \cup {"define"}
    <3>1. CASE Text
      BY <3>1 DEF Text, AtTop
    <3>2. CASE Define
      BY <3>2 DEF Define, AtTop
    <3> QED BY <1>4, <3>1, <3>2
  <2>2. Turn(l.dir) = 0 /\ Chains' = Chains
    BY <2>1 DEF Turn, Texts, Ifs, Chains
  <2>3. Nests(0)
    <3>1. at_word' = FALSE /\ Cardinality(Chains') = Cardinality(Chains)
      <4>1. ~at_word /\ at_word \in BOOLEAN
        BY <2>1, Reading DEF TypeOK
      <4> QED BY <2>1, <2>2, <4>1
    <3> QED BY <2>1, <2>2, <3>1, NestsNothing
  <2> QED BY <2>3
<1>5. CASE If \/ BodyIf
  <2>1. PICK l \in Lines : Reads(l) /\ Adds(Frame("Nothing", l))
    BY <1>5, ShapeIf
  <2>2. at_word' = at_word /\ l.dir \in Ifs
    <3>1. PICK k \in Lines : Reads(k) /\ k.dir \in Ifs /\ at_word' = at_word
      <4>1. CASE If
        BY <4>1 DEF If
      <4>2. CASE BodyIf
        BY <4>2 DEF BodyIf, InBody
      <4> QED BY <1>5, <4>1, <4>2
    <3>2. k = l
      <4>1. Last(source') = k /\ Last(source') = l
        BY <2>1, <3>1, Reading
      <4> QED BY <4>1
    <3> QED BY <3>1, <3>2
  <2>3. Frame("Nothing", l).flags = "Nothing"
    BY DEF Frame
  <2>4. Cardinality(Chains') = Cardinality(Chains) + 1
    BY <1>1, <2>1, <2>3, ChainsChange
  <2>5. Turn(l.dir) = 1 /\ at_word' = FALSE
    <3>1. ~at_word /\ at_word \in BOOLEAN
      BY <2>1, Reading DEF TypeOK
    <3> QED BY <2>2, <3>1 DEF Turn
  <2>6. Nests(1)
    <3>1. 1 \in Int
      OBVIOUS
    <3> QED BY <2>1, <2>4, <2>5, <3>1, NestsReading, Zenon
  <2> QED BY <2>6
<1>6. CASE BodyText \/ BodyEnds
  <2>1. PICK l \in Lines, b \in Seq(Nat) :
          /\ Reads(l) /\ frames # <<>>
          /\ Replaces([Top EXCEPT !.body = b, !.pc = IF at_word' THEN "found" ELSE "body"])
    BY <1>6, ShapeBody
  <2>2. [Top EXCEPT !.body = b, !.pc = IF at_word' THEN "found" ELSE "body"].flags = Top.flags
    <3>1. Top \in FrameType
      BY <2>1, TopFrame
    <3> QED BY <3>1 DEF FrameType
  <2>3. Cardinality(Chains') = Cardinality(Chains)
    BY <1>1, <2>1, <2>2, ChainsChange
  <2>4. CASE at_word'
    <3>1. at_word' = TRUE
      BY <1>1, <2>4 DEF TypeOK
    <3>2. Nests(0)
      BY <2>1, <2>3, <3>1, NestsLater
    <3> QED BY <3>2
  <2>5. CASE ~at_word'
    <3>1. PICK k \in Lines : Reads(k) /\ k.dir \notin Ifs \cup Chain
      <4>1. CASE BodyText
        BY <4>1 DEF BodyText, InBody
      <4>2. CASE BodyEnds
        BY <2>5, <4>2 DEF BodyEnds
      <4> QED BY <1>6, <4>1, <4>2
    <3>2. Turn(k.dir) = 0
      BY <3>1 DEF Turn, Chain
    <3>3. Nests(0)
      <4>1. at_word' = FALSE
        BY <1>1, <2>5 DEF TypeOK
      <4> QED BY <2>3, <3>1, <3>2, <4>1, NestsNothing
    <3> QED BY <3>3
  <2> QED BY <1>1, <2>4, <2>5
<1>7. CASE BodyWord
  <2> DEFINE g == [Top EXCEPT !.body = Append(Top.body, Len(source))]
  <2>1. /\ Replaces(g) /\ frames # <<>> /\ source # <<>> /\ Word = "elif"
        /\ at_word /\ at_word' = FALSE /\ source' = source
    BY <1>7, ShapeBodyWord DEF BodyWord
  <2>2. g.flags = Top.flags
    <3>1. Top \in FrameType
      BY <2>1, TopFrame
    <3> QED BY <3>1 DEF FrameType
  <2> HIDE DEF g
  <2>3. Cardinality(Chains') = Cardinality(Chains)
    BY <1>1, <2>1, <2>2, ChainsChange
  <2>4. Turn(Last(source).dir) = 0
    BY <2>1 DEF Turn, Word, Ifs
  <2>5. Nests(0)
    BY <2>1, <2>3, <2>4, NestsNothing
  <2> QED BY <2>5
<1>8. CASE Loops
  <2>1. /\ Top \in FrameType /\ at_word /\ source # <<>> /\ source' = source /\ frames # <<>>
    BY <1>8, LoopSteps
  <2>2. CASE Returns
    <3>1. Drops(Returned) /\ at_word' = TRUE /\ Top.flags # "Nothing"
      BY <2>2 DEF Returns
    <3>2. Around \in FrameType
      BY <2>1, <3>1, CallerBelow DEF Around
    <3>3. Returned.flags = Around.flags
      BY <3>2 DEF Returned, Around, FrameType
    <3>4. Cardinality(Chains') = Cardinality(Chains) - 0
      BY <1>1, <3>1, <3>3, ChainsChange
    <3>5. Nests(0)
      <4>1. Cardinality(Chains') = Cardinality(Chains)
        BY <1>2, <3>4
      <4> QED BY <2>1, <3>1, <4>1, NestsLater
    <3> QED BY <3>5
  <2>3. ASSUME NEW flags \in Flags, NEW pc \in Places, Calls(flags, pc)
        PROVE  Nests(0)
    <3> DEFINE f == [Top EXCEPT !.pc = pc]
               g == Frame(flags, Last(source))
    <3>1. Pushes(f, g) /\ f.flags = Top.flags /\ g.flags # "Nothing" /\ at_word' = FALSE
          /\ Word \in {"elif", "else"}
      BY <2>1, <2>3 DEF Calls, FrameType, Frame
    <3> HIDE DEF f, g
    <3>2. Cardinality(Chains') = Cardinality(Chains)
      BY <1>1, <3>1, ChainsChange
    <3>3. Turn(Last(source).dir) = 0
      BY <3>1 DEF Turn, Word, Ifs
    <3> QED BY <2>1, <3>1, <3>2, <3>3, NestsNothing
  <2>4. ASSUME NEW pc \in Places, Goes(pc)
        PROVE  Nests(0)
    <3> DEFINE f == [Top EXCEPT !.pc = pc]
    <3>1. Replaces(f) /\ f.flags = Top.flags /\ at_word' = TRUE
      BY <2>1, <2>4 DEF Goes, FrameType
    <3> HIDE DEF f
    <3>2. Cardinality(Chains') = Cardinality(Chains)
      BY <1>1, <3>1, ChainsChange
    <3>3. Nests(0)
      BY <2>1, <3>1, <3>2, NestsLater
    <3> QED BY <3>3
  <2> QED BY <1>8, <2>2, <2>3, <2>4, ShapeLoops
<1>9. CASE EndChain
  <2>1. /\ source' = source /\ at_word /\ at_word' = FALSE /\ source # <<>>
        /\ Top.flags = "Nothing" /\ Word = "endif" /\ frames # <<>>
    BY <1>9, ShapeEndChain
  <2>2. PICK c : Ends(c)
    BY <1>9, ShapeEndChain
  <2>3. Turn(Last(source).dir) = -1
    BY <2>1 DEF Turn, Word, Ifs
  <2>4. Cardinality(Chains') = Cardinality(Chains) - 1
    <3>1. CASE depth = 1 /\ frames' = <<>>
      <4>1. Chains = {1} /\ Chains' = {}
        <5>1. DOMAIN frames = 1 .. 1 /\ frames[1].flags = "Nothing"
          BY <2>1, <3>1, TopFrame
        <5> QED BY <3>1, <5>1 DEF Chains
      <4>2. Cardinality({1}) = 1 /\ Cardinality({}) = 0
        BY FS_Singleton, FS_EmptySet
      <4> QED BY <4>1, <4>2
    <3>2. CASE Around \in FrameType /\ Drops(Ended(c))
      <4>1. Ended(c).flags = Around.flags
        BY <3>2 DEF Ended, FrameType
      <4> QED BY <1>1, <2>1, <3>2, <4>1, ChainsChange
    <3> QED BY <2>2, <3>1, <3>2 DEF Ends
  <2>5. Nests(-1)
    <3>1. Cardinality(Chains') = Cardinality(Chains) + (-1) /\ -1 \in Int
      BY <1>2, <2>4
    <3> QED BY <2>1, <2>3, <3>1, NestsAtWord
  <2> QED BY <2>5
<1>10. CASE EndOfFile \/ Stopped \/ UNCHANGED vars
  BY <1>3, <1>10 DEF EndOfFile, Stopped, vars
<1>11. ~Error
  BY DEF Error
<1> QED BY <1>4, <1>5, <1>6, <1>7, <1>8, <1>9, <1>10, <1>11 DEF Next, Loops

----------------------------------------------------------------------------
(* The recursion follows the nesting.                                      *)

LEMMA PhaseAndOddities ==
  ASSUME [Next]_vars
  PROVE  /\ oddities \subseteq oddities'
         /\ phase = "running" \/ UNCHANGED vars
         /\ DirectiveAsText => "directive_after_endif" \in oddities' /\ frames' = <<>>
<1>1. oddities \subseteq oddities'
  <2>1. CASE Text \/ Define \/ Error \/ If \/ EndOfFile
    BY <2>1 DEF Text, Define, Error, If, EndOfFile, Handled
  <2>2. CASE DirectiveAsText \/ BodyText
    BY <2>2 DEF DirectiveAsText, BodyText, Notes
  <2>3. CASE BodyIf \/ BodyEnds \/ BodyWord \/ EndChain \/ Stopped \/ UNCHANGED vars
    BY <2>3 DEF BodyIf, BodyEnds, BodyWord, EndChain, Stopped, vars
  <2>4. CASE Found \/ AfterElif \/ AfterElse
    BY <2>4 DEF Found, AfterElif, AfterElse, Step
  <2> QED BY <2>1, <2>2, <2>3, <2>4 DEF Next
<1>2. phase = "running" \/ UNCHANGED vars
  <2>1. CASE Text \/ Define \/ Error \/ If \/ EndOfFile \/ DirectiveAsText
    BY <2>1 DEF Text, Define, Error, If, EndOfFile, DirectiveAsText, AtTop, Reads
  <2>2. CASE BodyText \/ BodyIf \/ BodyEnds
    BY <2>2 DEF BodyText, BodyIf, BodyEnds, InBody
  <2>3. CASE BodyWord \/ EndChain \/ Found \/ AfterElif \/ AfterElse
    BY <2>3 DEF BodyWord, EndChain, Found, AfterElif, AfterElse, InFrame
  <2>4. CASE Stopped \/ UNCHANGED vars
    BY <2>4 DEF Stopped
  <2> QED BY <2>1, <2>2, <2>3, <2>4 DEF Next
<1>3. DirectiveAsText => "directive_after_endif" \in oddities' /\ frames' = <<>>
  BY DEF DirectiveAsText, Notes, AtTop
<1> QED BY <1>1, <1>2, <1>3

LEMMA NestingKeptNext ==
  ASSUME Shape, NestingKept, [Next]_vars
  PROVE  NestingKept'
<1>1. CASE UNCHANGED vars
  BY <1>1 DEF NestingKept, vars, Chains, Nesting, Processed
<1>2. CASE ~UNCHANGED vars
  <2> SUFFICES ASSUME phase' \in {"running", "done"}, "directive_after_endif" \notin oddities'
               PROVE  Cardinality(Chains') = Nesting(1, Processed)'
    BY DEF NestingKept
  <2>1. phase = "running" /\ "directive_after_endif" \notin oddities /\ ~DirectiveAsText
    BY <1>2, PhaseAndOddities
  <2>2. PICK d \in Int : Nests(d)
    BY <2>1, StepNests
  <2>3. Processed \in Nat /\ Cardinality(Chains) = Net(source, 1, Processed)
    BY <2>1, ProcessedGrows DEF Shape, NestingKept, Nesting, Net
  <2>4. Net(source', 1, Processed) = Net(source, 1, Processed)
    BY <2>2, <2>3, NetSame DEF Nests
  <2>5. 1 \in Nat /\ 1 <= Processed + 1
    BY <2>3
  <2>6. /\ Net(source', 1, Processed) \in Int
        /\ Net(source', 1, Processed + 1)
             = Net(source', 1, Processed) + Turn(source'[Processed + 1].dir)
    BY <2>3, <2>5, NetOne
  <2>7. Cardinality(Chains') = Net(source', 1, Processed')
    BY <2>2, <2>3, <2>4, <2>6 DEF Nests
  <2> QED BY <2>7 DEF Nesting, Net
<1> QED BY <1>1, <1>2

LEMMA ChainOpenNext ==
  ASSUME Shape, ChainOpen, [Next]_vars
  PROVE  ChainOpen'
<1>1. CASE UNCHANGED vars
  BY <1>1 DEF ChainOpen, OpenSince, vars, Chains, Nesting, Processed
<1>2. CASE ~UNCHANGED vars
  <2> SUFFICES ASSUME phase' = "running", frames' # <<>>
               PROVE  \E j \in 1 .. Processed' : OpenSince(j)'
    BY DEF ChainOpen
  <2>1. phase = "running" /\ ~DirectiveAsText
    BY <1>2, PhaseAndOddities
  <2>2. PICK d \in Int : Nests(d)
    BY <2>1, StepNests
  <2>3. Processed \in Nat
    BY <2>1, ProcessedGrows DEF Shape
  <2>4. /\ Cardinality(Chains) \in Nat
        /\ frames = <<>> => Cardinality(Chains) = 0
    BY ChainCount
  <2>5. Cardinality(Chains') > 0 /\ Cardinality(Chains') \in Nat
    <3>1. Shape'
      BY ShapeNext
    <3> QED BY <3>1, ChainCountAfter
  <2>6. ASSUME NEW j \in 1 .. Processed', source'[j].dir \in Ifs,
               \A k \in j .. Processed' : Net(source', j, k) > 0,
               Cardinality(Chains') = Net(source', j, Processed')
        PROVE  OpenSince(j)'
    BY <2>6 DEF OpenSince, Nesting, Net
  <2>7. CASE frames = <<>>
    <3>1. Processed' = Processed + 1 /\ d = 1 /\ Turn(source'[Processed + 1].dir) = 1
      BY <2>2, <2>4, <2>5, <2>7 DEF Nests, Turn
    <3>2. source'[Processed + 1].dir \in Ifs
      BY <3>1 DEF Turn
    <3> DEFINE j == Processed + 1
    <3>3. Net(source', j, Processed) = 0
      BY <2>3, NetEmpty
    <3>4. Net(source', j, j) = 1
      <4>1. Net(source', j, Processed + 1)
              = Net(source', j, Processed) + Turn(source'[Processed + 1].dir)
        BY <2>3, NetOne
      <4> QED BY <3>1, <3>3, <4>1
    <3>5. j \in 1 .. Processed' /\ j .. Processed' = {j}
      BY <2>3, <3>1
    <3>6. Cardinality(Chains') = 1
      BY <2>2, <2>4, <2>7, <3>1 DEF Nests
    <3>7. Processed' = j
      BY <3>1
    <3> HIDE DEF j
    <3>8. source'[j].dir \in Ifs
      BY <3>2 DEF j
    <3> QED BY <2>6, <3>4, <3>5, <3>6, <3>7, <3>8
  <2>8. CASE frames # <<>>
    <3>1. PICK j \in 1 .. Processed :
            /\ source[j].dir \in Ifs
            /\ \A k \in j .. Processed : Net(source, j, k) > 0
            /\ Cardinality(Chains) = Net(source, j, Processed)
      BY <2>1, <2>8 DEF ChainOpen, OpenSince, Nesting, Net
    <3>2. j \in Nat /\ j <= Processed /\ j >= 1
      BY <2>3
    <3>3. \A i \in 1 .. Processed : source'[i] = source[i]
      BY <2>2 DEF Nests
    <3>4. ASSUME NEW k \in j .. Processed
          PROVE  Net(source', j, k) = Net(source, j, k)
      <4>1. \A i \in j .. k : source'[i] = source[i]
        BY <3>2, <3>3, <2>3
      <4> QED BY <3>2, <4>1, <2>3, NetSame
    <3>5. source'[j].dir \in Ifs
      BY <3>1, <3>2, <3>3, <2>3
    <3>6. CASE Processed' = Processed /\ d = 0
      <4>1. \A k \in j .. Processed' : Net(source', j, k) > 0
        BY <3>1, <3>4, <3>6
      <4>2. Cardinality(Chains') = Cardinality(Chains)
        BY <2>2, <2>4, <3>6 DEF Nests
      <4>3. Cardinality(Chains') = Net(source', j, Processed')
        <5>1. Processed \in j .. Processed
          BY <3>2, <2>3
        <5> QED BY <3>1, <3>4, <3>6, <4>2, <5>1
      <4> QED BY <2>6, <3>5, <3>6, <4>1, <4>3
    <3>7. CASE Processed' = Processed + 1 /\ d = Turn(source'[Processed + 1].dir)
      <4>1. Net(source', j, Processed + 1)
              = Net(source', j, Processed) + Turn(source'[Processed + 1].dir)
        BY <3>2, <2>3, NetOne
      <4>2. Processed \in j .. Processed
        BY <3>2, <2>3
      <4>3. Cardinality(Chains') = Net(source', j, Processed')
        BY <2>2, <3>1, <3>4, <3>7, <4>1, <4>2 DEF Nests
      <4>4. \A k \in j .. Processed' : Net(source', j, k) > 0
        <5> SUFFICES ASSUME NEW k \in j .. Processed'
                     PROVE  Net(source', j, k) > 0
          OBVIOUS
        <5>1. CASE k = Processed'
          BY <2>5, <4>3, <5>1
        <5>2. CASE k # Processed'
          <6>1. k \in j .. Processed
            BY <2>3, <3>7, <5>2
          <6> QED BY <3>1, <3>4, <6>1
        <5> QED BY <5>1, <5>2
      <4>5. j \in 1 .. Processed'
        BY <3>2, <3>7, <2>3
      <4> QED BY <2>6, <3>5, <4>3, <4>4, <4>5
    <3> QED BY <2>2, <3>6, <3>7 DEF Nests
  <2> QED BY <2>7, <2>8
<1> QED BY <1>1, <1>2

----------------------------------------------------------------------------
(* The directives that are taken for text.                                 *)

UnknownIn(src, n) ==
  src[n].dir \in Directives =>
    /\ src[n].dir \in {"define", "error", "elif"}
    /\ \E j \in 1 .. n - 1 : src[j].dir \in Ifs /\ \A k \in j .. n - 1 : Net(src, j, k) > 0

Handles(src, n) == UnknownIn(src, n) \/ (n > 1 /\ src[n - 1].dir = "endif")

LEMMA UnknownIsIn ==
  /\ OnlyUnknown <=>
       /\ \A i \in DOMAIN tokens : Handles(source, tokens[i])
       /\ \A k \in DOMAIN frames : \A b \in Bodies(frames[k]) :
            \A i \in DOMAIN b : UnknownIn(source, b[i])
  /\ OnlyUnknown' <=>
       /\ \A i \in DOMAIN tokens' : Handles(source', tokens'[i])
       /\ \A k \in DOMAIN frames' : \A b \in Bodies(frames'[k]) :
            \A i \in DOMAIN b : UnknownIn(source', b[i])
<1>1. \A n : Unknown(n) <=> UnknownIn(source, n)
  BY DEF Unknown, UnknownIn, Within, Nesting, Net
<1>2. OnlyUnknown <=>
       /\ \A i \in DOMAIN tokens : Handles(source, tokens[i])
       /\ \A k \in DOMAIN frames : \A b \in Bodies(frames[k]) :
            \A i \in DOMAIN b : UnknownIn(source, b[i])
  BY <1>1, Zenon DEF OnlyUnknown, Handles
<1>3. OnlyUnknown' <=>
       /\ \A i \in DOMAIN tokens' : Handles(source', tokens'[i])
       /\ \A k \in DOMAIN frames' : \A b \in Bodies(frames'[k]) :
            \A i \in DOMAIN b : UnknownIn(source', b[i])
  BY Zenon DEF OnlyUnknown, Handles, Unknown, UnknownIn, Within, Nesting, Net
<1> QED BY <1>2, <1>3

LEMMA UnknownStays ==
  ASSUME NEW m \in Int, NEW src, NEW new, \A i \in 1 .. m : new[i] = src[i],
         NEW n \in 1 .. m
  PROVE  /\ UnknownIn(src, n) => UnknownIn(new, n)
         /\ Handles(src, n) => Handles(new, n)
<1>1. new[n] = src[n] /\ n \in Nat /\ (n > 1 => new[n - 1] = src[n - 1])
  OBVIOUS
<1>2. ASSUME UnknownIn(src, n)
      PROVE  UnknownIn(new, n)
  <2> SUFFICES ASSUME src[n].dir \in Directives
               PROVE  /\ src[n].dir \in {"define", "error", "elif"}
                      /\ \E j \in 1 .. n - 1 : /\ new[j].dir \in Ifs
                                               /\ \A k \in j .. n - 1 : Net(new, j, k) > 0
    BY <1>1 DEF UnknownIn
  <2>1. PICK j \in 1 .. n - 1 : src[j].dir \in Ifs /\ \A k \in j .. n - 1 : Net(src, j, k) > 0
    BY <1>2 DEF UnknownIn
  <2>2. new[j].dir \in Ifs
    BY <2>1
  <2>3. ASSUME NEW k \in j .. n - 1
        PROVE  Net(new, j, k) > 0
    <3>1. \A i \in j .. k : new[i] = src[i]
      OBVIOUS
    <3>2. Net(new, j, k) = Net(src, j, k)
      BY <3>1, NetSame
    <3> QED BY <2>1, <3>2
  <2> QED BY <1>2, <2>2, <2>3 DEF UnknownIn
<1> QED BY <1>1, <1>2 DEF Handles

LEMMA SourceGrows ==
  ASSUME TypeOK, [Next]_vars
  PROVE  \A i \in 1 .. Len(source) : source'[i] = source[i]
<1>1. CASE \E l \in Lines : Reads(l)
  BY <1>1, Reading
<1>2. CASE source' = source
  BY <1>2
<1>3. CASE Text \/ DirectiveAsText \/ Define \/ Error \/ If
  BY <1>1, <1>3 DEF Text, DirectiveAsText, Define, Error, If, AtTop
<1>4. CASE BodyText \/ BodyIf \/ BodyEnds
  BY <1>1, <1>4 DEF BodyText, BodyIf, BodyEnds, InBody
<1>5. CASE EndOfFile \/ BodyWord \/ Found \/ AfterElif \/ AfterElse \/ EndChain
  BY <1>2, <1>5 DEF EndOfFile, BodyWord, Found, AfterElif, AfterElse, EndChain, Step
<1>6. CASE Stopped \/ UNCHANGED vars
  BY <1>2, <1>6 DEF Stopped, vars
<1> QED BY <1>3, <1>4, <1>5, <1>6 DEF Next

(* A line that joins a branch is none of those that chains know.           *)
LEMMA NewIsUnknown ==
  ASSUME Shape, ChainOpen, [Next]_vars, frames # <<>>, NEW p, New(p)
  PROVE  UnknownIn(source', p)
<1>1. phase = "running" /\ Len(source) \in Nat
  <2>1. CASE BodyText
    BY <2>1, NoFrames DEF BodyText, InBody, Shape
  <2>2. CASE BodyWord
    BY <2>2, NoFrames DEF BodyWord, InFrame, Shape
  <2> QED BY <2>1, <2>2 DEF New
<1>2. Processed \in Nat
  BY <1>1, ProcessedGrows DEF Shape
<1>3. /\ p = Processed + 1 /\ Processed <= Len(source)
      /\ source'[p].dir \notin Ifs \cup {"else", "endif"}
  <2>1. CASE BodyText
    <3>1. PICK l \in Lines : Reads(l) /\ at_word' = at_word /\ l.dir \notin Ifs \cup Chain
      BY <2>1 DEF BodyText, InBody
    <3>2. Processed = Len(source) /\ Processed' = Len(source) + 1 /\ source'[Len(source) + 1] = l
      BY <3>1, Reading DEF Shape, Processed
    <3>3. p = Len(source) + 1
      BY <1>1, <3>2 DEF New
    <3> QED BY <1>1, <3>1, <3>2, <3>3 DEF Chain
  <2>2. CASE BodyWord
    <3>1. source # <<>> /\ Word = "elif" /\ source' = source /\ at_word /\ ~at_word'
      BY <2>2, ShapeBodyWord DEF BodyWord
    <3>2. Processed = Len(source) - 1 /\ Processed' = Len(source)
      BY <3>1 DEF Processed
    <3>3. p = Len(source)
      BY <1>1, <3>2 DEF New
    <3>4. source'[p] = Last(source) /\ Last(source).dir = "elif"
      BY <3>1, <3>3 DEF Word, Last
    <3> QED BY <1>1, <3>2, <3>3, <3>4 DEF Ifs
  <2> QED BY <2>1, <2>2 DEF New
<1>4. source'[p].dir \in Directives => source'[p].dir \in {"define", "error", "elif"}
  BY <1>3 DEF Directives, Chain
<1>5. PICK j \in 1 .. Processed :
        source[j].dir \in Ifs /\ \A k \in j .. Processed : Net(source, j, k) > 0
  BY <1>1 DEF ChainOpen, OpenSince, Nesting, Net
<1>6. \A i \in 1 .. Processed : source'[i] = source[i]
  BY <1>1, <1>2, <1>3, SourceGrows DEF Shape
<1>7. p - 1 = Processed /\ j \in Nat /\ j >= 1 /\ j <= Processed
  BY <1>2, <1>3
<1>8. ASSUME NEW k \in j .. Processed
      PROVE  Net(source', j, k) > 0
  <2>1. \A i \in j .. k : source'[i] = source[i]
    BY <1>2, <1>6, <1>7
  <2>2. Net(source', j, k) = Net(source, j, k)
    BY <1>2, <1>7, <2>1, NetSame
  <2> QED BY <1>5, <2>2
<1>9. source'[j].dir \in Ifs
  BY <1>5, <1>6
<1> QED BY <1>4, <1>7, <1>8, <1>9 DEF UnknownIn

LEMMA OnlyUnknownNext ==
  ASSUME Shape, Ordered, ChainOpen, OnlyUnknown, [Next]_vars
  PROVE  OnlyUnknown'
<1>1. Shape'
  BY ShapeNext
<1>2. /\ TypeOK /\ Processed \in Int /\ Processed <= Len(source)
      /\ \A i \in 1 .. Processed : source'[i] = source[i]
  <2>1. TypeOK /\ Processed \in Int /\ Processed <= Len(source) /\ Len(source) \in Nat
    BY ProcessedGrows, NoFrames DEF Shape
  <2> QED BY <2>1, SourceGrows
<1>3. ASSUME NEW i \in DOMAIN tokens
      PROVE  Handles(source', tokens[i])
  <2>1. tokens[i] \in 1 .. Processed
    BY <1>2 DEF Ordered, ReadIn, TypeOK
  <2>2. Handles(source, tokens[i])
    BY UnknownIsIn
  <2> QED BY <1>2, <2>1, <2>2, UnknownStays
<1>4. ASSUME NEW k \in DOMAIN frames, NEW b \in Bodies(frames[k]), NEW i \in DOMAIN b
      PROVE  UnknownIn(source', b[i])
  <2>1. b[i] \in 1 .. Processed
    BY <1>2, FrameOrder DEF ReadIn
  <2>2. UnknownIn(source, b[i])
    BY UnknownIsIn
  <2> QED BY <1>2, <2>1, <2>2, UnknownStays
<1>5. ASSUME NEW k \in DOMAIN frames
      PROVE  frames[k].body \in Seq(Nat) /\ frames[k].body \in Bodies(frames[k])
  <2>1. frames[k].body \in Bodies(frames[k])
    BY DEF Bodies
  <2> QED BY <1>2, <2>1, FrameOrder
<1>6. ASSUME NEW k, NEW b, Made(k, b), NEW i \in DOMAIN b
      PROVE  UnknownIn(source', b[i])
  <2>1. CASE b = <<>>
    BY <1>6, <2>1
  <2>2. CASE \E m \in DOMAIN frames : b \in Bodies(frames[m])
    BY <1>4, <1>6, <2>2
  <2>3. ASSUME k \in DOMAIN frames, NEW p, New(p), b = Append(frames[k].body, p)
        PROVE  UnknownIn(source', b[i])
    <3>1. frames # <<>> /\ p \in Nat
      BY <2>3 DEF New
    <3>2. UnknownIn(source', p)
      BY <2>3, <3>1, NewIsUnknown
    <3>3. b[i] = p \/ \E j \in DOMAIN frames[k].body : b[i] = frames[k].body[j]
      <4>1. frames[k].body \in Seq(Nat)
        BY <1>5, <2>3
      <4> QED BY <1>6, <2>3, <3>1, <4>1, AppendProperties
    <3> QED BY <1>4, <1>5, <2>3, <3>2, <3>3
  <2>4. ASSUME k \in DOMAIN frames, NEW m \in DOMAIN frames, NEW c \in Bodies(frames[m]),
               b = frames[k].body \o c
        PROVE  UnknownIn(source', b[i])
    <3>1. frames[k].body \in Seq(Nat) /\ c \in Seq(Nat)
      BY <1>2, <1>5, <2>4, FrameOrder
    <3>2. \/ \E j \in DOMAIN frames[k].body : b[i] = frames[k].body[j]
          \/ \E j \in DOMAIN c : b[i] = c[j]
      BY <1>6, <2>4, <3>1, ElementOfConcat
    <3> QED BY <1>4, <1>5, <2>4, <3>2
  <2> QED BY <1>6, <2>1, <2>2, <2>3, <2>4 DEF Made
<1>7. CASE Collects /\ tokens' = tokens
  <2>1. \A i \in DOMAIN tokens' : Handles(source', tokens'[i])
    BY <1>3, <1>7
  <2>2. \A k \in DOMAIN frames' : \A b \in Bodies(frames'[k]) :
          \A i \in DOMAIN b : UnknownIn(source', b[i])
    BY <1>6, <1>7 DEF Collects
  <2> QED BY <2>1, <2>2, UnknownIsIn
<1>8. CASE /\ frames = <<>> /\ frames' = <<>> /\ tokens' = Append(tokens, Len(source) + 1)
           /\ New(Len(source) + 1) /\ (Text \/ DirectiveAsText)
  <2>1. PICK l \in Lines : Reads(l) /\ (l.dir \in Texts \/ ~on_new_line)
    <3>1. CASE Text
      BY <3>1 DEF Text, AtTop
    <3>2. CASE DirectiveAsText
      BY <3>2 DEF DirectiveAsText, AtTop
    <3> QED BY <1>8, <3>1, <3>2
  <2>2. source'[Len(source) + 1] = l /\ Len(source) \in Nat /\ tokens \in Seq(Nat)
        /\ \A i \in 1 .. Len(source) : source'[i] = source[i]
    BY <1>2, <2>1, Reading DEF TypeOK
  <2>3. PICK n \in Nat : n = Len(source) + 1 /\ source'[n] = l
    BY <2>2
  <2>4. ASSUME l.dir \in Texts
        PROVE  Handles(source', n)
    <3>1. source'[n].dir \notin Directives
      BY <2>3, <2>4 DEF Texts, Directives, Ifs, Chain
    <3> QED BY <3>1 DEF Handles, UnknownIn
  <2>5. ASSUME ~on_new_line
        PROVE  Handles(source', n)
    <3>1. source # <<>> /\ Last(source).dir = "endif"
      BY <1>8, <2>5 DEF Shape, Position
    <3>2. Len(source) >= 1 /\ source'[Len(source)].dir = "endif"
      BY <1>2, <2>2, <3>1 DEF Last, TypeOK
    <3>3. n > 1 /\ n - 1 = Len(source)
      BY <2>2, <2>3, <3>2
    <3> QED BY <3>2, <3>3 DEF Handles
  <2>6. ASSUME NEW i \in DOMAIN tokens'
        PROVE  Handles(source', tokens'[i])
    <3>1. tokens'[i] = n \/ (i \in DOMAIN tokens /\ tokens'[i] = tokens[i])
      BY <1>8, <2>2, <2>3, <2>6, AppendProperties
    <3> QED BY <1>3, <2>1, <2>4, <2>5, <3>1
  <2> QED BY <1>8, <2>6, UnknownIsIn
<1>9. ASSUME frames # <<>>, frames' = <<>>, NEW c \in Bodies(frames[1]) \cup {<<>>},
             tokens' = tokens \o c
      PROVE  OnlyUnknown'
  <2>1. 1 \in DOMAIN frames /\ tokens \in Seq(Nat)
    BY <1>2, <1>9, TopFrame DEF TypeOK
  <2>2. c \in Seq(Nat) /\ \A i \in DOMAIN c : UnknownIn(source', c[i])
    <3>1. CASE c = <<>>
      BY <3>1
    <3>2. CASE c \in Bodies(frames[1])
      BY <1>2, <1>4, <2>1, <3>2, FrameOrder
    <3> QED BY <1>9, <3>1, <3>2
  <2>3. ASSUME NEW i \in DOMAIN tokens'
        PROVE  Handles(source', tokens'[i])
    <3>1. \/ \E j \in DOMAIN tokens : tokens'[i] = tokens[j]
          \/ \E j \in DOMAIN c : tokens'[i] = c[j]
      BY <1>9, <2>1, <2>2, <2>3, ElementOfConcat
    <3> QED BY <1>3, <2>2, <3>1 DEF Handles
  <2> QED BY <1>9, <2>3, UnknownIsIn
<1> QED BY <1>1, <1>7, <1>8, <1>9, StepCollects

----------------------------------------------------------------------------
(* Chains without the oddities.                                            *)

Fits(f) ==
  /\ f.cond.dir \in BranchOf(f.flags)
  /\ AtMostOne(f.elifs, "elif") /\ AtMostOne(f.else_branch, "else")
  /\ f.flags # "Nothing" \/ f.pc \notin {"after_elif", "after_else"} =>
       f.elifs = <<>> /\ f.else_branch = <<>>
  /\ f.flags # "Nothing" => f.pc \notin {"after_elif", "after_else"}
  /\ f.pc = "after_elif" => f.else_branch = <<>>

FitsOn(f, p) ==
  /\ f.flags = "StopOnElifElseEndif" => p.elifs = <<>>
  /\ f.flags = "StopOnEndif" => p.else_branch = <<>>

AllFit(fs) == \A k \in DOMAIN fs : Fits(fs[k]) /\ FitsOn(fs[k], fs[k - 1])

LEMMA RegularIsFit ==
  /\ RegularChains <=>
       (oddities = {} => AllFit(frames) /\ (phase = "running" /\ at_word => RegularWord))
  /\ RegularChains' <=>
       (oddities' = {} => AllFit(frames') /\ (phase' = "running" /\ at_word' => RegularWord'))
<1>1. RegularChains <=>
        (oddities = {} => AllFit(frames) /\ (phase = "running" /\ at_word => RegularWord))
  BY DEF RegularChains, AllFit, Fits, FitsOn, Regular
<1>2. RegularChains' <=>
        (oddities' = {} => AllFit(frames') /\ (phase' = "running" /\ at_word' => RegularWord'))
  BY DEF RegularChains, AllFit, Fits, FitsOn, Regular
<1> QED BY <1>1, <1>2

(* The first frame is on none, and the others on one that is there.        *)
LEMMA AllFitAfter ==
  ASSUME Shape', \A k \in DOMAIN frames' : Fits(frames'[k]),
         \A k \in DOMAIN frames' : k # 1 => FitsOn(frames'[k], frames'[k - 1])
  PROVE  AllFit(frames')
<1>1. \A k \in DOMAIN frames' : k = 1 => frames'[k].flags = "Nothing"
  BY DEF Shape, Stacked
<1> QED BY <1>1 DEF AllFit, FitsOn

LEMMA FitReplaced ==
  ASSUME Shape, Shape', AllFit(frames), NEW g, Replaces(g), g.flags = Top.flags, Fits(g)
  PROVE  AllFit(frames')
<1>1. /\ DOMAIN frames' = 1 .. depth /\ DOMAIN frames = 1 .. depth /\ depth \in Nat
      /\ Top = frames[depth] /\ depth >= 1 /\ frames'[depth] = g
  BY TopFrame DEF Replaces, Shape
<1>2. \A k \in 1 .. depth - 1 : frames'[k] = frames[k]
  BY DEF Replaces
<1>3. FitsOn(g, frames[depth - 1])
  BY <1>1 DEF AllFit, FitsOn
<1>4. \A k \in 1 .. depth : Fits(frames'[k])
  BY <1>1, <1>2 DEF AllFit
<1>5. ASSUME NEW k \in 1 .. depth, k # 1
      PROVE  FitsOn(frames'[k], frames'[k - 1])
  <2>1. frames'[k - 1] = frames[k - 1]
    BY <1>1, <1>2, <1>5
  <2>2. CASE k = depth
    BY <1>1, <1>3, <2>1, <2>2
  <2>3. CASE k # depth
    BY <1>1, <1>2, <2>1, <2>3 DEF AllFit
  <2> QED BY <2>2, <2>3
<1> QED BY <1>1, <1>4, <1>5, AllFitAfter

LEMMA FitAdded ==
  ASSUME Shape, Shape', AllFit(frames), NEW g, Adds(g), g.flags = "Nothing", Fits(g)
  PROVE  AllFit(frames')
<1>1. /\ DOMAIN frames' = 1 .. depth + 1 /\ DOMAIN frames = 1 .. depth /\ depth \in Nat
      /\ frames'[depth + 1] = g
  BY NoFrames DEF Adds, Shape
<1>2. \A k \in 1 .. depth : frames'[k] = frames[k]
  BY DEF Adds
<1>3. \A k \in 1 .. depth + 1 : Fits(frames'[k])
  BY <1>1, <1>2 DEF AllFit
<1>4. ASSUME NEW k \in 1 .. depth + 1, k # 1
      PROVE  FitsOn(frames'[k], frames'[k - 1])
  <2>1. CASE k = depth + 1
    BY <1>1, <2>1 DEF FitsOn
  <2>2. CASE k # depth + 1
    <3>1. frames'[k - 1] = frames[k - 1] /\ frames'[k] = frames[k] /\ k \in 1 .. depth
      BY <1>1, <1>2, <1>4, <2>2
    <3> QED BY <1>1, <3>1 DEF AllFit
  <2> QED BY <2>1, <2>2
<1> QED BY <1>1, <1>3, <1>4, AllFitAfter

LEMMA FitPushed ==
  ASSUME Shape, Shape', AllFit(frames), NEW f, NEW g, Pushes(f, g), f.flags = Top.flags,
         Fits(f), Fits(g), FitsOn(g, f)
  PROVE  AllFit(frames')
<1>1. /\ DOMAIN frames' = 1 .. depth + 1 /\ DOMAIN frames = 1 .. depth /\ depth \in Nat
      /\ depth >= 1 /\ Top = frames[depth] /\ frames'[depth] = f /\ frames'[depth + 1] = g
  BY TopFrame DEF Pushes, Shape
<1>2. \A k \in 1 .. depth - 1 : frames'[k] = frames[k]
  BY DEF Pushes
<1>3. \A k \in 1 .. depth + 1 : Fits(frames'[k])
  BY <1>1, <1>2 DEF AllFit
<1>4. FitsOn(f, frames[depth - 1])
  BY <1>1 DEF AllFit, FitsOn
<1>5. ASSUME NEW k \in 1 .. depth + 1, k # 1
      PROVE  FitsOn(frames'[k], frames'[k - 1])
  <2>1. CASE k = depth + 1
    <3>1. frames'[k - 1] = f
      BY <1>1, <2>1
    <3> QED BY <1>1, <2>1, <3>1
  <2>2. CASE k = depth
    <3>1. frames'[k - 1] = frames[k - 1]
      BY <1>1, <1>2, <1>5, <2>2
    <3> QED BY <1>1, <1>4, <2>2, <3>1
  <2>3. CASE k # depth + 1 /\ k # depth
    <3>1. frames'[k - 1] = frames[k - 1] /\ frames'[k] = frames[k] /\ k \in 1 .. depth
      BY <1>1, <1>2, <1>5, <2>3
    <3> QED BY <1>1, <3>1 DEF AllFit
  <2> QED BY <2>1, <2>2, <2>3
<1> QED BY <1>1, <1>3, <1>5, AllFitAfter

LEMMA FitDropped ==
  ASSUME Shape, Shape', AllFit(frames), NEW g, Drops(g), g.flags = Around.flags, Fits(g)
  PROVE  AllFit(frames')
<1>1. /\ DOMAIN frames' = 1 .. depth - 1 /\ DOMAIN frames = 1 .. depth /\ depth \in Nat
      /\ depth >= 2 /\ frames'[depth - 1] = g /\ Around = frames[depth - 1]
  BY NoFrames DEF Drops, Shape, Around
<1>2. \A k \in 1 .. depth - 2 : frames'[k] = frames[k]
  BY DEF Drops
<1>3. FitsOn(g, frames[(depth - 1) - 1])
  BY <1>1 DEF AllFit, FitsOn
<1>4. \A k \in 1 .. depth - 1 : Fits(frames'[k])
  BY SMTT(30), <1>1, <1>2 DEF AllFit
<1>5. ASSUME NEW k \in 1 .. depth - 1, k # 1
      PROVE  FitsOn(frames'[k], frames'[k - 1])
  <2>1. frames'[k - 1] = frames[k - 1]
    BY <1>1, <1>2, <1>5
  <2>2. CASE k = depth - 1
    BY <1>1, <1>3, <2>1, <2>2
  <2>3. CASE k # depth - 1
    BY <1>1, <1>2, <2>1, <2>3 DEF AllFit
  <2> QED BY <2>2, <2>3
<1> QED BY <1>1, <1>4, <1>5, AllFitAfter

----------------------------------------------------------------------------
(* The steps while no oddity has been met.                                 *)

Passes ==
  /\ frames' = frames
  /\ \/ phase' = "error"
     \/ UNCHANGED <<source, at_word, tokens, macro_definitions>>
        /\ (phase' = "running" => phase = "running")

TopLine(l) ==
  /\ frames = <<>> /\ frames' = <<>> /\ Reads(l) /\ at_word' = FALSE
  /\ l.dir \in Texts \cup {"define"}
  /\ tokens' = IF l.dir \in {"text", "else_text"} THEN Append(tokens, Len(source) + 1) ELSE tokens
  /\ macro_definitions' = IF l.dir = "define" THEN macro_definitions \cup {l.arg}
                          ELSE macro_definitions

Begins(l) ==
  /\ Reads(l) /\ at_word' = FALSE /\ l.dir \in Ifs
  /\ Adds(Frame("Nothing", l))
  /\ UNCHANGED <<tokens, macro_definitions>>

WithLine(l) == IF l.dir = "blank" THEN Top.body ELSE Append(Top.body, Len(source) + 1)

TextLine(l) ==
  /\ frames # <<>> /\ Reads(l) /\ at_word' = FALSE /\ l.dir \in Texts
  /\ Top.pc \in {"body", "nested"} /\ WithLine(l) \in Seq(Nat)
  /\ Replaces([Top EXCEPT !.body = WithLine(l), !.pc = "body"])
  /\ UNCHANGED <<tokens, macro_definitions>>

Meets(l) ==
  /\ frames # <<>> /\ Reads(l) /\ at_word' = TRUE /\ l.dir \in Chain
  /\ Top.pc \in {"body", "nested"}
  /\ Top.flags = "StopOnElifElseEndif" => l.dir # "elif"
  /\ Top.flags = "StopOnEndif" => l.dir = "endif"
  /\ Replaces([Top EXCEPT !.pc = "found"])
  /\ UNCHANGED <<tokens, macro_definitions>>

AtWord ==
  /\ frames # <<>> /\ source # <<>> /\ Top \in FrameType /\ at_word /\ RegularWord
  /\ Word \in Chain /\ phase = "running" /\ phase' = "running"
  /\ UNCHANGED <<source, macro_definitions>>

Chaining ==
  AtWord /\ tokens' = tokens /\ (Returns \/ \E flags \in Flags, pc \in Places : Calls(flags, pc) \/ Goes(pc))

Closes(c) ==
  /\ AtWord /\ at_word' = FALSE /\ Ends(c)
  /\ Top.flags = "Nothing" /\ Top.pc = "after_else" /\ Word = "endif"

LEMMA EvenTop ==
  ASSUME Shape, oddities' = {}, Text \/ DirectiveAsText \/ Define \/ Error
  PROVE  Passes \/ \E l \in Lines : TopLine(l)
<1>1. ~DirectiveAsText
  BY DEF DirectiveAsText, Notes
<1>2. CASE Error
  BY <1>2 DEF Error, AtTop, Passes
<1>3. CASE Text
  <2>1. PICK l \in Lines : AtTop(l) /\ l.dir \in Texts
          /\ tokens' = (IF l.dir = "blank" THEN tokens ELSE Append(tokens, LineNo + 1))
          /\ UNCHANGED <<macro_definitions, phase, oddities>>
    BY <1>3 DEF Text
  <2>2. Reads(l) /\ at_word' = FALSE /\ frames = <<>> /\ frames' = <<>>
    <3>1. Reads(l) /\ at_word' = at_word /\ frames = <<>> /\ frames' = <<>>
      BY <2>1 DEF AtTop
    <3>2. ~at_word /\ at_word \in BOOLEAN
      BY <3>1, Reading DEF Shape, TypeOK
    <3> QED BY <3>1, <3>2
  <2>3. l.dir # "define" /\ (l.dir = "blank" <=> l.dir \notin {"text", "else_text"})
    BY <2>1 DEF Texts
  <2> QED BY <2>1, <2>2, <2>3 DEF TopLine, LineNo
<1>4. CASE Define
  <2>1. PICK l \in Lines :
          /\ AtTop(l) /\ l.dir = "define" /\ tokens' = tokens
          /\ phase' = "error" \/ macro_definitions' = macro_definitions \cup {l.arg}
    BY <1>4 DEF Define
  <2>2. Reads(l) /\ at_word' = FALSE /\ frames = <<>> /\ frames' = <<>>
    <3>1. Reads(l) /\ at_word' = at_word /\ frames = <<>> /\ frames' = <<>>
      BY <2>1 DEF AtTop
    <3>2. ~at_word /\ at_word \in BOOLEAN
      BY <3>1, Reading DEF Shape, TypeOK
    <3> QED BY <3>1, <3>2
  <2> QED BY <2>1, <2>2 DEF TopLine, Passes
<1> QED BY <1>1, <1>2, <1>3, <1>4

LEMMA EvenBody ==
  ASSUME Shape, oddities' = {}, If \/ BodyIf \/ BodyText \/ BodyEnds
  PROVE  \E l \in Lines : Begins(l) \/ TextLine(l) \/ Meets(l)
<1>1. CASE If \/ BodyIf
  <2>1. PICK l \in Lines : Reads(l) /\ Adds(Frame("Nothing", l))
    BY <1>1, ShapeIf
  <2>2. PICK k \in Lines : Reads(k) /\ k.dir \in Ifs /\ at_word' = at_word
                           /\ UNCHANGED <<tokens, macro_definitions>>
    <3>1. CASE If
      BY <3>1 DEF If
    <3>2. CASE BodyIf
      BY <3>2 DEF BodyIf, InBody
    <3> QED BY <1>1, <3>1, <3>2
  <2>3. k = l /\ ~at_word /\ at_word \in BOOLEAN
    <3>1. Last(source') = k /\ Last(source') = l /\ ~at_word
      BY <2>1, <2>2, Reading DEF Shape
    <3> QED BY <3>1 DEF Shape, TypeOK
  <2> QED BY <2>1, <2>2, <2>3 DEF Begins
<1>2. CASE BodyText
  <2>1. PICK l \in Lines :
          /\ InBody(l) /\ l.dir \notin Ifs \cup Chain /\ at_word' = at_word
          /\ Notes("directive_in_branch", l.dir \in Directives)
          /\ SetTop([Top EXCEPT !.pc = "body",
                                !.body = IF l.dir = "blank" THEN @ ELSE Append(@, LineNo + 1)])
    BY <1>2 DEF BodyText
  <2>2. /\ frames # <<>> /\ Reads(l) /\ Top.pc \in {"body", "nested"}
        /\ UNCHANGED <<tokens, macro_definitions>>
    BY <2>1 DEF InBody
  <2>3. l.dir \in Texts
    <3>1. l.dir \notin Directives
      BY <2>1 DEF Notes
    <3> QED BY <2>1, <3>1, LinesAssumption
  <2>4. at_word' = FALSE /\ Len(source) \in Nat
    BY <2>1, <2>2, Reading DEF Shape, TypeOK
  <2>5. Top \in FrameType /\ Top.body \in Seq(Nat)
    <3>1. Top \in FrameType
      BY <2>2, TopFrame DEF Shape
    <3> QED BY <3>1 DEF FrameType
  <2>6. WithLine(l) \in Seq(Nat)
    BY <2>4, <2>5, AppendProperties DEF WithLine
  <2>7. SetTop([Top EXCEPT !.body = WithLine(l), !.pc = "body"])
    <3>1. [Top EXCEPT !.pc = "body",
                      !.body = IF l.dir = "blank" THEN @ ELSE Append(@, LineNo + 1)]
           = [Top EXCEPT !.body = WithLine(l), !.pc = "body"]
      BY <2>5 DEF FrameType, WithLine, LineNo
    <3> QED BY <2>1, <3>1
  <2>8. [Top EXCEPT !.body = WithLine(l), !.pc = "body"] \in FrameType
    BY <2>5, <2>6, FrameParts DEF Places
  <2>9. Replaces([Top EXCEPT !.body = WithLine(l), !.pc = "body"])
    BY <2>2, <2>7, <2>8, Replacing DEF Shape
  <2> QED BY <2>2, <2>3, <2>4, <2>6, <2>9 DEF TextLine
<1>3. CASE BodyEnds
  <2>1. PICK l \in Lines :
          /\ InBody(l)
          /\ l.dir \in Chain \/ ElseTextTaken(l)
          /\ oddities' = oddities \cup
               (IF l.dir = "else_text" THEN {"else_text"}
                ELSE IF l.dir = "elif" /\ Top.flags = "StopOnElifElseEndif" THEN {"second_elif"}
                ELSE IF l.dir # "endif" /\ Top.flags = "StopOnEndif" THEN {"after_else"}
                ELSE {})
          /\ Goto("found") /\ at_word' = TRUE
    BY <1>3 DEF BodyEnds
  <2>2. /\ frames # <<>> /\ Reads(l) /\ Top.pc \in {"body", "nested"}
        /\ UNCHANGED <<tokens, macro_definitions>>
    BY <2>1 DEF InBody
  <2>3. /\ l.dir # "else_text"
        /\ ~(l.dir = "elif" /\ Top.flags = "StopOnElifElseEndif")
        /\ ~(l.dir # "endif" /\ Top.flags = "StopOnEndif")
    BY <2>1
  <2>4. l.dir \in Chain
    BY <2>1, <2>3 DEF ElseTextTaken
  <2>5. Top \in FrameType /\ [Top EXCEPT !.pc = "found"] \in FrameType
    <3>1. Top \in FrameType
      BY <2>2, TopFrame DEF Shape
    <3> QED BY <3>1, FrameParts DEF Places
  <2>6. Replaces([Top EXCEPT !.pc = "found"])
    BY <2>1, <2>2, <2>5, Replacing DEF Shape, Goto
  <2> QED BY <2>1, <2>2, <2>3, <2>4, <2>6 DEF Meets
<1> QED BY <1>1, <1>2, <1>3

LEMMA EvenSteps ==
  ASSUME Shape, RegularChains, [Next]_vars, oddities' = {}
  PROVE  \/ Passes
         \/ \E l \in Lines : TopLine(l) \/ Begins(l) \/ TextLine(l) \/ Meets(l)
         \/ Chaining
         \/ \E c : Closes(c)
<1>1. oddities = {}
  BY PhaseAndOddities
<1>2. ASSUME phase = "running", at_word
      PROVE  RegularWord
  BY <1>1, <1>2 DEF RegularChains
<1>3. ~BodyWord
  <2>1. SUFFICES ASSUME BodyWord
                 PROVE  FALSE
    OBVIOUS
  <2>2. Top.pc = "body" /\ RegularWord
    BY <1>2, <2>1, ShapeBodyWord DEF BodyWord, InFrame
  <2> QED BY <2>2 DEF RegularWord
<1>4. CASE Loops
  <2>1. AtWord /\ tokens' = tokens
    BY <1>2, <1>4, LoopSteps DEF AtWord
  <2> QED BY <1>4, <2>1, ShapeLoops DEF Chaining
<1>5. CASE EndChain
  <2>1. CASE phase' = "error" /\ frames' = frames
    BY <2>1 DEF Passes
  <2>2. CASE phase' = "running" /\ \E c : Ends(c)
    <3>1. AtWord /\ at_word' = FALSE /\ Top.flags = "Nothing" /\ Top.pc = "after_else" /\ Word = "endif"
      BY <1>2, <1>5, <2>2, ShapeEndChain DEF AtWord, Chain
    <3> QED BY <2>2, <3>1 DEF Closes
  <2> QED BY <1>5, <2>1, <2>2, ShapeEndChain
<1>6. CASE EndOfFile \/ Stopped \/ UNCHANGED vars
  BY <1>6 DEF EndOfFile, Stopped, vars, Passes
<1> QED BY <1>3, <1>4, <1>5, <1>6, EvenTop, EvenBody DEF Next, Loops

LEMMA RegularNext ==
  ASSUME Shape, RegularChains, [Next]_vars
  PROVE  RegularChains'
<1> SUFFICES ASSUME oddities' = {}
             PROVE  AllFit(frames') /\ (phase' = "running" /\ at_word' => RegularWord')
  BY RegularIsFit
<1>1. Shape' /\ oddities = {} /\ AllFit(frames)
  BY ShapeNext, PhaseAndOddities, RegularIsFit
<1>2. ASSUME frames # <<>>
      PROVE  Top \in FrameType /\ Fits(Top) /\ Top.flags \in Flags
  <2>1. Top \in FrameType /\ Top = frames[depth] /\ depth \in DOMAIN frames
    BY <1>2, TopFrame DEF Shape
  <2> QED BY <1>1, <2>1 DEF AllFit, FrameType
<1>3. CASE Passes
  <2>1. RegularWord /\ UNCHANGED <<source, frames>> => RegularWord'
    BY DEF RegularWord, Word, Top
  <2> QED BY <1>1, <1>3, <2>1, RegularIsFit DEF Passes
<1>4. ASSUME NEW l \in Lines, TopLine(l)
      PROVE  AllFit(frames') /\ ~at_word'
  BY <1>1, <1>4 DEF TopLine
<1>5. ASSUME NEW l \in Lines, Begins(l)
      PROVE  AllFit(frames') /\ ~at_word'
  <2> DEFINE g == Frame("Nothing", l)
  <2>1. g.flags = "Nothing" /\ Fits(g)
    BY <1>5 DEF Begins, Frame, Fits, BranchOf, AtMostOne
  <2> HIDE DEF g
  <2>2. Adds(g)
    BY <1>5 DEF Begins, g
  <2> QED BY <1>1, <1>5, <2>1, <2>2, FitAdded DEF Begins
<1>6. ASSUME NEW l \in Lines, TextLine(l)
      PROVE  AllFit(frames') /\ ~at_word'
  <2> DEFINE g == [Top EXCEPT !.body = WithLine(l), !.pc = "body"]
  <2>1. frames # <<>> /\ Top.pc \in {"body", "nested"} /\ ~at_word' /\ Replaces(g)
    BY <1>6 DEF TextLine
  <2>2. /\ g.flags = Top.flags /\ g.cond = Top.cond /\ g.elifs = Top.elifs
        /\ g.else_branch = Top.else_branch /\ g.pc = "body"
    BY <1>2, <2>1 DEF FrameType
  <2> HIDE DEF g
  <2>3. Fits(g)
    BY <1>2, <2>1, <2>2 DEF Fits
  <2> QED BY <1>1, <2>1, <2>2, <2>3, FitReplaced
<1>7. ASSUME NEW l \in Lines, Meets(l)
      PROVE  AllFit(frames') /\ RegularWord'
  <2> DEFINE g == [Top EXCEPT !.pc = "found"]
  <2>1. frames # <<>> /\ Top.pc \in {"body", "nested"} /\ Replaces(g) /\ Reads(l)
    BY <1>7 DEF Meets
  <2>2. /\ g.flags = Top.flags /\ g.cond = Top.cond /\ g.elifs = Top.elifs
        /\ g.else_branch = Top.else_branch /\ g.pc = "found"
    BY <1>2, <2>1 DEF FrameType
  <2> HIDE DEF g
  <2>3. Fits(g)
    BY <1>2, <2>1, <2>2 DEF Fits
  <2>4. Top' = g /\ Last(source') = l
    BY <2>1, TopAfter, Reading DEF Shape
  <2>5. Word' = l.dir
    BY <1>7, <2>4 DEF Word, Meets, Chain
  <2>6. RegularWord'
    BY <1>7, <2>2, <2>4, <2>5 DEF RegularWord, Meets
  <2> QED BY <1>1, <2>1, <2>2, <2>3, <2>6, FitReplaced
<1>8. CASE Chaining
  <2>1. AtWord /\ Top \in FrameType /\ Fits(Top) /\ Top.flags \in Flags /\ RegularWord /\ Word \in Chain
    BY <1>2, <1>8 DEF Chaining, AtWord
  <2>2. source' = source /\ Word' = Word
    BY <2>1 DEF AtWord, Word
  <2>3. ASSUME Returns
        PROVE  AllFit(frames') /\ RegularWord'
    <3> DEFINE g == Returned
    <3>1. Drops(g) /\ Top.flags # "Nothing" /\ frames # <<>>
      BY <2>1, <2>3 DEF Returns, AtWord
    <3>2. /\ Around \in FrameType /\ depth - 1 \in DOMAIN frames
          /\ Around.pc = IF Top.flags = "StopOnEndif" THEN "after_else" ELSE "after_elif"
      BY <1>1, <3>1, CallerBelow DEF Around, Shape
    <3>3. Fits(Around) /\ FitsOn(Top, Around)
      <4>1. Top = frames[depth] /\ depth \in DOMAIN frames
        BY <3>1, TopFrame DEF Shape
      <4> QED BY <1>1, <3>2, <4>1 DEF AllFit, Around
    <3>4. Around.flags = "Nothing"
      BY <3>2, <3>3 DEF Fits
    <3>5. Contents(Top).cond = Top.cond
      BY DEF Contents
    <3>6. CASE Top.flags = "StopOnElifElseEndif"
      <4>1. /\ g.flags = "Nothing" /\ g.cond = Around.cond /\ g.pc = "after_elif"
            /\ g.elifs = <<Contents(Top)>> /\ g.else_branch = Around.else_branch
        <5>1. Around.elifs = <<>>
          BY <3>3, <3>6 DEF FitsOn
        <5> QED BY <3>2, <3>4, <3>6, <5>1 DEF Returned, Around, FrameType
      <4>2. AtMostOne(<<Contents(Top)>>, "elif")
        BY <2>1, <3>5, <3>6 DEF AtMostOne, Fits, BranchOf
      <4> HIDE DEF g
      <4>3. Fits(g)
        BY <3>2, <3>3, <3>4, <3>6, <4>1, <4>2 DEF Fits
      <4>4. Top' = g
        BY <3>1, TopAfter DEF Shape, g
      <4>5. RegularWord'
        BY <2>1, <2>2, <3>6, <4>1, <4>4 DEF RegularWord
      <4> QED BY <1>1, <3>1, <3>4, <4>1, <4>3, <4>5, FitDropped
    <3>7. CASE Top.flags = "StopOnEndif"
      <4>1. /\ g.flags = "Nothing" /\ g.cond = Around.cond /\ g.pc = "after_else"
            /\ g.else_branch = <<Contents(Top)>> /\ g.elifs = Around.elifs
        BY <3>2, <3>4, <3>7 DEF Returned, Around, FrameType
      <4>2. AtMostOne(<<Contents(Top)>>, "else")
        BY <2>1, <3>5, <3>7 DEF AtMostOne, Fits, BranchOf
      <4> HIDE DEF g
      <4>3. Fits(g)
        BY <3>2, <3>3, <3>4, <3>7, <4>1, <4>2 DEF Fits
      <4>4. Top' = g
        BY <3>1, TopAfter DEF Shape, g
      <4>5. RegularWord'
        BY <2>1, <2>2, <3>7, <4>1, <4>4 DEF RegularWord
      <4> QED BY <1>1, <3>1, <3>4, <4>1, <4>3, <4>5, FitDropped
    <3> QED BY <2>1, <3>1, <3>6, <3>7 DEF Flags
  <2>4. ASSUME NEW flags \in Flags, NEW pc \in Places, Calls(flags, pc)
        PROVE  AllFit(frames') /\ ~at_word'
    <3> DEFINE f == [Top EXCEPT !.pc = pc]
               g == Frame(flags, Last(source))
    <3>1. /\ Pushes(f, g) /\ ~at_word'
          /\ \/ flags = "StopOnElifElseEndif" /\ pc = "after_elif" /\ Word = "elif"
                /\ Top.pc = "found"
             \/ flags = "StopOnEndif" /\ pc = "after_else" /\ Word = "else"
                /\ Top.pc = "after_elif"
      BY <2>4 DEF Calls
    <3>2. /\ f.flags = Top.flags /\ f.cond = Top.cond /\ f.elifs = Top.elifs
          /\ f.else_branch = Top.else_branch /\ f.pc = pc
      BY <2>1 DEF FrameType
    <3>3. /\ g.flags = flags /\ g.cond = Last(source) /\ g.elifs = <<>>
          /\ g.else_branch = <<>> /\ g.pc = "body"
      BY DEF Frame
    <3> HIDE DEF f, g
    <3>4. Last(source).dir = Word
      BY <2>1 DEF RegularWord
    <3>5. Top.flags = "Nothing"
      BY <2>1, <3>1 DEF RegularWord, Fits, Flags
    <3>6. Fits(g)
      BY <3>1, <3>3, <3>4 DEF Fits, BranchOf, AtMostOne
    <3>7. Fits(f) /\ FitsOn(g, f)
      BY <2>1, <3>1, <3>2, <3>3, <3>5 DEF Fits, FitsOn
    <3> QED BY <1>1, <3>1, <3>2, <3>6, <3>7, FitPushed
  <2>5. ASSUME NEW pc \in Places, Goes(pc)
        PROVE  AllFit(frames') /\ RegularWord'
    <3> DEFINE f == [Top EXCEPT !.pc = pc]
    <3>1. /\ Replaces(f)
          /\ \/ /\ pc = "after_elif" /\ Top.pc = "found" /\ Word # "elif" /\ ~EndsHere
                /\ Top.flags # "StopOnElifElseEndif"
             \/ pc = "after_else" /\ Top.pc = "after_elif" /\ Word # "else" /\ ~EndsHere
             \/ pc = "body" /\ Top.pc = "after_else" /\ Word = "elif" /\ Top.flags = "Nothing"
      BY <2>5 DEF Goes
    <3>2. /\ f.flags = Top.flags /\ f.cond = Top.cond /\ f.elifs = Top.elifs
          /\ f.else_branch = Top.else_branch /\ f.pc = pc
      BY <2>1 DEF FrameType
    <3> HIDE DEF f
    <3>3. Top.flags = "Nothing" /\ pc # "body"
      BY <2>1, <3>1 DEF RegularWord, Fits, EndsHere, Flags
    <3>4. Fits(f)
      BY <2>1, <3>1, <3>2, <3>3 DEF Fits
    <3>5. Top' = f
      BY <3>1, TopAfter DEF Shape
    <3>6. RegularWord'
      BY <2>1, <2>2, <3>1, <3>2, <3>3, <3>5 DEF RegularWord, Chain
    <3> QED BY <1>1, <3>1, <3>2, <3>4, <3>6, FitReplaced
  <2> QED BY <1>8, <2>3, <2>4, <2>5 DEF Chaining
<1>9. ASSUME NEW c, Closes(c)
      PROVE  AllFit(frames') /\ ~at_word'
  <2>1. CASE frames' = <<>>
    BY <1>9, <2>1 DEF AllFit, Closes
  <2>2. CASE /\ depth >= 2 /\ Around \in FrameType /\ Around.pc \in {"body", "nested"}
             /\ Drops(Ended(c))
    <3> DEFINE g == Ended(c)
    <3>1. /\ g.flags = Around.flags /\ g.cond = Around.cond /\ g.elifs = Around.elifs
          /\ g.else_branch = Around.else_branch /\ g.pc = "nested"
      BY <2>2 DEF Ended, FrameType
    <3> HIDE DEF g
    <3>2. Fits(Around)
      <4>1. depth - 1 \in DOMAIN frames
        BY <2>2, NoFrames DEF Shape
      <4> QED BY <1>1, <4>1 DEF AllFit, Around
    <3>3. Fits(g)
      BY <2>2, <3>1, <3>2 DEF Fits
    <3>4. Drops(g)
      BY <2>2 DEF g
    <3> QED BY <1>1, <1>9, <3>1, <3>3, <3>4, FitDropped DEF Closes
  <2> QED BY <1>9, <2>1, <2>2 DEF Closes, Ends
<1> QED BY <1>3, <1>4, <1>5, <1>6, <1>7, <1>8, <1>9, EvenSteps

----------------------------------------------------------------------------
(* What the lines mean, and what the frames replay, are recursive          *)
(* functions that exist and depend on the lines and frames up to n only.   *)

IsMeaning(f, src, n) ==
  f = [k \in 0 .. n |-> IF k = 0 THEN Start ELSE Meant(f[k - 1], k, src[k])]

LEMMA MeaningExists ==
  ASSUME NEW src, NEW N \in Nat
  PROVE  \E f : IsMeaning(f, src, N)
<1> DEFINE T == {n \in Nat : \E f : IsMeaning(f, src, n)}
<1>1. 0 \in T
  <2> DEFINE g == [k \in 0 .. 0 |-> Start]
  <2>1. IsMeaning(g, src, 0)
    BY DEF IsMeaning
  <2> QED BY <2>1
<1>2. ASSUME NEW n \in Nat, n \in T
      PROVE  n + 1 \in T
  <2>1. PICK f : IsMeaning(f, src, n)
    BY <1>2
  <2>2. f = [k \in 0 .. n |-> IF k = 0 THEN Start ELSE Meant(f[k - 1], k, src[k])]
    BY <2>1 DEF IsMeaning
  <2>3. PICK m \in Nat : m = n + 1
    OBVIOUS
  <2> DEFINE g == [k \in 0 .. m |-> IF k = m THEN Meant(f[n], m, src[m]) ELSE f[k]]
             e(k) == IF k = 0 THEN Start ELSE Meant(g[k - 1], k, src[k])
  <2>4. ASSUME NEW k \in 0 .. m
        PROVE  g[k] = e(k)
    <3>1. CASE k = m
      <4>1. k # 0 /\ k - 1 = n /\ g[n] = f[n]
        BY <2>3, <3>1
      <4> QED BY <3>1, <4>1
    <3>2. CASE k # m /\ k = 0
      <4>1. k \in 0 .. n
        BY <2>3, <3>2
      <4>2. f[k] = Start
        BY <2>2, <3>2, <4>1
      <4> QED BY <3>2, <4>2
    <3>3. CASE k # m /\ k # 0
      <4>1. k \in 0 .. n /\ k - 1 \in 0 .. m /\ k - 1 # m
        BY <2>3, <3>3
      <4>2. f[k] = Meant(f[k - 1], k, src[k]) /\ g[k - 1] = f[k - 1]
        BY <2>2, <3>3, <4>1
      <4> QED BY <3>3, <4>2
    <3> QED BY <3>1, <3>2, <3>3
  <2>5. g = [k \in 0 .. m |-> e(k)]
    <3>1. g = [k \in 0 .. m |-> g[k]]
      OBVIOUS
    <3> HIDE DEF g, e
    <3> QED BY <2>4, <3>1
  <2> HIDE DEF g
  <2>6. IsMeaning(g, src, m)
    BY <2>5, Zenon DEF IsMeaning
  <2>7. m \in T
    BY <2>3, <2>6
  <2> QED BY <2>3, <2>7
<1>3. Nat \subseteq T
  <2> HIDE DEF T
  <2> QED BY <1>1, <1>2, NatInd
<1> QED BY <1>3

LEMMA MeaningAgrees ==
  ASSUME NEW src, NEW new, NEW n \in Nat, NEW m \in Nat, NEW f, IsMeaning(f, src, n),
         NEW g, IsMeaning(g, new, m), NEW N \in Nat, N <= n, N <= m,
         \A i \in 1 .. N : new[i] = src[i]
  PROVE  f[N] = g[N]
<1> DEFINE T == {k \in Nat : k <= N => f[k] = g[k]}
<1>1. /\ f = [k \in 0 .. n |-> IF k = 0 THEN Start ELSE Meant(f[k - 1], k, src[k])]
      /\ g = [k \in 0 .. m |-> IF k = 0 THEN Start ELSE Meant(g[k - 1], k, new[k])]
  BY DEF IsMeaning
<1>2. 0 \in T
  BY <1>1
<1>3. ASSUME NEW k \in Nat, k \in T
      PROVE  k + 1 \in T
  <2>1. PICK j \in Nat : j = k + 1
    OBVIOUS
  <2>2. ASSUME j <= N
        PROVE  f[j] = g[j]
    <3>1. j # 0 /\ j - 1 = k /\ j \in 0 .. n /\ j \in 0 .. m /\ j \in 1 .. N /\ f[k] = g[k]
      BY <1>3, <2>1, <2>2
    <3>2. f[j] = Meant(f[k], j, src[j]) /\ g[j] = Meant(g[k], j, new[j])
      BY <1>1, <3>1
    <3> QED BY <3>1, <3>2
  <2> QED BY <2>1, <2>2
<1>4. Nat \subseteq T
  <2> HIDE DEF T
  <2> QED BY <1>2, <1>3, NatInd
<1> QED BY <1>4

LEMMA MeaningIs ==
  ASSUME NEW src, NEW n \in Nat
  PROVE  \E f : IsMeaning(f, src, n) /\ MeantUpTo(src, n) = f[n]
<1>1. \E f : IsMeaning(f, src, n)
  BY MeaningExists
<1> DEFINE h == CHOOSE f : f = [k \in 0 .. n |-> IF k = 0 THEN Start ELSE Meant(f[k - 1], k, src[k])]
<1>2. MeantUpTo(src, n) = h[n]
  BY DEF MeantUpTo
<1>3. h = [k \in 0 .. n |-> IF k = 0 THEN Start ELSE Meant(h[k - 1], k, src[k])]
  BY <1>1, Zenon DEF IsMeaning
<1> HIDE DEF h
<1> QED BY <1>2, <1>3 DEF IsMeaning

LEMMA MeaningUnfolds ==
  ASSUME NEW src, NEW n \in Nat
  PROVE  /\ MeantUpTo(src, 0) = Start
         /\ \A m \in Nat : m = n + 1 => MeantUpTo(src, m) = Meant(MeantUpTo(src, n), m, src[m])
         /\ \A new : (\A i \in 1 .. n : new[i] = src[i]) => MeantUpTo(new, n) = MeantUpTo(src, n)
<1>1. MeantUpTo(src, 0) = Start
  <2>1. 0 \in Nat
    OBVIOUS
  <2>2. PICK f : IsMeaning(f, src, 0) /\ MeantUpTo(src, 0) = f[0]
    BY <2>1, MeaningIs
  <2> QED BY <2>2 DEF IsMeaning
<1>2. PICK f : IsMeaning(f, src, n) /\ MeantUpTo(src, n) = f[n]
  BY MeaningIs
<1>3. ASSUME NEW m \in Nat, m = n + 1
      PROVE  MeantUpTo(src, m) = Meant(MeantUpTo(src, n), m, src[m])
  <2>1. PICK g : IsMeaning(g, src, m) /\ MeantUpTo(src, m) = g[m]
    BY MeaningIs
  <2>2. g = [k \in 0 .. m |-> IF k = 0 THEN Start ELSE Meant(g[k - 1], k, src[k])]
    BY <2>1 DEF IsMeaning
  <2>3. m # 0 /\ m - 1 = n /\ m \in 0 .. m /\ n <= n /\ n <= m
    BY <1>3
  <2>4. g[m] = Meant(g[n], m, src[m])
    BY <2>2, <2>3
  <2>5. f[n] = g[n]
    BY <1>2, <2>1, <2>3, MeaningAgrees
  <2> QED BY <1>2, <2>1, <2>4, <2>5
<1>4. ASSUME NEW new, \A i \in 1 .. n : new[i] = src[i]
      PROVE  MeantUpTo(new, n) = MeantUpTo(src, n)
  <2>1. PICK g : IsMeaning(g, new, n) /\ MeantUpTo(new, n) = g[n]
    BY MeaningIs
  <2>2. n <= n
    OBVIOUS
  <2>3. f[n] = g[n]
    BY <1>2, <1>4, <2>1, <2>2, MeaningAgrees
  <2> QED BY <1>2, <2>1, <2>3
<1> QED BY <1>1, <1>3, <1>4

IsReplay(f, s, fs, n) ==
  f = [k \in 0 .. n |-> IF k = 0 THEN s ELSE With(f[k - 1], fs[k])]

LEMMA ReplayExists ==
  ASSUME NEW s, NEW fs, NEW N \in Nat
  PROVE  \E f : IsReplay(f, s, fs, N)
<1> DEFINE T == {n \in Nat : \E f : IsReplay(f, s, fs, n)}
<1>1. 0 \in T
  <2> DEFINE g == [k \in 0 .. 0 |-> s]
  <2>1. IsReplay(g, s, fs, 0)
    BY DEF IsReplay
  <2> QED BY <2>1
<1>2. ASSUME NEW n \in Nat, n \in T
      PROVE  n + 1 \in T
  <2>1. PICK f : IsReplay(f, s, fs, n)
    BY <1>2
  <2>2. f = [k \in 0 .. n |-> IF k = 0 THEN s ELSE With(f[k - 1], fs[k])]
    BY <2>1 DEF IsReplay
  <2>3. PICK m \in Nat : m = n + 1
    OBVIOUS
  <2> DEFINE g == [k \in 0 .. m |-> IF k = m THEN With(f[n], fs[m]) ELSE f[k]]
             e(k) == IF k = 0 THEN s ELSE With(g[k - 1], fs[k])
  <2>4. ASSUME NEW k \in 0 .. m
        PROVE  g[k] = e(k)
    <3>1. CASE k = m
      <4>1. k # 0 /\ k - 1 = n /\ g[n] = f[n]
        BY <2>3, <3>1
      <4> QED BY <3>1, <4>1
    <3>2. CASE k # m /\ k = 0
      <4>1. k \in 0 .. n
        BY <2>3, <3>2
      <4>2. f[k] = s
        BY <2>2, <3>2, <4>1
      <4> QED BY <3>2, <4>2
    <3>3. CASE k # m /\ k # 0
      <4>1. k \in 0 .. n /\ k - 1 \in 0 .. m /\ k - 1 # m
        BY <2>3, <3>3
      <4>2. f[k] = With(f[k - 1], fs[k]) /\ g[k - 1] = f[k - 1]
        BY <2>2, <3>3, <4>1
      <4> QED BY <3>3, <4>2
    <3> QED BY <3>1, <3>2, <3>3
  <2>5. g = [k \in 0 .. m |-> e(k)]
    <3>1. g = [k \in 0 .. m |-> g[k]]
      OBVIOUS
    <3> HIDE DEF g, e
    <3> QED BY <2>4, <3>1
  <2> HIDE DEF g
  <2>6. IsReplay(g, s, fs, m)
    BY <2>5, Zenon DEF IsReplay
  <2>7. m \in T
    BY <2>3, <2>6
  <2> QED BY <2>3, <2>7
<1>3. Nat \subseteq T
  <2> HIDE DEF T
  <2> QED BY <1>1, <1>2, NatInd
<1> QED BY <1>3

LEMMA ReplayAgrees ==
  ASSUME NEW s, NEW fs, NEW new, NEW n \in Nat, NEW m \in Nat, NEW f, IsReplay(f, s, fs, n),
         NEW g, IsReplay(g, s, new, m), NEW N \in Nat, N <= n, N <= m,
         \A i \in 1 .. N : new[i] = fs[i]
  PROVE  f[N] = g[N]
<1> DEFINE T == {k \in Nat : k <= N => f[k] = g[k]}
<1>1. /\ f = [k \in 0 .. n |-> IF k = 0 THEN s ELSE With(f[k - 1], fs[k])]
      /\ g = [k \in 0 .. m |-> IF k = 0 THEN s ELSE With(g[k - 1], new[k])]
  BY DEF IsReplay
<1>2. 0 \in T
  BY <1>1
<1>3. ASSUME NEW k \in Nat, k \in T
      PROVE  k + 1 \in T
  <2>1. PICK j \in Nat : j = k + 1
    OBVIOUS
  <2>2. ASSUME j <= N
        PROVE  f[j] = g[j]
    <3>1. j # 0 /\ j - 1 = k /\ j \in 0 .. n /\ j \in 0 .. m /\ j \in 1 .. N /\ f[k] = g[k]
      BY <1>3, <2>1, <2>2
    <3>2. f[j] = With(f[k], fs[j]) /\ g[j] = With(g[k], new[j])
      BY <1>1, <3>1
    <3> QED BY <3>1, <3>2
  <2> QED BY <2>1, <2>2
<1>4. Nat \subseteq T
  <2> HIDE DEF T
  <2> QED BY <1>2, <1>3, NatInd
<1> QED BY <1>4

LEMMA ReplayIs ==
  ASSUME NEW s, NEW fs, NEW n \in Nat
  PROVE  \E f : IsReplay(f, s, fs, n) /\ Replayed(s, fs, n) = f[n]
<1>1. \E f : IsReplay(f, s, fs, n)
  BY ReplayExists
<1> DEFINE h == CHOOSE f : f = [k \in 0 .. n |-> IF k = 0 THEN s ELSE With(f[k - 1], fs[k])]
<1>2. Replayed(s, fs, n) = h[n]
  BY DEF Replayed
<1>3. h = [k \in 0 .. n |-> IF k = 0 THEN s ELSE With(h[k - 1], fs[k])]
  BY <1>1, Zenon DEF IsReplay
<1> HIDE DEF h
<1> QED BY <1>2, <1>3 DEF IsReplay

LEMMA ReplayUnfolds ==
  ASSUME NEW s, NEW fs, NEW n \in Nat
  PROVE  /\ Replayed(s, fs, 0) = s
         /\ \A m \in Nat : m = n + 1 => Replayed(s, fs, m) = With(Replayed(s, fs, n), fs[m])
         /\ \A new : (\A i \in 1 .. n : new[i] = fs[i]) => Replayed(s, new, n) = Replayed(s, fs, n)
<1>1. Replayed(s, fs, 0) = s
  <2>1. 0 \in Nat
    OBVIOUS
  <2>2. PICK f : IsReplay(f, s, fs, 0) /\ Replayed(s, fs, 0) = f[0]
    BY <2>1, ReplayIs
  <2> QED BY <2>2 DEF IsReplay
<1>2. PICK f : IsReplay(f, s, fs, n) /\ Replayed(s, fs, n) = f[n]
  BY ReplayIs
<1>3. ASSUME NEW m \in Nat, m = n + 1
      PROVE  Replayed(s, fs, m) = With(Replayed(s, fs, n), fs[m])
  <2>1. PICK g : IsReplay(g, s, fs, m) /\ Replayed(s, fs, m) = g[m]
    BY ReplayIs
  <2>2. g = [k \in 0 .. m |-> IF k = 0 THEN s ELSE With(g[k - 1], fs[k])]
    BY <2>1 DEF IsReplay
  <2>3. m # 0 /\ m - 1 = n /\ m \in 0 .. m /\ n <= n /\ n <= m
    BY <1>3
  <2>4. g[m] = With(g[n], fs[m])
    BY <2>2, <2>3
  <2>5. f[n] = g[n]
    BY <1>2, <2>1, <2>3, ReplayAgrees
  <2> QED BY <1>2, <2>1, <2>4, <2>5
<1>4. ASSUME NEW new, \A i \in 1 .. n : new[i] = fs[i]
      PROVE  Replayed(s, new, n) = Replayed(s, fs, n)
  <2>1. PICK g : IsReplay(g, s, new, n) /\ Replayed(s, new, n) = g[n]
    BY ReplayIs
  <2>2. n <= n
    OBVIOUS
  <2>3. f[n] = g[n]
    BY <1>2, <1>4, <2>1, <2>2, ReplayAgrees
  <2> QED BY <1>2, <2>1, <2>3
<1> QED BY <1>1, <1>3, <1>4

----------------------------------------------------------------------------
(* States of the conditional sections.                                     *)

Section == [active : BOOLEAN, done : BOOLEAN]

State(o, p, d) == [out |-> o, open |-> p, defined |-> d]

IsState(s) ==
  /\ s = State(s.out, s.open, s.defined)
  /\ s.out \in Seq(Nat) /\ s.open \in Seq(Section)

LEMMA StateIs ==
  ASSUME NEW o \in Seq(Nat), NEW p \in Seq(Section), NEW d, NEW s, s = State(o, p, d)
  PROVE  IsState(s) /\ s.out = o /\ s.open = p /\ s.defined = d
BY DEF State, IsState

LEMMA StateChanges ==
  ASSUME NEW s, IsState(s)
  PROVE  /\ \A b : [s EXCEPT !.out = b] = State(b, s.open, s.defined)
         /\ \A b : [s EXCEPT !.open = b] = State(s.out, b, s.defined)
         /\ \A b : [s EXCEPT !.defined = b] = State(s.out, s.open, b)
<1>1. PICK o, p, d : s = [out |-> o, open |-> p, defined |-> d]
  BY DEF IsState, State
<1>2. s.out = o /\ s.open = p /\ s.defined = d
  BY <1>1
<1> QED BY <1>1, <1>2 DEF State

LEMMA Taking ==
  ASSUME NEW s, IsState(s), NEW b \in Seq(Nat)
  PROVE  /\ IsState(Took(s, b))
         /\ Took(s, b).open = s.open /\ Took(s, b).defined = s.defined
         /\ Active(s) => Took(s, b) = State(s.out \o b, s.open, s.defined)
         /\ ~Active(s) => Took(s, b) = s
         /\ b = <<>> => Took(s, b) = s
         /\ Active(Took(s, b)) = Active(s)
<1>1. s = State(s.out, s.open, s.defined) /\ s.out \in Seq(Nat) /\ s.open \in Seq(Section)
  BY DEF IsState
<1>2. s.out \o b \in Seq(Nat) /\ (b = <<>> => s.out \o b = s.out)
  BY <1>1, ConcatProperties, ConcatEmptySeq
<1>3. [s EXCEPT !.out = s.out \o b] = State(s.out \o b, s.open, s.defined)
  BY StateChanges
<1>4. Took(s, b) = IF Active(s) THEN State(s.out \o b, s.open, s.defined) ELSE s
  BY <1>3 DEF Took
<1>5. /\ IsState(Took(s, b))
      /\ Took(s, b).open = s.open /\ Took(s, b).defined = s.defined
  <2>1. CASE Active(s)
    <3>1. PICK o \in Seq(Nat) : o = s.out \o b
      BY <1>2
    <3>2. PICK t : t = Took(s, b)
      OBVIOUS
    <3>3. t = State(o, s.open, s.defined)
      BY <1>4, <2>1, <3>1, <3>2
    <3>4. IsState(t) /\ t.open = s.open /\ t.defined = s.defined
      BY <1>1, <3>3, StateIs
    <3> QED BY <3>2, <3>4
  <2>2. CASE ~Active(s)
    BY <1>4, <2>2
  <2> QED BY <2>1, <2>2
<1> QED BY <1>1, <1>2, <1>4, <1>5 DEF Active

LEMMA TakingBoth ==
  ASSUME NEW s, IsState(s), NEW b \in Seq(Nat), NEW c \in Seq(Nat)
  PROVE  Took(Took(s, b), c) = Took(s, b \o c)
<1>1. /\ s.out \in Seq(Nat) /\ b \o c \in Seq(Nat)
      /\ (s.out \o b) \o c = s.out \o (b \o c)
  <2>1. s.out \in Seq(Nat)
    BY DEF IsState
  <2>2. b \o c \in Seq(Nat)
    BY ConcatProperties
  <2>3. (s.out \o b) \o c = s.out \o (b \o c)
    <3>1. PICK o \in Seq(Nat) : o = s.out
      BY <2>1
    <3>2. (o \o b) \o c = o \o (b \o c)
      BY SMTT(30), ConcatAssociative
    <3> QED BY <3>1, <3>2
  <2> QED BY <2>1, <2>2, <2>3
<1> DEFINE t == Took(s, b)
<1>2. IsState(t) /\ Active(t) = Active(s)
  BY Taking
<1>3. CASE ~Active(s)
  <2>1. t = s /\ Took(s, c) = s /\ Took(s, b \o c) = s
    BY <1>1, <1>3, Taking
  <2> QED BY <2>1
<1>4. CASE Active(s)
  <2>1. /\ t.out = s.out \o b /\ t.open = s.open /\ t.defined = s.defined
    <3>1. t = State(s.out \o b, s.open, s.defined)
      BY <1>4, Taking
    <3> QED BY <3>1 DEF State
  <2>2. Active(t)
    BY <1>2, <1>4
  <2> HIDE DEF t
  <2>3. Took(t, c) = State(t.out \o c, t.open, t.defined)
    BY <1>2, <2>2, Taking
  <2>4. Took(s, b \o c) = State(s.out \o (b \o c), s.open, s.defined)
    BY <1>1, <1>4, Taking
  <2> QED BY <1>1, <2>1, <2>3, <2>4 DEF t
<1> QED BY <1>3, <1>4

LEMMA Entering ==
  ASSUME NEW s, IsState(s), NEW l
  PROVE  /\ IsState(Entered(s, l)) /\ Entered(s, l).defined = s.defined
         /\ Entered(s, l) = State(s.out, Append(s.open, Open(s, l)), s.defined)
         /\ Open(s, l) \in Section
         /\ Entered(s, l).open # <<>>
<1>1. s = State(s.out, s.open, s.defined) /\ s.out \in Seq(Nat) /\ s.open \in Seq(Section)
  BY DEF IsState
<1>2. Open(s, l) \in Section
  BY DEF Open, Section
<1> DEFINE q == Append(s.open, Open(s, l))
<1>3. q \in Seq(Section) /\ q # <<>>
  BY <1>1, <1>2, AppendProperties
<1>4. Entered(s, l) = [s EXCEPT !.open = q]
  BY DEF Entered
<1> HIDE DEF q
<1>5. Entered(s, l) = State(s.out, q, s.defined)
  BY <1>4, StateChanges
<1>6. /\ IsState(Entered(s, l)) /\ Entered(s, l).defined = s.defined
      /\ Entered(s, l).open = q
  BY <1>1, <1>3, <1>5, StateIs
<1> QED BY <1>2, <1>3, <1>5, <1>6 DEF q

LEMMA Turning ==
  ASSUME NEW s, IsState(s), s.open # <<>>, NEW l
  PROVE  /\ IsState(Turned(s, l)) /\ Turned(s, l).defined = s.defined
         /\ Turned(s, l) = State(s.out, Append(Front(s.open),
                  NextBranch(Last(s.open), l.dir = "else" \/ l.arg = "1")), s.defined)
         /\ Turned(s, l).open # <<>>
<1>1. s = State(s.out, s.open, s.defined) /\ s.out \in Seq(Nat) /\ s.open \in Seq(Section)
  BY DEF IsState
<1> DEFINE b == NextBranch(Last(s.open), l.dir = "else" \/ l.arg = "1")
           q == Append(Front(s.open), b)
<1>2. b \in Section
  <2>1. Last(s.open) \in Section
    BY <1>1, FrontAndLast
  <2> QED BY <2>1 DEF NextBranch, Section
<1> HIDE DEF b
<1>3. q \in Seq(Section) /\ q # <<>>
  <2>1. PICK p \in Seq(Section) : p = s.open
    BY <1>1
  <2>2. Front(p) \in Seq(Section)
    BY <2>1, FrontAndLast
  <2> QED BY <1>2, <2>1, <2>2, AppendProperties
<1>4. Turned(s, l) = [s EXCEPT !.open = q]
  BY DEF Turned, b
<1> HIDE DEF q
<1>5. Turned(s, l) = State(s.out, q, s.defined)
  BY <1>4, StateChanges
<1>6. /\ IsState(Turned(s, l)) /\ Turned(s, l).defined = s.defined
      /\ Turned(s, l).open = q
  BY <1>1, <1>3, <1>5, StateIs
<1> QED BY <1>3, <1>5, <1>6 DEF q, b

LEMMA AddingBranches ==
  ASSUME NEW s, IsState(s), s.open # <<>>, NEW bs \in Seq(Branch)
  PROVE  IsState(Also(s, bs)) /\ Also(s, bs).open # <<>> /\ Also(s, bs).defined = s.defined
<1>1. CASE bs = <<>>
  BY <1>1 DEF Also
<1>2. CASE bs # <<>>
  <2>1. bs[1] \in Branch
    BY <1>2
  <2>2. bs[1].body \in Seq(Nat)
    BY <2>1 DEF Branch
  <2> DEFINE t == Turned(s, bs[1].cond)
  <2>3. IsState(t) /\ t.open # <<>> /\ t.defined = s.defined
    BY Turning
  <2>4. Also(s, bs) = Took(t, bs[1].body)
    BY <1>2 DEF Also
  <2> HIDE DEF t
  <2> QED BY <2>2, <2>3, <2>4, Taking
<1> QED BY <1>1, <1>2

LEMMA Beginning ==
  ASSUME NEW s, IsState(s), NEW f \in FrameType, f.flags # "Nothing" => s.open # <<>>
  PROVE  /\ IsState(First(s, f)) /\ First(s, f).open # <<>> /\ First(s, f).defined = s.defined
         /\ IsState(With(s, f)) /\ With(s, f).open # <<>> /\ With(s, f).defined = s.defined
<1>1. f.body \in Seq(Nat) /\ f.elifs \in Seq(Branch) /\ f.else_branch \in Seq(Branch)
  BY FrameParts
<1>2. IsState(First(s, f)) /\ First(s, f).open # <<>> /\ First(s, f).defined = s.defined
  <2> DEFINE t == IF f.flags = "Nothing" THEN Entered(s, f.cond) ELSE Turned(s, f.cond)
  <2>1. IsState(t) /\ t.open # <<>> /\ t.defined = s.defined
    BY Entering, Turning
  <2>2. First(s, f) = Took(t, f.body)
    BY DEF First
  <2> HIDE DEF t
  <2> QED BY <1>1, <2>1, <2>2, Taking
<1> DEFINE t == First(s, f)
           u == Also(t, f.elifs)
<1> HIDE DEF t
<1>3. IsState(u) /\ u.open # <<>> /\ u.defined = s.defined
  BY <1>1, <1>2, AddingBranches DEF t
<1>4. With(s, f) = Also(u, f.else_branch)
  BY DEF With, t
<1> HIDE DEF u
<1>5. IsState(With(s, f)) /\ With(s, f).open # <<>> /\ With(s, f).defined = s.defined
  BY <1>1, <1>3, <1>4, AddingBranches
<1> QED BY <1>2, <1>5

(* What the frames up to the k-th replay.                                  *)
LEMMA ReplayStates ==
  ASSUME Shape, NEW n \in 0 .. depth
  PROVE  /\ IsState(Replayed(Base, frames, n))
         /\ Replayed(Base, frames, n).defined = macro_definitions
         /\ n # 0 => Replayed(Base, frames, n).open # <<>>
<1> DEFINE R(k) == Replayed(Base, frames, k)
           T == {k \in Nat : k <= depth =>
                   /\ IsState(R(k)) /\ R(k).defined = macro_definitions
                   /\ k # 0 => R(k).open # <<>>}
<1>1. DOMAIN frames = 1 .. depth /\ depth \in Nat /\ \A k \in 1 .. depth : frames[k] \in FrameType
  BY NoFrames DEF Shape, TypeOK
<1>2. 0 \in T
  <2>1. R(0) = Base
    BY ReplayUnfolds
  <2>2. Base = State(tokens, <<>>, macro_definitions)
    BY DEF Base, State
  <2>3. tokens \in Seq(Nat) /\ <<>> \in Seq(Section)
    BY DEF Shape, TypeOK
  <2>4. IsState(Base) /\ Base.defined = macro_definitions
    <3>1. PICK p \in Seq(Section) : p = <<>>
      BY <2>3
    <3>2. Base = State(tokens, p, macro_definitions)
      BY <2>2, <3>1
    <3> QED BY <2>3, <3>2, StateIs
  <2> HIDE DEF R
  <2> QED BY <2>1, <2>4
<1>3. ASSUME NEW k \in Nat, k \in T
      PROVE  k + 1 \in T
  <2>1. PICK m \in Nat : m = k + 1
    OBVIOUS
  <2>2. ASSUME m <= depth
        PROVE  /\ IsState(R(m)) /\ R(m).defined = macro_definitions
               /\ m # 0 => R(m).open # <<>>
    <3>1. R(m) = With(R(k), frames[m])
      BY <2>1, ReplayUnfolds
    <3>2. /\ IsState(R(k)) /\ R(k).defined = macro_definitions
          /\ k # 0 => R(k).open # <<>>
      BY <1>1, <1>3, <2>1, <2>2
    <3> HIDE DEF R
    <3>3. frames[m] \in FrameType
      BY <1>1, <2>1, <2>2
    <3>4. k = 0 => frames[m].flags = "Nothing"
      BY <1>1, <2>1, <2>2 DEF Shape, Stacked
    <3> QED BY <3>1, <3>2, <3>3, <3>4, Beginning
  <2> HIDE DEF R
  <2> QED BY <2>1, <2>2
<1>4. Nat \subseteq T
  <2> HIDE DEF T
  <2> QED BY <1>2, <1>3, NatInd
<1>5. n \in T /\ n <= depth
  BY <1>1, <1>4
<1> QED BY <1>5

----------------------------------------------------------------------------
(* handle_if_chain takes the branch that the meaning of the chain takes.   *)

LEMMA FrontOfAppend ==
  ASSUME NEW S, NEW p \in Seq(S), NEW q \in S
  PROVE  Front(Append(p, q)) = p /\ Last(Append(p, q)) = q
<1> DEFINE r == Append(p, q)
<1>1. r \in Seq(S) /\ Len(r) = Len(p) + 1 /\ Last(r) = q /\ r # <<>>
      /\ \A i \in 1 .. Len(p) : r[i] = p[i]
  BY Appends
<1>2. Len(p) \in Nat
  OBVIOUS
<1> HIDE DEF r
<1>3. /\ Front(r) \in Seq(S) /\ Len(Front(r)) = Len(r) - 1
      /\ \A i \in 1 .. Len(r) - 1 : Front(r)[i] = r[i]
  BY <1>1, FrontAndLast
<1>4. Len(r) - 1 = Len(p)
  BY <1>1, <1>2
<1>5. Front(r) = p
  BY <1>1, <1>3, <1>4, SeqEqual
<1> QED BY <1>1, <1>5 DEF r

LEMMA Chosen ==
  ASSUME NEW f \in FrameType, Fits(f), f.flags = "Nothing", handle_if_chain(f) # <<-1>>
  PROVE  LET test == test_if_condition(f.cond)
             h    == handle_if_chain(f)
         IN  \/ test = "1" /\ h = f.body
             \/ test = "0" /\ f.elifs # <<>> /\ f.elifs[1].cond.arg = "1" /\ h = f.elifs[1].body
             \/ /\ test = "0" /\ (f.elifs = <<>> \/ f.elifs[1].cond.arg # "1")
                /\ h = IF f.else_branch = <<>> THEN <<>> ELSE f.else_branch[1].body
<1> DEFINE tested == <<Contents(f)>> \o f.elifs
           held   == {i \in DOMAIN tested : test_if_condition(tested[i].cond) # "0"}
<1>1. f.elifs \in Seq(Branch) /\ Contents(f) \in Branch
  BY FrameParts
<1>2. Contents(f).cond = f.cond /\ Contents(f).body = f.body
  BY DEF Contents
<1>3. /\ tested[1] = Contents(f)
      /\ f.elifs = <<>> => DOMAIN tested = {1}
      /\ f.elifs # <<>> => DOMAIN tested = {1, 2} /\ tested[2] = f.elifs[1]
                           /\ f.elifs[1].cond.dir = "elif"
  <2>1. /\ Len(tested) = 1 + Len(f.elifs) /\ DOMAIN tested = 1 .. Len(tested)
        /\ tested[1] = Contents(f)
        /\ \A i \in 2 .. Len(tested) : tested[i] = f.elifs[i - 1]
    BY <1>1
  <2>2. CASE f.elifs = <<>>
    <3>1. DOMAIN tested = 1 .. 1
      BY <2>1, <2>2
    <3> QED BY <2>1, <2>2, <3>1
  <2>3. CASE f.elifs # <<>>
    <3>1. Len(f.elifs) = 1 /\ f.elifs[1].cond.dir = "elif"
      BY <2>3 DEF Fits, AtMostOne
    <3>2. DOMAIN tested = 1 .. 2 /\ tested[2] = f.elifs[1]
      BY <2>1, <3>1
    <3> QED BY <2>1, <2>3, <3>1, <3>2
  <2> QED BY <2>2, <2>3
<1>4. f.elifs # <<>> => test_if_condition(f.elifs[1].cond) = f.elifs[1].cond.arg
  BY <1>3 DEF test_if_condition
<1>5. handle_if_chain(f) =
        IF held = {} THEN IF f.else_branch = <<>> THEN <<>> ELSE f.else_branch[1].body
        ELSE LET i == CHOOSE i \in held : \A j \in held : i <= j
             IN  IF test_if_condition(tested[i].cond) = "1" THEN tested[i].body ELSE <<-1>>
  BY DEF handle_if_chain
<1>6. \A i : i \in held <=> i \in DOMAIN tested /\ test_if_condition(tested[i].cond) # "0"
  OBVIOUS
<1> HIDE DEF tested, held
<1>7. held \subseteq {1, 2}
  BY <1>3, <1>6
<1>8. CASE held = {}
  <2>1. test_if_condition(f.cond) = "0"
    BY <1>2, <1>3, <1>6, <1>8
  <2>2. f.elifs # <<>> => f.elifs[1].cond.arg = "0"
    BY <1>3, <1>4, <1>6, <1>8
  <2> QED BY <1>5, <1>8, <2>1, <2>2
<1>9. CASE held # {}
  <2>1. \E i \in held : \A j \in held : i <= j
    <3>1. CASE 1 \in held
      BY <1>7, <3>1
    <3>2. CASE 1 \notin held
      <4>1. held = {2}
        BY <1>7, <1>9, <3>2
      <4> QED BY <4>1
    <3> QED BY <3>1, <3>2
  <2>2. PICK i \in held : i = (CHOOSE k \in held : \A j \in held : k <= j)
                          /\ \A j \in held : i <= j
    BY <2>1
  <2>3. handle_if_chain(f) = IF test_if_condition(tested[i].cond) = "1"
                             THEN tested[i].body ELSE <<-1>>
    BY <1>5, <1>9, <2>2
  <2>4. test_if_condition(tested[i].cond) = "1" /\ handle_if_chain(f) = tested[i].body
    BY <2>3
  <2>5. CASE i = 1
    BY <1>2, <1>3, <2>4, <2>5
  <2>6. CASE i = 2
    <3>1. 1 \notin held /\ f.elifs # <<>>
      BY <1>3, <1>6, <2>2, <2>6
    <3>2. test_if_condition(f.cond) = "0"
      BY <1>2, <1>3, <1>6, <3>1
    <3> QED BY <1>3, <1>4, <2>4, <2>6, <3>1, <3>2
  <2> QED BY <1>7, <2>2, <2>5, <2>6
<1> QED BY <1>8, <1>9, Zenon

(* A state whose innermost section is given.                               *)
InSection(o, p, a, b, d) == State(o, Append(p, [active |-> a, done |-> b]), d)

LEMMA SectionState ==
  ASSUME NEW o \in Seq(Nat), NEW p \in Seq(Section), NEW a \in BOOLEAN, NEW b \in BOOLEAN,
         NEW d, NEW s, s = InSection(o, p, a, b, d)
  PROVE  /\ IsState(s) /\ s.out = o /\ s.defined = d
         /\ s.open # <<>> /\ Front(s.open) = p /\ Last(s.open) = [active |-> a, done |-> b]
         /\ Active(s) = a
<1>1. PICK q \in Section : q = [active |-> a, done |-> b]
  BY DEF Section
<1>2. PICK r \in Seq(Section) : r = Append(p, q)
  BY AppendProperties
<1>3. r # <<>> /\ Front(r) = p /\ Last(r) = q
  BY <1>2, FrontOfAppend, AppendProperties
<1>4. s = State(o, r, d)
  BY <1>1, <1>2 DEF InSection
<1>5. IsState(s) /\ s.out = o /\ s.open = r /\ s.defined = d
  BY <1>4, StateIs
<1>6. Active(s) = a
  BY <1>1, <1>3, <1>5 DEF Active
<1> QED BY <1>1, <1>3, <1>5, <1>6

LEMMA SectionIs ==
  ASSUME NEW o \in Seq(Nat), NEW p \in Seq(Section), NEW a \in BOOLEAN, NEW b \in BOOLEAN,
         NEW d, NEW s, s = InSection(o, p, a, b, d)
  PROVE  IsState(s) /\ s.out = o /\ s.defined = d /\ Active(s) = a /\ Front(s.open) = p
<1>1. /\ IsState(s) /\ s.out = o /\ s.defined = d
      /\ s.open # <<>> /\ Front(s.open) = p /\ Last(s.open) = [active |-> a, done |-> b]
      /\ Active(s) = a
  BY SectionState
<1> QED BY <1>1

LEMMA SectionEnds ==
  ASSUME NEW o \in Seq(Nat), NEW p \in Seq(Section), NEW a \in BOOLEAN, NEW b \in BOOLEAN,
         NEW d, NEW s, s = InSection(o, p, a, b, d)
  PROVE  [s EXCEPT !.open = Front(@)] = State(o, p, d)
<1>1. IsState(s) /\ s.out = o /\ s.defined = d /\ Front(s.open) = p
  BY SectionIs
<1>2. [s EXCEPT !.open = Front(s.open)] = State(s.out, Front(s.open), s.defined)
  BY <1>1, StateChanges
<1> QED BY <1>1, <1>2

Selects(l) == l.dir = "else" \/ l.arg = "1"

LEMMA SectionTurned ==
  ASSUME NEW o \in Seq(Nat), NEW p \in Seq(Section), NEW a \in BOOLEAN, NEW b \in BOOLEAN,
         NEW d, NEW s, s = InSection(o, p, a, b, d), NEW l
  PROVE  Turned(s, l) =
           State(o, Append(p, NextBranch([active |-> a, done |-> b], Selects(l))), d)
<1>1. /\ IsState(s) /\ s.out = o /\ s.defined = d /\ s.open # <<>>
      /\ Front(s.open) = p /\ Last(s.open) = [active |-> a, done |-> b]
  BY SectionState
<1>2. Turned(s, l) = State(s.out, Append(Front(s.open),
                       NextBranch(Last(s.open), l.dir = "else" \/ l.arg = "1")), s.defined)
  BY <1>1, Turning
<1> QED BY <1>1, <1>2 DEF Selects
LEMMA BranchParts ==
  ASSUME NEW bs \in Seq(Branch), bs # <<>>
  PROVE  bs[1] \in Branch /\ bs[1].body \in Seq(Nat)
<1>1. bs[1] \in Branch
  OBVIOUS
<1> QED BY <1>1 DEF Branch

LEMMA SectionIdles ==
  ASSUME NEW o \in Seq(Nat), NEW p \in Seq(Section), NEW x \in BOOLEAN, NEW y \in BOOLEAN,
         NEW d, NEW s, s = InSection(o, p, x, y, d), ~x, NEW c \in Seq(Nat)
  PROVE  Took(s, c) = s
<1>1. IsState(s)
  BY SectionIs
<1>2. Active(s) = x
  BY SectionIs
<1> QED BY <1>1, <1>2, Taking

(* A section with a branch taken stays so, and one without takes the next. *)
Done(t, o, p, d) == \E a \in BOOLEAN : t = InSection(o, p, a, TRUE, d)
Waits(t, o, p, d) == t = InSection(o, p, FALSE, FALSE, d)

LEMMA DoneStays ==
  ASSUME NEW o \in Seq(Nat), NEW p \in Seq(Section), NEW d, NEW t, Done(t, o, p, d),
         NEW bs \in Seq(Branch)
  PROVE  Done(Also(t, bs), o, p, d)
<1>1. CASE bs = <<>>
  BY <1>1 DEF Also
<1>2. CASE bs # <<>>
  <2>1. PICK a \in BOOLEAN : t = InSection(o, p, a, TRUE, d)
    BY DEF Done
  <2>2. PICK b \in BOOLEAN : b = TRUE
    OBVIOUS
  <2>3. t = InSection(o, p, a, b, d)
    BY <2>1, <2>2
  <2>4. PICK u : u = Turned(t, bs[1].cond)
    OBVIOUS
  <2>5. u = State(o, Append(p, NextBranch([active |-> a, done |-> b],
                                          Selects(bs[1].cond))), d)
    BY <2>3, <2>4, SectionTurned
  <2>6. NextBranch([active |-> a, done |-> b], Selects(bs[1].cond))
          = [active |-> FALSE, done |-> TRUE]
    BY <2>2 DEF NextBranch
  <2>7. PICK x \in BOOLEAN : x = FALSE
    OBVIOUS
  <2>10. u = InSection(o, p, x, b, d)
    BY <2>2, <2>5, <2>6, <2>7 DEF InSection
  <2>8. Also(t, bs) = Took(u, bs[1].body) /\ bs[1].body \in Seq(Nat)
    BY <1>2, <2>4, BranchParts DEF Also
  <2>9. Also(t, bs) = u
    BY <2>7, <2>8, <2>10, SectionIdles
  <2>11. Also(t, bs) = InSection(o, p, x, TRUE, d)
    BY <2>2, <2>9, <2>10
  <2> QED BY <2>11, Zenon DEF Done
<1> QED BY <1>1, <1>2

LEMMA WaitsTakes ==
  ASSUME NEW o \in Seq(Nat), NEW p \in Seq(Section), NEW d, NEW t, Waits(t, o, p, d),
         NEW bs \in Seq(Branch)
  PROVE  /\ bs = <<>> \/ ~Selects(bs[1].cond) => Waits(Also(t, bs), o, p, d)
         /\ bs # <<>> /\ Selects(bs[1].cond) => Done(Also(t, bs), o \o bs[1].body, p, d)
<1>1. CASE bs = <<>>
  BY <1>1 DEF Also
<1>2. CASE bs # <<>>
  <2>1. PICK a \in BOOLEAN : a = FALSE
    OBVIOUS
  <2>2. t = InSection(o, p, a, a, d)
    BY <2>1 DEF Waits
  <2>3. PICK u : u = Turned(t, bs[1].cond)
    OBVIOUS
  <2>4. u = State(o, Append(p, NextBranch([active |-> a, done |-> a],
                                          Selects(bs[1].cond))), d)
    BY <2>2, <2>3, SectionTurned
  <2>5. Also(t, bs) = Took(u, bs[1].body) /\ bs[1].body \in Seq(Nat)
    BY <1>2, <2>3, BranchParts DEF Also
  <2>6. CASE ~Selects(bs[1].cond)
    <3>1. NextBranch([active |-> a, done |-> a], Selects(bs[1].cond))
            = [active |-> FALSE, done |-> FALSE]
      BY <2>1, <2>6 DEF NextBranch
    <3>2. PICK y \in BOOLEAN : y = FALSE
      OBVIOUS
    <3>4. u = InSection(o, p, a, y, d)
      BY <2>1, <2>4, <3>1, <3>2 DEF InSection
    <3>5. Also(t, bs) = u
      BY <2>1, <2>5, <3>4, SectionIdles
    <3>3. Also(t, bs) = InSection(o, p, FALSE, FALSE, d)
      BY <2>1, <3>2, <3>4, <3>5
    <3> QED BY <1>2, <2>6, <3>3, Zenon DEF Waits
  <2>7. CASE Selects(bs[1].cond)
    <3>1. NextBranch([active |-> a, done |-> a], Selects(bs[1].cond))
            = [active |-> TRUE, done |-> TRUE]
      BY <2>1, <2>7 DEF NextBranch
    <3>2. PICK x \in BOOLEAN, y \in BOOLEAN : x = TRUE /\ y = TRUE
      OBVIOUS
    <3>4. u = InSection(o, p, x, y, d)
      BY <2>4, <3>1, <3>2 DEF InSection
    <3>5. Also(t, bs) = InSection(o \o bs[1].body, p, x, y, d)
      <4>1. PICK c \in Seq(Nat) : c = bs[1].body
        BY <2>5
      <4>2. Took(u, c) = State(o \o c, u.open, d)
        <5>1. IsState(u) /\ u.out = o /\ u.defined = d
          BY <3>4, SectionIs
        <5>2. Active(u) = x
          BY <3>4, SectionIs
        <5>3. Took(u, c) = State(u.out \o c, u.open, u.defined)
          BY <3>2, <5>1, <5>2, Taking
        <5> QED BY <5>1, <5>3
      <4>3. u.open = Append(p, [active |-> x, done |-> y])
        BY <3>4 DEF InSection, State
      <4> QED BY <2>5, <4>1, <4>2, <4>3 DEF InSection
    <3>3. Also(t, bs) = InSection(o \o bs[1].body, p, TRUE, TRUE, d)
      BY <3>2, <3>5
    <3> QED BY <1>2, <2>7, <3>3, Zenon DEF Done
  <2> QED BY <2>6, <2>7
<1> QED BY <1>1, <1>2

LEMMA SectionCloses ==
  ASSUME NEW o \in Seq(Nat), NEW p \in Seq(Section), NEW d, NEW t,
         Done(t, o, p, d) \/ Waits(t, o, p, d)
  PROVE  [t EXCEPT !.open = Front(@)] = State(o, p, d)
<1>1. PICK a \in BOOLEAN, b \in BOOLEAN : t = InSection(o, p, a, b, d)
  <2>1. TRUE \in BOOLEAN /\ FALSE \in BOOLEAN
    OBVIOUS
  <2>2. CASE Done(t, o, p, d)
    BY <2>1, <2>2 DEF Done
  <2>3. CASE Waits(t, o, p, d)
    BY <2>1, <2>3 DEF Waits
  <2> QED BY <2>2, <2>3
<1> QED BY <1>1, SectionEnds

(* The section as the #if opens it, with its first branch.                 *)
LEMMA SectionOpens ==
  ASSUME NEW s, IsState(s), NEW f \in FrameType, f.flags = "Nothing"
  PROVE  /\ ~Active(s) => Done(First(s, f), s.out, s.open, s.defined)
         /\ Active(s) /\ Holds(s, f.cond) => Done(First(s, f), s.out \o f.body, s.open, s.defined)
         /\ Active(s) /\ ~Holds(s, f.cond) => Waits(First(s, f), s.out, s.open, s.defined)
<1>1. s.out \in Seq(Nat) /\ s.open \in Seq(Section) /\ f.body \in Seq(Nat)
  BY FrameParts DEF IsState
<1>2. PICK v \in BOOLEAN, w \in BOOLEAN :
        /\ v = (Active(s) /\ Holds(s, f.cond)) /\ w = (v \/ ~Active(s))
        /\ Open(s, f.cond) = [active |-> v, done |-> w]
  BY DEF Open
<1>3. PICK t : t = Entered(s, f.cond)
  OBVIOUS
<1>4. t = InSection(s.out, s.open, v, w, s.defined)
  BY <1>2, <1>3, Entering DEF InSection
<1>5. IsState(t) /\ t.out = s.out /\ t.defined = s.defined /\ Active(t) = v
  BY <1>1, <1>4, SectionIs
<1>6. First(s, f) = Took(t, f.body)
  BY <1>3 DEF First
<1>7. CASE ~v
  <2>1. First(s, f) = t
    BY <1>1, <1>5, <1>6, <1>7, Taking
  <2> QED BY <1>2, <1>4, <1>7, <2>1 DEF Done, Waits
<1>8. CASE v
  <2>1. First(s, f) = State(s.out \o f.body, t.open, s.defined)
    BY ZenonT(30), <1>1, <1>5, <1>6, <1>8, Taking
  <2>2. t.open = Append(s.open, [active |-> v, done |-> w])
    BY <1>4 DEF InSection, State
  <2>3. First(s, f) = InSection(s.out \o f.body, s.open, v, w, s.defined)
    BY <2>1, <2>2 DEF InSection
  <2> QED BY <1>2, <1>8, <2>3 DEF Done
<1> QED BY <1>7, <1>8

LEMMA ChainCollected ==
  ASSUME NEW s, IsState(s), s.defined = macro_definitions, NEW f \in FrameType, Fits(f),
         f.flags = "Nothing", NEW h \in Seq(Nat), h = handle_if_chain(f)
  PROVE  [With(s, f) EXCEPT !.open = Front(@)] = Took(s, h)
<1>1. /\ s.out \in Seq(Nat) /\ s.open \in Seq(Section)
      /\ s = State(s.out, s.open, s.defined) /\ f.body \in Seq(Nat)
      /\ f.elifs \in Seq(Branch) /\ f.else_branch \in Seq(Branch)
  BY FrameParts DEF IsState
<1>2. h # <<-1>>
  <2>1. <<-1>> \notin Seq(Nat)
    <3>1. <<-1>>[1] = -1 /\ 1 \in DOMAIN <<-1>> /\ -1 \notin Nat
      OBVIOUS
    <3> QED BY <3>1
  <2> QED BY <2>1
<1>3. Holds(s, f.cond) <=> test_if_condition(f.cond) = "1"
  <2>1. f.cond.dir \in Ifs
    BY DEF Fits, BranchOf
  <2> QED BY <2>1 DEF Holds, test_if_condition, Ifs
<1>4. /\ f.elifs # <<>> => f.elifs[1].cond.dir = "elif" /\ f.elifs[1].body \in Seq(Nat)
      /\ f.else_branch # <<>> => f.else_branch[1].cond.dir = "else"
                                 /\ f.else_branch[1].body \in Seq(Nat)
  <2>1. /\ f.elifs # <<>> => f.elifs[1].cond.dir = "elif"
        /\ f.else_branch # <<>> => f.else_branch[1].cond.dir = "else"
    BY DEF Fits, AtMostOne
  <2>2. /\ f.elifs # <<>> => f.elifs[1] \in Branch
        /\ f.else_branch # <<>> => f.else_branch[1] \in Branch
    BY <1>1
  <2> QED BY <2>1, <2>2 DEF Branch
<1> DEFINE p == s.open
           d == s.defined
<1>5. PICK t, u, x : t = First(s, f) /\ u = Also(t, f.elifs) /\ x = Also(u, f.else_branch)
                     /\ With(s, f) = x
  BY DEF With
<1>6. ASSUME NEW o \in Seq(Nat), Done(x, o, p, d) \/ Waits(x, o, p, d)
      PROVE  [With(s, f) EXCEPT !.open = Front(@)] = State(o, p, d)
  <2> HIDE DEF p, d
  <2>1. [x EXCEPT !.open = Front(@)] = State(o, p, d)
    <3>1. p \in Seq(Section)
      BY <1>1 DEF p
    <3> QED BY <1>6, <3>1, SectionCloses
  <2> QED BY <1>5, <2>1, Zenon
<1>7. ASSUME NEW o \in Seq(Nat), Done(t, o, p, d)
      PROVE  [With(s, f) EXCEPT !.open = Front(@)] = State(o, p, d)
  <2>1. Done(u, o, p, d)
    BY <1>1, <1>5, <1>7, DoneStays
  <2>2. Done(x, o, p, d)
    BY <1>1, <1>5, <2>1, DoneStays
  <2> QED BY <1>6, <2>2
<1>8. ASSUME NEW o \in Seq(Nat), Done(u, o, p, d)
      PROVE  [With(s, f) EXCEPT !.open = Front(@)] = State(o, p, d)
  <2>1. Done(x, o, p, d)
    BY <1>1, <1>5, <1>8, DoneStays
  <2> QED BY <1>6, <2>1
<1>9. CASE ~Active(s)
  <2>1. [With(s, f) EXCEPT !.open = Front(@)] = State(s.out, p, d)
    BY <1>1, <1>5, <1>7, <1>9, SectionOpens
  <2>2. Took(s, h) = s
    BY <1>9, Taking
  <2> QED BY <1>1, <2>1, <2>2
<1>10. CASE Active(s)
  <2>1. Took(s, h) = State(s.out \o h, p, d)
    BY <1>10, Taking
  <2>2. s.out \o h \in Seq(Nat)
    BY <1>1, ConcatProperties
  <2>3. CASE test_if_condition(f.cond) = "1" /\ h = f.body
    <3>1. Done(t, s.out \o h, p, d)
      BY <1>3, <1>5, <1>10, <2>3, SectionOpens
    <3> QED BY <1>7, <2>1, <2>2, <3>1
  <2>4. ASSUME test_if_condition(f.cond) = "0"
        PROVE  Waits(t, s.out, p, d)
    BY <1>3, <1>5, <1>10, <2>4, SectionOpens
  <2>5. CASE /\ test_if_condition(f.cond) = "0" /\ f.elifs # <<>>
             /\ f.elifs[1].cond.arg = "1" /\ h = f.elifs[1].body
    <3>1. Done(u, s.out \o h, p, d)
      <4>1. Selects(f.elifs[1].cond)
        BY <2>5 DEF Selects
      <4> QED BY <1>1, <1>5, <2>4, <2>5, <4>1, WaitsTakes
    <3> QED BY <1>8, <2>1, <2>2, <3>1
  <2>6. CASE /\ test_if_condition(f.cond) = "0"
             /\ f.elifs = <<>> \/ f.elifs[1].cond.arg # "1"
             /\ h = IF f.else_branch = <<>> THEN <<>> ELSE f.else_branch[1].body
    <3>1. Waits(u, s.out, p, d)
      <4>1. f.elifs = <<>> \/ ~Selects(f.elifs[1].cond)
        BY <1>4, <2>6 DEF Selects
      <4> QED BY <1>1, <1>5, <2>4, <2>6, <4>1, WaitsTakes
    <3>2. CASE f.else_branch = <<>>
      <4>1. Waits(x, s.out, p, d)
        BY <1>1, <1>5, <3>1, <3>2, WaitsTakes
      <4>2. s.out \o h = s.out
        BY <1>1, <2>6, <3>2, ConcatEmptySeq
      <4> QED BY <1>1, <1>6, <2>1, <4>1, <4>2
    <3>3. CASE f.else_branch # <<>>
      <4>1. Selects(f.else_branch[1].cond)
        BY <1>4, <3>3 DEF Selects
      <4>2. Done(x, s.out \o h, p, d)
        BY <1>1, <1>5, <2>6, <3>1, <3>3, <4>1, WaitsTakes
      <4> QED BY <1>6, <2>1, <2>2, <4>2
    <3> QED BY <3>2, <3>3
  <2> QED BY <1>2, <2>3, <2>5, <2>6, Chosen
<1> QED BY <1>9, <1>10

----------------------------------------------------------------------------
(* How the meaning of the lines goes on.                                   *)

LEMMA MeaningReads ==
  ASSUME TypeOK, NEW l, Reads(l)
  PROVE  /\ at_word' = FALSE => MeantUpTo(source', Processed')
                                  = Meant(MeantUpTo(source, Processed), Len(source) + 1, l)
         /\ at_word' = TRUE => MeantUpTo(source', Processed') = MeantUpTo(source, Processed)
<1>1. PICK n \in Nat, m \in Nat : n = Len(source) /\ m = n + 1
  BY Reading
<1>2. /\ Processed = n /\ Len(source') = m /\ source'[m] = l
      /\ \A i \in 1 .. n : source'[i] = source[i]
  BY <1>1, Reading DEF Processed
<1>3. MeantUpTo(source', n) = MeantUpTo(source, n)
  BY <1>2, MeaningUnfolds
<1>4. MeantUpTo(source', m) = Meant(MeantUpTo(source', n), m, source'[m])
  BY <1>1, MeaningUnfolds
<1>5. CASE at_word' = FALSE
  <2>1. Processed' = m
    BY <1>2, <1>5 DEF Processed
  <2> QED BY <1>1, <1>2, <1>3, <1>4, <1>5, <2>1
<1>6. CASE at_word' = TRUE
  <2>1. Processed' = n
    BY <1>1, <1>2, <1>6 DEF Processed
  <2> QED BY <1>2, <1>3, <1>6, <2>1
<1> QED BY <1>5, <1>6

LEMMA MeaningAtWord ==
  ASSUME TypeOK, at_word, source # <<>>, source' = source
  PROVE  /\ at_word' = FALSE => MeantUpTo(source', Processed')
                                  = Meant(MeantUpTo(source, Processed), Len(source), Last(source))
         /\ at_word' = TRUE => MeantUpTo(source', Processed') = MeantUpTo(source, Processed)
<1>1. PICK n \in Nat, m \in Nat : n = Len(source) - 1 /\ m = n + 1
  <2>1. Len(source) \in Nat /\ Len(source) >= 1
    BY FrontAndLast DEF TypeOK
  <2>2. Len(source) - 1 \in Nat
    BY <2>1
  <2> QED BY <2>2
<1>2. m = Len(source) /\ Processed = n /\ Last(source) = source[m]
  <2>1. Len(source) \in Nat /\ source \in Seq(Lines)
    BY DEF TypeOK
  <2>2. Last(source) = source[Len(source)]
    BY DEF Last
  <2>3. m = Len(source) /\ Processed = n
    BY <1>1, <2>1 DEF Processed
  <2> QED BY <2>2, <2>3
<1>3. MeantUpTo(source, m) = Meant(MeantUpTo(source, n), m, source[m])
  BY <1>1, MeaningUnfolds
<1>4. CASE at_word' = FALSE
  <2>1. Processed' = m
    BY <1>2, <1>4 DEF Processed
  <2> QED BY <1>2, <1>3, <1>4, <2>1
<1>5. CASE at_word' = TRUE
  <2>1. Processed' = n
    BY <1>1, <1>2, <1>5 DEF Processed
  <2> QED BY <1>2, <1>5, <2>1
<1> QED BY <1>4, <1>5

(* How the replay of the frames goes on.                                   *)

LEMMA ReplayTop ==
  ASSUME TypeOK, frames # <<>>, NEW b
  PROVE  depth - 1 \in Nat /\ Replayed(b, frames, depth) = With(Replayed(b, frames, depth - 1), Top)
<1>1. depth \in Nat /\ depth >= 1 /\ Top = frames[depth]
  BY TopFrame
<1>2. PICK n \in Nat : n = depth - 1
  BY <1>1
<1>3. depth = n + 1
  BY <1>1, <1>2
<1> QED BY <1>1, <1>2, <1>3, ReplayUnfolds

LEMMA ReplayReplaced ==
  ASSUME TypeOK, NEW g, Replaces(g), NEW b
  PROVE  Replayed(b, frames', Len(frames')) = With(Replayed(b, frames, depth - 1), g)
<1>1. PICK n \in Nat : n = depth - 1
  BY ReplayTop DEF Replaces
<1>2. depth = n + 1 /\ depth \in Nat
  BY <1>1, NoFrames
<1>3. Len(frames') = depth /\ frames'[depth] = g /\ \A i \in 1 .. n : frames'[i] = frames[i]
  BY <1>1 DEF Replaces
<1>4. Replayed(b, frames', n) = Replayed(b, frames, n)
  BY SMTT(30), <1>3, ReplayUnfolds
<1>5. Replayed(b, frames', depth) = With(Replayed(b, frames', n), frames'[depth])
  BY <1>2, ReplayUnfolds
<1> QED BY <1>1, <1>3, <1>4, <1>5

LEMMA ReplayAdded ==
  ASSUME TypeOK, NEW g, Adds(g), NEW b
  PROVE  Replayed(b, frames', Len(frames')) = With(Replayed(b, frames, depth), g)
<1>1. PICK n \in Nat, m \in Nat : n = depth /\ m = n + 1
  BY NoFrames
<1>2. Len(frames') = m /\ frames'[m] = g /\ \A i \in 1 .. n : frames'[i] = frames[i]
  BY <1>1 DEF Adds
<1>3. Replayed(b, frames', n) = Replayed(b, frames, n)
  BY SMTT(30), <1>2, ReplayUnfolds
<1>4. Replayed(b, frames', m) = With(Replayed(b, frames', n), frames'[m])
  BY <1>1, ReplayUnfolds
<1> QED BY <1>1, <1>2, <1>3, <1>4

LEMMA ReplayPushed ==
  ASSUME TypeOK, NEW f, NEW g, Pushes(f, g), NEW b
  PROVE  Replayed(b, frames', Len(frames')) = With(With(Replayed(b, frames, depth - 1), f), g)
<1>1. PICK n \in Nat : n = depth - 1
  BY ReplayTop DEF Pushes
<1>2. PICK m \in Nat : m = depth /\ m = n + 1
  BY <1>1, NoFrames
<1>3. PICK k \in Nat : k = m + 1
  OBVIOUS
<1>4. /\ Len(frames') = k /\ frames'[k] = g /\ frames'[m] = f
      /\ \A i \in 1 .. n : frames'[i] = frames[i]
  BY <1>1, <1>2, <1>3 DEF Pushes
<1>5. Replayed(b, frames', n) = Replayed(b, frames, n)
  BY SMTT(30), <1>4, ReplayUnfolds
<1>6. Replayed(b, frames', m) = With(Replayed(b, frames', n), frames'[m])
  BY <1>2, ReplayUnfolds
<1>7. Replayed(b, frames', k) = With(Replayed(b, frames', m), frames'[k])
  BY <1>3, ReplayUnfolds
<1> QED BY <1>1, <1>4, <1>5, <1>6, <1>7

LEMMA ReplayDropped ==
  ASSUME TypeOK, NEW g, Drops(g), NEW b
  PROVE  /\ Replayed(b, frames', Len(frames')) = With(Replayed(b, frames, depth - 2), g)
         /\ Replayed(b, frames, depth - 1) = With(Replayed(b, frames, depth - 2), Around)
<1>1. PICK n \in Nat, m \in Nat : n = depth - 2 /\ m = n + 1 /\ m = depth - 1
  <2>1. depth \in Nat /\ depth >= 2
    BY NoFrames DEF Drops
  <2>2. depth - 2 \in Nat /\ depth - 1 \in Nat /\ depth - 1 = (depth - 2) + 1
    BY <2>1
  <2> QED BY <2>2
<1>2. /\ Len(frames') = m /\ frames'[m] = g
      /\ \A i \in 1 .. n : frames'[i] = frames[i]
  BY <1>1 DEF Drops
<1>3. Replayed(b, frames', n) = Replayed(b, frames, n)
  BY SMTT(30), <1>2, ReplayUnfolds
<1>4. Replayed(b, frames', m) = With(Replayed(b, frames', n), frames'[m])
  BY <1>1, ReplayUnfolds
<1>5. Replayed(b, frames, m) = With(Replayed(b, frames, n), frames[m])
  BY <1>1, ReplayUnfolds
<1> QED BY <1>1, <1>2, <1>3, <1>4, <1>5 DEF Around
----------------------------------------------------------------------------
(* What a frame stands for, and how it changes with the frame.             *)

LEMMA WithAlone ==
  ASSUME NEW s, NEW f, f.elifs = <<>>, f.else_branch = <<>>
  PROVE  With(s, f) = First(s, f)
BY DEF With, Also

LEMMA WithSame ==
  ASSUME NEW s, NEW f, NEW g, g.flags = f.flags, g.cond = f.cond, g.body = f.body,
         g.elifs = f.elifs, g.else_branch = f.else_branch
  PROVE  With(s, g) = With(s, f)
BY DEF With, First

LEMMA WithNew ==
  ASSUME NEW s, IsState(s), NEW flags, NEW l, flags # "Nothing" => s.open # <<>>
  PROVE  With(s, Frame(flags, l)) = IF flags = "Nothing" THEN Entered(s, l) ELSE Turned(s, l)
<1> DEFINE g == Frame(flags, l)
           t == IF flags = "Nothing" THEN Entered(s, l) ELSE Turned(s, l)
<1>1. g.flags = flags /\ g.cond = l /\ g.body = <<>> /\ g.elifs = <<>> /\ g.else_branch = <<>>
  BY DEF Frame
<1>2. First(s, g) = Took(t, <<>>)
  BY <1>1 DEF First
<1>3. IsState(t)
  BY Entering, Turning
<1> HIDE DEF g, t
<1>4. <<>> \in Seq(Nat)
  OBVIOUS
<1>5. Took(t, <<>>) = t
  BY <1>3, <1>4, Taking
<1>6. With(s, g) = First(s, g)
  BY <1>1, WithAlone
<1> QED BY <1>2, <1>5, <1>6 DEF g, t

(* More is read into the branch.                                           *)
LEMMA WithMore ==
  ASSUME NEW s, IsState(s), NEW f \in FrameType, f.flags # "Nothing" => s.open # <<>>,
         f.elifs = <<>>, f.else_branch = <<>>, NEW c \in Seq(Nat),
         NEW g, g.flags = f.flags, g.cond = f.cond, g.body = f.body \o c,
         g.elifs = <<>>, g.else_branch = <<>>
  PROVE  With(s, g) = Took(With(s, f), c)
<1> DEFINE t == IF f.flags = "Nothing" THEN Entered(s, f.cond) ELSE Turned(s, f.cond)
<1>1. IsState(t)
  BY Entering, Turning
<1>2. First(s, f) = Took(t, f.body) /\ First(s, g) = Took(t, f.body \o c)
  BY DEF First
<1>3. With(s, f) = First(s, f) /\ With(s, g) = First(s, g)
  BY WithAlone
<1> HIDE DEF t
<1>4. f.body \in Seq(Nat)
  BY FrameParts
<1>5. Took(Took(t, f.body), c) = Took(t, f.body \o c)
  BY <1>1, <1>4, TakingBoth
<1> QED BY <1>2, <1>3, <1>5

(* A branch for an #elif or an #else, read and then returned.              *)
LEMMA WithReturned ==
  ASSUME NEW s, NEW f, NEW g, NEW h, g.flags # "Nothing", g.elifs = <<>>, g.else_branch = <<>>,
         f.else_branch = <<>>, h.flags = f.flags, h.cond = f.cond, h.body = f.body,
         \/ f.elifs = <<>> /\ h.elifs = <<Contents(g)>> /\ h.else_branch = <<>>
         \/ h.elifs = f.elifs /\ h.else_branch = <<Contents(g)>>
  PROVE  With(s, h) = With(With(s, f), g)
<1>1. PICK t : t = First(s, f)
  OBVIOUS
<1>2. First(s, h) = t
  BY <1>1 DEF First
<1>3. \A u : With(u, g) = Also(u, <<Contents(g)>>)
  <2>1. ASSUME NEW u
        PROVE  With(u, g) = Also(u, <<Contents(g)>>)
    <3>1. With(u, g) = Took(Turned(u, g.cond), g.body)
      BY WithAlone DEF First
    <3>2. Contents(g).cond = g.cond /\ Contents(g).body = g.body
      BY DEF Contents
    <3>3. <<Contents(g)>> # <<>> /\ <<Contents(g)>>[1] = Contents(g)
      OBVIOUS
    <3> QED BY <3>1, <3>2, <3>3 DEF Also
  <2> QED BY <2>1
<1>4. CASE f.elifs = <<>> /\ h.elifs = <<Contents(g)>> /\ h.else_branch = <<>>
  <2>1. With(s, f) = t
    BY <1>1, <1>4, WithAlone
  <2>2. With(s, h) = Also(t, <<Contents(g)>>)
    BY <1>2, <1>4 DEF With, Also
  <2> QED BY <1>3, <2>1, <2>2
<1>5. CASE h.elifs = f.elifs /\ h.else_branch = <<Contents(g)>>
  <2>1. With(s, f) = Also(t, f.elifs)
    BY <1>1 DEF With, Also
  <2>2. With(s, h) = Also(Also(t, f.elifs), <<Contents(g)>>)
    BY <1>2, <1>5 DEF With
  <2> QED BY <1>3, <2>1, <2>2
<1> QED BY <1>4, <1>5

(* What the lines make of a state.                                         *)
LEMMA MeantLine ==
  ASSUME NEW s, NEW n, NEW l
  PROVE  /\ l.dir \in Ifs => Meant(s, n, l) = Entered(s, l)
         /\ l.dir \in {"elif", "else"} => Meant(s, n, l) = Turned(s, l)
         /\ l.dir = "endif" => Meant(s, n, l) = [s EXCEPT !.open = Front(@)]
         /\ l.dir = "blank" => Meant(s, n, l) = s
         /\ l.dir = "define" /\ Active(s) =>
              Meant(s, n, l) = [s EXCEPT !.defined = s.defined \cup {l.arg}]
         /\ l.dir \in {"text", "else_text"} /\ Active(s) =>
              Meant(s, n, l) = [s EXCEPT !.out = Append(s.out, n)]
         /\ l.dir \in {"text", "else_text"} /\ ~Active(s) => Meant(s, n, l) = s
<1>1. l.dir \in Ifs => Meant(s, n, l) = Entered(s, l)
  BY DEF Meant, Ifs, Entered
<1>2. l.dir = "elif" => Meant(s, n, l) = Turned(s, l)
  BY DEF Meant, Ifs, Turned
<1>3. l.dir = "else" => Meant(s, n, l) = Turned(s, l)
  BY DEF Meant, Ifs, Turned
<1>4. /\ l.dir = "endif" => Meant(s, n, l) = [s EXCEPT !.open = Front(@)]
      /\ l.dir = "blank" => Meant(s, n, l) = s
  BY DEF Meant, Ifs
<1>5. l.dir = "define" /\ Active(s) =>
        Meant(s, n, l) = [s EXCEPT !.defined = s.defined \cup {l.arg}]
  BY DEF Meant, Ifs
<1>6. l.dir \in {"text", "else_text"} /\ Active(s) =>
        Meant(s, n, l) = [s EXCEPT !.out = Append(s.out, n)]
  BY DEF Meant, Ifs
<1>7. l.dir \in {"text", "else_text"} /\ ~Active(s) => Meant(s, n, l) = s
  BY DEF Meant, Ifs
<1> QED BY <1>1, <1>2, <1>3, <1>4, <1>5, <1>6, <1>7

LEMMA MeantText ==
  ASSUME NEW s, IsState(s), NEW n \in Nat, NEW l, l.dir \in {"text", "else_text"}
  PROVE  Meant(s, n, l) = Took(s, <<n>>)
<1>1. <<n>> \in Seq(Nat) /\ s.out \in Seq(Nat)
  BY DEF IsState
<1>2. s.out \o <<n>> = Append(s.out, n)
  BY <1>1
<1>3. [s EXCEPT !.out = Append(s.out, n)] = State(Append(s.out, n), s.open, s.defined)
  BY StateChanges
<1>4. CASE Active(s)
  <2>1. Took(s, <<n>>) = State(s.out \o <<n>>, s.open, s.defined)
    BY <1>1, <1>4, Taking
  <2>2. Meant(s, n, l) = [s EXCEPT !.out = Append(s.out, n)]
    BY <1>4, MeantLine
  <2> QED BY <1>2, <1>3, <2>1, <2>2
<1>5. CASE ~Active(s)
  <2>1. Took(s, <<n>>) = s
    BY <1>1, <1>5, Taking
  <2>2. Meant(s, n, l) = s
    BY <1>5, MeantLine
  <2> QED BY <2>1, <2>2
<1> QED BY <1>4, <1>5
----------------------------------------------------------------------------
(* Every step reads, replays and means alike.                              *)

Meaning == MeantUpTo(source, Processed)
Means   == Replayed(Base, frames, Len(frames)) = Meaning

LEMMA MeansAfter ==
  Means' <=> Replayed([out |-> tokens', open |-> <<>>, defined |-> macro_definitions'],
                      frames', Len(frames')) = MeantUpTo(source', Processed')
BY DEF Means, Meaning, Base

LEMMA MeansTopLine ==
  ASSUME Shape, Means, NEW l \in Lines, TopLine(l)
  PROVE  Means'
<1>1. /\ frames = <<>> /\ frames' = <<>> /\ Reads(l) /\ at_word' = FALSE
      /\ l.dir \in Texts \cup {"define"}
      /\ tokens' = IF l.dir \in {"text", "else_text"} THEN Append(tokens, Len(source) + 1) ELSE tokens
      /\ macro_definitions' = IF l.dir = "define" THEN macro_definitions \cup {l.arg}
                              ELSE macro_definitions
  BY DEF TopLine
<1>2. PICK n \in Nat : n = Len(source) + 1
  BY <1>1, Reading DEF Shape
<1>3. PICK b : b = [out |-> tokens, open |-> <<>>, defined |-> macro_definitions]
  OBVIOUS
<1>4. b = Meaning
  <2>1. Len(<<>>) = 0 /\ 0 \in Nat
    OBVIOUS
  <2>2. Replayed(b, frames, 0) = b
    BY <2>1, ReplayUnfolds
  <2> QED BY <1>1, <1>3, <2>1, <2>2 DEF Means, Base
<1>5. PICK c : c = [out |-> tokens', open |-> <<>>, defined |-> macro_definitions']
  OBVIOUS
<1>6. Active(b)
  BY <1>3 DEF Active
<1>7. c = Meant(b, n, l)
  <2>1. CASE l.dir = "blank"
    <3>1. Meant(b, n, l) = b
      BY <2>1, MeantLine
    <3> QED BY <1>1, <1>3, <1>5, <2>1, <3>1
  <2>2. CASE l.dir = "define"
    <3>1. Meant(b, n, l) = [b EXCEPT !.defined = b.defined \cup {l.arg}]
      BY <1>6, <2>2, MeantLine
    <3> QED BY <1>1, <1>3, <1>5, <2>2, <3>1
  <2>3. CASE l.dir \in {"text", "else_text"}
    <3>1. Meant(b, n, l) = [b EXCEPT !.out = Append(b.out, n)]
      BY <1>6, <2>3, MeantLine
    <3> QED BY <1>1, <1>2, <1>3, <1>5, <2>3, <3>1
  <2> QED BY <1>1, <2>1, <2>2, <2>3 DEF Texts
<1>8. MeantUpTo(source', Processed') = Meant(Meaning, n, l)
  BY <1>1, <1>2, MeaningReads DEF Shape, Meaning
<1>9. Replayed(c, frames', Len(frames')) = c
  <2>1. Len(<<>>) = 0 /\ 0 \in Nat
    OBVIOUS
  <2>2. Replayed(c, frames', 0) = c
    BY <2>1, ReplayUnfolds
  <2> QED BY <1>1, <2>1, <2>2
<1> QED BY <1>4, <1>5, <1>7, <1>8, <1>9, MeansAfter

(* Where neither the program's tokens nor the macros change.               *)
LEMMA MeansWithin ==
  ASSUME UNCHANGED <<tokens, macro_definitions>>,
         Replayed(Base, frames', Len(frames')) = MeantUpTo(source', Processed')
  PROVE  Means'
BY MeansAfter DEF Base

LEMMA MeansBegins ==
  ASSUME Shape, Means, NEW l \in Lines, Begins(l)
  PROVE  Means'
<1> DEFINE g == Frame("Nothing", l)
<1>1. Reads(l) /\ at_word' = FALSE /\ l.dir \in Ifs /\ Adds(g)
      /\ UNCHANGED <<tokens, macro_definitions>>
  BY DEF Begins
<1>2. PICK s : s = Replayed(Base, frames, depth)
  OBVIOUS
<1>3. IsState(s)
  <2>1. depth \in 0 .. depth
    BY NoFrames DEF Shape
  <2> QED BY <1>2, <2>1, ReplayStates
<1>4. With(s, g) = Entered(s, l)
  BY <1>3, WithNew
<1> HIDE DEF g
<1>5. Replayed(Base, frames', Len(frames')) = With(s, g)
  BY <1>1, <1>2, ReplayAdded DEF Shape
<1>6. MeantUpTo(source', Processed') = Meant(s, Len(source) + 1, l)
  BY <1>1, <1>2, MeaningReads DEF Shape, Means, Meaning, depth
<1>7. Meant(s, Len(source) + 1, l) = Entered(s, l)
  BY <1>1, MeantLine
<1> QED BY <1>1, <1>4, <1>5, <1>6, <1>7, MeansWithin

(* The state below the top frame.                                          *)
LEMMA BelowTop ==
  ASSUME Shape, frames # <<>>, NEW s, s = Replayed(Base, frames, depth - 1)
  PROVE  /\ IsState(s) /\ s.defined = macro_definitions
         /\ Top.flags # "Nothing" => s.open # <<>>
         /\ Replayed(Base, frames, Len(frames)) = With(s, Top)
         /\ IsState(With(s, Top)) /\ With(s, Top).open # <<>>
<1>1. depth \in Nat /\ depth >= 1 /\ Top = frames[depth] /\ Top \in FrameType
      /\ depth \in DOMAIN frames
  BY TopFrame DEF Shape
<1>2. PICK n \in 0 .. depth : n = depth - 1
  BY <1>1
<1>3. /\ IsState(s) /\ s.defined = macro_definitions
      /\ n # 0 => s.open # <<>>
  BY <1>2, ReplayStates
<1>4. Top.flags # "Nothing" => n # 0
  BY <1>1, <1>2 DEF Shape, Stacked
<1>5. Replayed(Base, frames, depth) = With(s, Top)
  BY ReplayTop DEF Shape
<1>6. IsState(With(s, Top)) /\ With(s, Top).open # <<>>
  BY <1>1, <1>3, <1>4, Beginning
<1> QED BY <1>3, <1>4, <1>5, <1>6 DEF depth

LEMMA MeansReplaced ==
  ASSUME Shape, frames # <<>>, NEW g, Replaces(g), UNCHANGED <<tokens, macro_definitions>>,
         With(Replayed(Base, frames, depth - 1), g) = MeantUpTo(source', Processed')
  PROVE  Means'
<1>1. Replayed(Base, frames', Len(frames')) = With(Replayed(Base, frames, depth - 1), g)
  BY ReplayReplaced DEF Shape
<1> QED BY <1>1, MeansWithin

LEMMA MeansTextLine ==
  ASSUME Shape, AllFit(frames), Means, NEW l \in Lines, TextLine(l)
  PROVE  Means'
<1> DEFINE g == [Top EXCEPT !.body = WithLine(l), !.pc = "body"]
<1>1. /\ frames # <<>> /\ Reads(l) /\ at_word' = FALSE /\ l.dir \in Texts
      /\ Top.pc \in {"body", "nested"} /\ WithLine(l) \in Seq(Nat)
      /\ Replaces(g) /\ UNCHANGED <<tokens, macro_definitions>>
  BY DEF TextLine
<1>2. /\ Top \in FrameType /\ Top.body \in Seq(Nat)
      /\ Top.elifs = <<>> /\ Top.else_branch = <<>>
  <2>1. Top \in FrameType /\ Top = frames[depth] /\ depth \in DOMAIN frames
    BY <1>1, TopFrame DEF Shape
  <2> QED BY <1>1, <2>1, FrameParts DEF AllFit, Fits
<1>3. /\ g.flags = Top.flags /\ g.cond = Top.cond /\ g.body = WithLine(l)
      /\ g.elifs = <<>> /\ g.else_branch = <<>>
  BY <1>2 DEF FrameType
<1> HIDE DEF g
<1>4. PICK n \in Nat : n = Len(source) + 1
  BY <1>1, Reading DEF Shape
<1>5. PICK s : s = Replayed(Base, frames, depth - 1)
  OBVIOUS
<1>6. /\ IsState(s) /\ (Top.flags # "Nothing" => s.open # <<>>)
      /\ IsState(With(s, Top)) /\ Meaning = With(s, Top)
  BY <1>1, <1>5, BelowTop DEF Means
<1>7. MeantUpTo(source', Processed') = Meant(With(s, Top), n, l)
  BY <1>1, <1>4, <1>6, MeaningReads DEF Shape, Meaning
<1>8. Meant(With(s, Top), n, l) = With(s, g)
  <2>1. CASE l.dir = "blank"
    <3>1. WithLine(l) = Top.body
      BY <2>1 DEF WithLine
    <3>2. With(s, g) = With(s, Top)
      BY <1>2, <1>3, <3>1, WithSame
    <3> QED BY <2>1, <3>2, MeantLine
  <2>2. CASE l.dir \in {"text", "else_text"}
    <3>1. PICK c \in Seq(Nat) : c = <<n>>
      <4>1. <<n>> \in Seq(Nat)
        OBVIOUS
      <4> QED BY <4>1
    <3>2. Top.body \o c = WithLine(l)
      <4>1. PICK b \in Seq(Nat) : b = Top.body
        BY <1>2
      <4>2. b \o <<n>> = Append(b, n)
        OBVIOUS
      <4>3. WithLine(l) = Append(b, n)
        BY <1>4, <2>2, <4>1 DEF WithLine
      <4> QED BY <3>1, <4>1, <4>2, <4>3
    <3>3. With(s, g) = Took(With(s, Top), c)
      BY <1>2, <1>3, <1>6, <3>2, WithMore
    <3>4. Meant(With(s, Top), n, l) = Took(With(s, Top), c)
      BY <1>6, <2>2, <3>1, MeantText
    <3> QED BY <3>3, <3>4
  <2> QED BY <1>1, <2>1, <2>2 DEF Texts
<1> QED BY <1>1, <1>5, <1>7, <1>8, MeansReplaced

(* A step of the outer loop that only moves on.                            *)
LEMMA MeansGoes ==
  ASSUME Shape, Means, frames # <<>>, NEW pc, Replaces([Top EXCEPT !.pc = pc]),
         UNCHANGED <<tokens, macro_definitions>>,
         MeantUpTo(source', Processed') = Meaning
  PROVE  Means'
<1> DEFINE g == [Top EXCEPT !.pc = pc]
<1>1. Top \in FrameType
  BY TopFrame DEF Shape
<1>2. /\ g.flags = Top.flags /\ g.cond = Top.cond /\ g.body = Top.body
      /\ g.elifs = Top.elifs /\ g.else_branch = Top.else_branch /\ Replaces(g)
  BY <1>1 DEF FrameType
<1> HIDE DEF g
<1>3. PICK s : s = Replayed(Base, frames, depth - 1)
  OBVIOUS
<1>4. With(s, g) = With(s, Top)
  BY <1>2, WithSame
<1>5. Meaning = With(s, Top)
  BY <1>3, BelowTop DEF Means
<1> QED BY <1>2, <1>3, <1>4, <1>5, MeansReplaced

LEMMA MeansMeets ==
  ASSUME Shape, Means, NEW l \in Lines, Meets(l)
  PROVE  Means'
<1>1. /\ frames # <<>> /\ Reads(l) /\ at_word' = TRUE
      /\ Replaces([Top EXCEPT !.pc = "found"])
      /\ UNCHANGED <<tokens, macro_definitions>>
  BY DEF Meets
<1>2. MeantUpTo(source', Processed') = Meaning
  BY <1>1, MeaningReads DEF Shape, Meaning
<1> QED BY <1>1, <1>2, MeansGoes

LEMMA MeansCalls ==
  ASSUME Shape, Means, AtWord, tokens' = tokens, NEW flags \in Flags, NEW pc \in Places,
         Calls(flags, pc)
  PROVE  Means'
<1> DEFINE f == [Top EXCEPT !.pc = pc]
           g == Frame(flags, Last(source))
<1>1. /\ frames # <<>> /\ source # <<>> /\ Top \in FrameType /\ at_word /\ source' = source
      /\ macro_definitions' = macro_definitions /\ Last(source).dir = Word
  BY DEF AtWord, RegularWord
<1>2. /\ Pushes(f, g) /\ at_word' = FALSE /\ flags # "Nothing"
      /\ Word \in {"elif", "else"}
  BY DEF Calls
<1>3. PICK l : l = Last(source)
  OBVIOUS
<1>4. PICK s : s = Replayed(Base, frames, depth - 1)
  OBVIOUS
<1>5. PICK t : t = With(s, Top)
  OBVIOUS
<1>6. IsState(t) /\ t.open # <<>> /\ Meaning = t
  BY <1>1, <1>4, <1>5, BelowTop DEF Means
<1>7. With(s, f) = t
  <2>1. /\ f.flags = Top.flags /\ f.cond = Top.cond /\ f.body = Top.body
        /\ f.elifs = Top.elifs /\ f.else_branch = Top.else_branch
    BY <1>1 DEF FrameType
  <2> HIDE DEF f
  <2> QED BY <1>5, <2>1, WithSame
<1>8. With(t, g) = Turned(t, l)
  BY <1>2, <1>3, <1>6, WithNew
<1> HIDE DEF f, g
<1>9. Replayed(Base, frames', Len(frames')) = With(With(s, f), g)
  BY <1>2, <1>4, ReplayPushed DEF Shape
<1>10. MeantUpTo(source', Processed') = Meant(t, Len(source), l)
  BY <1>1, <1>2, <1>3, <1>6, MeaningAtWord DEF Shape, Meaning
<1>11. Meant(t, Len(source), l) = Turned(t, l)
  BY <1>1, <1>2, <1>3, MeantLine
<1> QED BY <1>1, <1>7, <1>8, <1>9, <1>10, <1>11, MeansWithin

LEMMA MeansReturns ==
  ASSUME Shape, Shape', AllFit(frames), Means, AtWord, tokens' = tokens, Returns
  PROVE  Means'
<1> DEFINE h == Returned
<1>1. /\ frames # <<>> /\ source # <<>> /\ Top \in FrameType /\ at_word /\ source' = source
      /\ macro_definitions' = macro_definitions
  BY DEF AtWord
<1>2. Drops(h) /\ at_word' = TRUE /\ Top.flags # "Nothing"
  BY DEF Returns
<1>3. /\ Around \in FrameType /\ depth - 1 \in DOMAIN frames
      /\ Around.pc = IF Top.flags = "StopOnEndif" THEN "after_else" ELSE "after_elif"
  BY <1>1, <1>2, CallerBelow DEF Around, Shape
<1>4. Fits(Around) /\ Fits(Top) /\ FitsOn(Top, Around)
  <2>1. Top = frames[depth] /\ depth \in DOMAIN frames
    BY <1>1, TopFrame DEF Shape
  <2> QED BY <1>3, <2>1 DEF AllFit, Around
<1>5. /\ Top.elifs = <<>> /\ Top.else_branch = <<>> /\ Around.else_branch = <<>>
      /\ Top.flags = "StopOnElifElseEndif" => Around.elifs = <<>>
  BY <1>2, <1>3, <1>4, <1>1 DEF Fits, FitsOn, FrameType, Flags
<1>6. /\ h.flags = Around.flags /\ h.cond = Around.cond /\ h.body = Around.body
      /\ \/ Around.elifs = <<>> /\ h.elifs = <<Contents(Top)>> /\ h.else_branch = <<>>
         \/ h.elifs = Around.elifs /\ h.else_branch = <<Contents(Top)>>
  <2>1. CASE Top.flags = "StopOnElifElseEndif"
    <3>1. PICK b : b = Append(Around.elifs, Contents(Top))
      OBVIOUS
    <3>2. b = <<Contents(Top)>>
      <4>1. PICK x \in Branch : x = Contents(Top)
        BY <1>1, FrameParts
      <4>2. Append(<<>>, x) = <<x>>
        OBVIOUS
      <4> QED BY <1>5, <2>1, <3>1, <4>1, <4>2
    <3>3. h = [Around EXCEPT !.elifs = b]
      BY <2>1, <3>1 DEF Returned, Around
    <3> HIDE DEF h
    <3>4. /\ h.flags = Around.flags /\ h.cond = Around.cond /\ h.body = Around.body
          /\ h.elifs = b /\ h.else_branch = Around.else_branch
      BY <1>3, <3>3 DEF FrameType
    <3> QED BY <1>5, <2>1, <3>2, <3>4
  <2>2. CASE Top.flags # "StopOnElifElseEndif"
    BY <1>3, <1>5, <2>2 DEF Returned, Around, FrameType
  <2> QED BY <2>1, <2>2
<1> HIDE DEF h
<1>7. PICK q : q = Replayed(Base, frames, depth - 2)
  OBVIOUS
<1>8. With(q, h) = With(With(q, Around), Top)
  BY <1>2, <1>5, <1>6, WithReturned
<1>9. /\ Replayed(Base, frames', Len(frames')) = With(q, h)
      /\ Replayed(Base, frames, depth - 1) = With(q, Around)
  BY <1>2, <1>7, ReplayDropped DEF Shape
<1>10. Meaning = With(With(q, Around), Top)
  BY <1>1, <1>9, BelowTop DEF Means
<1>11. MeantUpTo(source', Processed') = Meaning
  BY <1>1, <1>2, MeaningAtWord DEF Shape, Meaning
<1> QED BY <1>1, <1>8, <1>9, <1>10, <1>11, MeansWithin

LEMMA MeansCloses ==
  ASSUME Shape, AllFit(frames), Means, NEW c, Closes(c)
  PROVE  Means'
<1>1. /\ frames # <<>> /\ source # <<>> /\ Top \in FrameType /\ at_word /\ source' = source
      /\ macro_definitions' = macro_definitions /\ Last(source).dir = "endif"
      /\ at_word' = FALSE /\ Top.flags = "Nothing"
      /\ c = handle_if_chain(Top) /\ c \in Seq(Nat)
      /\ \/ depth = 1 /\ frames' = <<>> /\ tokens' = tokens \o c
         \/ /\ depth >= 2 /\ Around \in FrameType /\ Around.pc \in {"body", "nested"}
            /\ Drops(Ended(c)) /\ tokens' = tokens
  BY DEF Closes, AtWord, RegularWord, Ends
<1>2. PICK l : l = Last(source)
  OBVIOUS
<1>3. PICK s : s = Replayed(Base, frames, depth - 1)
  OBVIOUS
<1>4. IsState(s) /\ s.defined = macro_definitions /\ Meaning = With(s, Top)
  BY <1>1, <1>3, BelowTop DEF Means
<1>5. Fits(Top)
  <2>1. Top = frames[depth] /\ depth \in DOMAIN frames
    BY <1>1, TopFrame DEF Shape
  <2> QED BY <2>1 DEF AllFit
<1>6. MeantUpTo(source', Processed') = Meant(With(s, Top), Len(source), l)
  BY <1>1, <1>2, <1>4, MeaningAtWord DEF Shape, Meaning
<1>7. Meant(With(s, Top), Len(source), l) = [With(s, Top) EXCEPT !.open = Front(@)]
  BY <1>1, <1>2, MeantLine
<1>8. [With(s, Top) EXCEPT !.open = Front(@)] = Took(s, c)
  BY <1>1, <1>4, <1>5, ChainCollected
<1>9. CASE depth = 1 /\ frames' = <<>> /\ tokens' = tokens \o c
  <2>1. PICK b : b = [out |-> tokens, open |-> <<>>, defined |-> macro_definitions]
    OBVIOUS
  <2>2. s = b
    <3>1. depth - 1 = 0 /\ 0 \in Nat
      BY <1>9
    <3>2. Replayed(b, frames, 0) = b
      BY <3>1, ReplayUnfolds
    <3> QED BY <1>3, <2>1, <3>1, <3>2 DEF Base
  <2>3. PICK d : d = [out |-> tokens', open |-> <<>>, defined |-> macro_definitions']
    OBVIOUS
  <2>4. Took(s, c) = d
    <3>1. b.out = tokens /\ b.open = <<>>
      BY <2>1
    <3>2. PICK o : o = tokens \o c
      OBVIOUS
    <3>3. Took(b, c) = [b EXCEPT !.out = o]
      BY <3>1, <3>2 DEF Took, Active
    <3>4. tokens' = o
      BY <1>9, <3>2
    <3>5. d = [b EXCEPT !.out = o]
      BY <1>1, <2>1, <2>3, <3>4
    <3> QED BY <2>2, <3>3, <3>5
  <2>5. Replayed(d, frames', Len(frames')) = d
    <3>1. Len(<<>>) = 0 /\ 0 \in Nat
      OBVIOUS
    <3>2. Replayed(d, frames', 0) = d
      BY <3>1, ReplayUnfolds
    <3> QED BY <1>9, <3>1, <3>2
  <2> QED BY <1>6, <1>7, <1>8, <2>3, <2>4, <2>5, MeansAfter
<1>10. CASE /\ depth >= 2 /\ Around \in FrameType /\ Around.pc \in {"body", "nested"}
            /\ Drops(Ended(c)) /\ tokens' = tokens
  <2> DEFINE g == Ended(c)
  <2>1. PICK n \in 0 .. depth : n = depth - 2
    BY <1>10, NoFrames DEF Shape
  <2>2. PICK q : q = Replayed(Base, frames, n)
    OBVIOUS
  <2>3. IsState(q) /\ (n # 0 => q.open # <<>>)
    BY <2>2, ReplayStates
  <2>4. Fits(Around) /\ (Around.flags # "Nothing" => n # 0)
    <3>1. depth - 1 \in DOMAIN frames /\ (n = 0 => depth - 1 = 1)
      BY <1>10, <2>1, NoFrames DEF Shape
    <3> QED BY <3>1 DEF AllFit, Around, Shape, Stacked
  <2>5. Around.elifs = <<>> /\ Around.else_branch = <<>>
    BY <1>10, <2>4 DEF Fits
  <2>6. /\ g.flags = Around.flags /\ g.cond = Around.cond /\ g.body = Around.body \o c
        /\ g.elifs = <<>> /\ g.else_branch = <<>> /\ Drops(g)
    BY <1>10, <2>5 DEF Ended, FrameType
  <2> HIDE DEF g
  <2>7. /\ Replayed(Base, frames', Len(frames')) = With(q, g)
        /\ s = With(q, Around)
    BY <1>3, <2>1, <2>2, <2>6, ReplayDropped DEF Shape
  <2>8. With(q, g) = Took(With(q, Around), c)
    BY <1>1, <1>10, <2>3, <2>4, <2>5, <2>6, WithMore
  <2> QED BY <1>1, <1>6, <1>7, <1>8, <1>10, <2>7, <2>8, MeansWithin
<1> QED BY <1>1, <1>9, <1>10

LEMMA MeaningNext ==
  ASSUME Shape, RegularChains, MeaningKept, [Next]_vars
  PROVE  MeaningKept'
<1> SUFFICES ASSUME oddities' = {}, phase' \in {"running", "done"}
             PROVE  Means'
  BY DEF MeaningKept, Means, Meaning
<1>1. Shape' /\ oddities = {} /\ AllFit(frames) /\ (phase = "running" \/ UNCHANGED vars)
  BY ShapeNext, PhaseAndOddities, RegularIsFit
<1>2. Means
  <2>1. phase \in {"running", "done"}
    BY <1>1 DEF vars
  <2> QED BY <1>1, <2>1 DEF MeaningKept, Means, Meaning
<1>3. CASE Passes
  <2>1. UNCHANGED <<source, at_word, frames, tokens, macro_definitions>>
    BY <1>3 DEF Passes
  <2> QED BY <1>2, <2>1 DEF Means, Meaning, Base, Processed
<1>4. CASE Chaining
  <2>1. ASSUME NEW flags \in Flags, NEW pc \in Places, Goes(pc)
        PROVE  Means'
    <3>1. MeantUpTo(source', Processed') = Meaning
      BY <1>1, <1>4, <2>1, MeaningAtWord DEF Shape, Meaning, Chaining, AtWord, Goes
    <3> QED BY <1>1, <1>2, <1>4, <2>1, <3>1, MeansGoes DEF Chaining, AtWord, Goes
  <2> QED BY <1>1, <1>2, <1>4, <2>1, MeansCalls, MeansReturns DEF Chaining
<1> QED BY <1>1, <1>2, <1>3, <1>4, EvenSteps, MeansTopLine, MeansBegins, MeansTextLine,
           MeansMeets, MeansCloses
----------------------------------------------------------------------------
LEMMA InvInit == Init => PreprocessorInv
<1> SUFFICES ASSUME Init
             PROVE  PreprocessorInv
  OBVIOUS
<1>1. /\ source = <<>> /\ frames = <<>> /\ tokens = <<>> /\ macro_definitions = {}
      /\ at_word = FALSE /\ phase = "running" /\ oddities = {}
  BY DEF Init
<1>2. Shape
  BY ShapeInit
<1>3. Len(<<>>) = 0 /\ DOMAIN <<>> = {} /\ 0 \in Nat
  OBVIOUS
<1>4. Processed = 0
  BY <1>1, <1>3 DEF Processed
<1>5. Ordered
  BY <1>1, <1>3 DEF Ordered, Rising, ReadIn
<1>6. NestingKept
  <2>1. Cardinality(Chains) = 0
    BY <1>1, <1>2, ChainCount
  <2>2. 1 .. 0 = {}
    OBVIOUS
  <2>3. {i \in 1 .. 0 : source[i].dir \in Ifs} = {} /\ {i \in 1 .. 0 : source[i].dir = "endif"} = {}
    BY <2>2
  <2>4. Cardinality({}) = 0
    BY FS_EmptySet
  <2>5. Nesting(1, 0) = 0
    BY <2>3, <2>4 DEF Nesting
  <2> QED BY <1>4, <2>1, <2>5 DEF NestingKept
<1>7. ChainOpen /\ OnlyUnknown /\ RegularChains
  BY <1>1, <1>3 DEF ChainOpen, OnlyUnknown, RegularChains
<1>8. MeaningKept
  <2>1. MeantUpTo(source, 0) = Start
    BY <1>3, MeaningUnfolds
  <2>2. Replayed(Base, frames, 0) = Base
    BY <1>3, ReplayUnfolds
  <2>3. Base = Start
    BY <1>1 DEF Base, Start
  <2> QED BY <1>1, <1>3, <1>4, <2>1, <2>2, <2>3 DEF MeaningKept
<1> QED BY <1>2, <1>5, <1>6, <1>7, <1>8 DEF PreprocessorInv, Shape

LEMMA InvNext == PreprocessorInv /\ [Next]_vars => PreprocessorInv'
<1> SUFFICES ASSUME PreprocessorInv, [Next]_vars
             PROVE  PreprocessorInv'
  OBVIOUS
<1>1. /\ Shape /\ Ordered /\ NestingKept /\ ChainOpen /\ OnlyUnknown
      /\ RegularChains /\ MeaningKept
  BY DEF PreprocessorInv, Shape
<1>2. Shape'
  BY <1>1, ShapeNext
<1>3. Ordered' /\ NestingKept' /\ ChainOpen'
  BY <1>1, OrderedNext, NestingKeptNext, ChainOpenNext
<1>4. OnlyUnknown' /\ RegularChains' /\ MeaningKept'
  BY <1>1, OnlyUnknownNext, RegularNext, MeaningNext
<1> QED BY <1>2, <1>3, <1>4 DEF PreprocessorInv, Shape

(* Whatever the source, do_tokenization, parse_if_chain and                *)
(* handle_if_chain keep what PreprocessorInv says: the types, how the      *)
(* calls of parse_if_chain stand on each other, where the lines of the     *)
(* source are, and what the branches collected so far mean.                *)
THEOREM PreprocessorInvariance == Spec => []PreprocessorInv
BY InvInit, InvNext, PTL DEF Spec

(* The line numbers in the program's tokens, and in the body of every      *)
(* chain under way, rise: handle_if_chain puts the tokens of a branch      *)
(* behind what was collected before its #if, and no token is taken twice.  *)
THEOREM SourceOrder == Spec => []InOrder
<1>1. PreprocessorInv => InOrder
  <2> SUFFICES ASSUME TypeOK, Ordered
               PROVE  InOrder
    BY DEF PreprocessorInv
  <2>1. ASSUME NEW s \in Seq(Nat), Rising(s)
        PROVE  \A i \in 1 .. Len(s) - 1 : s[i] < s[i + 1]
    BY <2>1 DEF Rising
  <2>2. tokens \in Seq(Nat) /\ Rising(tokens)
    BY DEF TypeOK, Ordered
  <2>3. ASSUME NEW k \in DOMAIN frames
        PROVE  frames[k].body \in Seq(Nat) /\ Rising(frames[k].body)
    <3>1. frames[k] \in FrameType
      BY <2>3 DEF TypeOK
    <3> QED BY <2>3, <3>1, FrameParts DEF Ordered, Bodies
  <2> QED BY <2>1, <2>2, <2>3 DEF InOrder
<1> QED BY <1>1, PreprocessorInvariance, PTL

(* Between two lines of any source there is exactly one call of            *)
(* parse_if_chain for each chain that is open there, however they are      *)
(* nested, as long as no #if or #endif is read as text behind an #endif:   *)
(* each #endif ends the chain it belongs to.                               *)
THEOREM RecursionIsNesting == Spec => []NestingFollowsSource
<1>1. PreprocessorInv => NestingFollowsSource
  BY DEF PreprocessorInv, NestingKept, NestingFollowsSource, Processed
<1> QED BY <1>1, PreprocessorInvariance, PTL

(* The tokens of the program hold no directive but one directly behind an  *)
(* #endif, and a #define, an #error or an #elif within a chain: all the    *)
(* others are handled where they stand, at any depth.                      *)
THEOREM NoDirectiveIsText == Spec => []DirectivesHandled
<1>1. PreprocessorInv => DirectivesHandled
  <2> SUFFICES ASSUME TypeOK, OnlyUnknown
               PROVE  DirectivesHandled
    BY DEF PreprocessorInv
  <2>1. ASSUME NEW n \in Range(tokens)
        PROVE  \/ source[n].dir \notin Directives
               \/ n > 1 /\ source[n - 1].dir = "endif"
               \/ source[n].dir \in {"define", "error", "elif"}
                  /\ \E j \in 1 .. n - 1 : Within(n, j)
    <3>1. PICK i \in DOMAIN tokens : n = tokens[i]
      BY <2>1 DEF Range
    <3> QED BY <3>1 DEF OnlyUnknown, Unknown
  <2> QED BY <2>1 DEF DirectivesHandled
<1> QED BY <1>1, PreprocessorInvariance, PTL

(* Of each chain, whatever is nested in it, the program gets the tokens of *)
(* exactly the branch that the conditions select, and the macros of the    *)
(* #defines met: for a source of any length with none of the five          *)
(* oddities, parse_if_chain and handle_if_chain compute what conditional   *)
(* sections mean.                                                          *)
THEOREM BranchesAreSelected == Spec => []SelectedBranches
<1>1. PreprocessorInv => SelectedBranches
  <2> SUFFICES ASSUME Position, MeaningKept, frames = <<>>,
                      phase \in {"running", "done"}, oddities = {}
               PROVE  /\ tokens = MeantUpTo(source, Len(source)).out
                      /\ macro_definitions = MeantUpTo(source, Len(source)).defined
    BY DEF PreprocessorInv, SelectedBranches
  <2>1. Processed = Len(source)
    BY DEF Position, Processed
  <2>2. Len(<<>>) = 0 /\ 0 \in Nat
    OBVIOUS
  <2>3. Replayed(Base, frames, 0) = Base
    BY <2>2, ReplayUnfolds
  <2>4. Base = MeantUpTo(source, Len(source))
    BY <2>1, <2>2, <2>3 DEF MeaningKept
  <2> QED BY <2>4 DEF Base
<1> QED BY <1>1, PreprocessorInvariance, PTL
=============================================================================
