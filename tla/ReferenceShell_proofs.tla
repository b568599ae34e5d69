------------------------ MODULE ReferenceShell_proofs ------------------------
(***************************************************************************)
(* For any scripts, however they run one another, and any input: the state *)
(* of the reference shell stays in its types, run nests no deeper than     *)
(* files can be opened, and the shell implements TextExpansion.  The text  *)
(* still to be done is that of the innermost call, then of its caller, and *)
(* so on to main.                                                          *)
(***************************************************************************)
EXTENDS ReferenceShell, SequenceTheorems, WellFoundedInduction, TLAPS

Frame == [file : Seq(Names), read : Nat, todo : Seq(Commands)]

FramesOK(fs) ==
  /\ fs \in Seq(Frame)
  /\ Len(fs) \in 1 .. MaxOpen + 1
  /\ \A d \in 2 .. Len(fs) : FrameOK(fs[d])

DiskOK ==
  /\ dir \in dirs
  /\ dirs \subseteq Seq(Names)
  /\ files \subseteq Seq(Names)
  /\ dirs \cap files = {}

RestOK ==
  /\ executed \in Seq(Commands \cup {NotFound, BadCd, Garbage})
  /\ source \in {"batch", "ended", "tty"}
  /\ terminal \in BOOLEAN
  /\ status \in {"running", "exited", "undefined"}
  /\ input \in Seq(Seq(Commands))

LEMMA Parts == TypeOK <=> FramesOK(frames) /\ DiskOK /\ RestOK
BY DEF TypeOK, FramesOK, Frame, DiskOK, RestOK, Depth

-----------------------------------------------------------------------------
LEMMA TopType ==
  ASSUME FramesOK(frames)
  PROVE  /\ Depth \in 1 .. MaxOpen + 1
         /\ Top \in Frame
         /\ Depth > 1 => FrameOK(Top)
BY DEF FramesOK, Depth, Top

\* The top frame may be replaced by one of the same file.
LEMMA WithTopOK ==
  ASSUME FramesOK(frames), NEW frame \in Frame, Depth > 1 => FrameOK(frame)
  PROVE  FramesOK(WithTop(frame)) /\ Len(WithTop(frame)) = Depth
<1>1. frames \in Seq(Frame) /\ Depth = Len(frames) /\ Depth \in 1 .. Len(frames)
  BY DEF FramesOK, Depth
<1>2. /\ WithTop(frame) \in Seq(Frame)
      /\ Len(WithTop(frame)) = Len(frames)
      /\ \A d \in 1 .. Len(frames) :
           WithTop(frame)[d] = IF d = Depth THEN frame ELSE frames[d]
  BY <1>1, ExceptSeq DEF WithTop
<1> QED
  BY <1>1, <1>2 DEF FramesOK

LEMMA CommandType ==
  ASSUME FramesOK(frames), Top.todo # << >>
  PROVE  /\ Head(Top.todo) \in Commands
         /\ Advanced \in Frame
         /\ Depth > 1 => FrameOK(Advanced)
<1>1. Top \in Frame /\ (Depth > 1 => FrameOK(Top))
  BY TopType
<1>2. Head(Top.todo) \in Commands /\ Tail(Top.todo) \in Seq(Commands)
  BY <1>1 DEF Frame
<1>3. Advanced = [Top EXCEPT !.todo = Tail(Top.todo)]
  BY DEF Advanced
<1>4. Advanced \in Frame /\ Advanced.file = Top.file /\ Advanced.read = Top.read
  BY <1>1, <1>2, <1>3 DEF Frame
<1> QED
  BY <1>1, <1>2, <1>4 DEF FrameOK

LEMMA ReadsType ==
  ASSUME NEW f \in Scripts
  PROVE  /\ LinesOf[f] \in Seq(Seq(Commands))
         /\ Len(LinesOf[f]) \in Nat
         /\ LinesOf[f] # << >> => Len(LinesOf[f]) >= 1
         /\ Reads(f) \in {Len(LinesOf[f]), Len(LinesOf[f]) + 1}
<1>1. LinesOf[f] \in Seq(Seq(Commands))
  BY ReferenceShellAssumption
<1>2. Len(LinesOf[f]) \in Nat
  BY <1>1, LenProperties
<1>3. LinesOf[f] # << >> => Len(LinesOf[f]) >= 1
  BY <1>1, <1>2, EmptySeq
<1>4. CASE f \in Terminated
  BY <1>1, <1>2, <1>3, <1>4 DEF Reads
<1>5. CASE f \notin Terminated
  BY <1>1, <1>2, <1>3, <1>5 DEF Reads
<1> QED
  BY <1>4, <1>5

LEMMA InitTypeOK == Init => TypeOK
<1> SUFFICES ASSUME Init PROVE TypeOK
  OBVIOUS
<1> USE ReferenceShellAssumption
<1>1. FramesOK(frames)
  BY DEF Init, FramesOK, Frame, Stdin, Home
<1>2. DiskOK
  <2>1. Scripts \subseteq Seq(Names) /\ Home \in Seq(Names) \ Scripts
    BY DEF Home
  <2>2. ASSUME NEW f \in Scripts
        PROVE  Parents(f) \subseteq Seq(Names)
    <3> SUFFICES ASSUME NEW n \in 0 .. Len(f) - 1
                 PROVE  SubSeq(f, 1, n) \in Seq(Names)
      BY DEF Parents
    <3> QED
      BY <2>1, SubSeqProperties
  <2>3. /\ dirs = {Home} \cup UNION { Parents(f) : f \in Scripts }
        /\ files = Scripts /\ dir = Home
    BY DEF Init
  <2>4. dirs \subseteq Seq(Names)
    BY <2>1, <2>2, <2>3
  <2>5. dirs \cap files = {}
    BY <2>1, <2>3
  <2> QED
    BY <2>1, <2>3, <2>4, <2>5 DEF DiskOK
<1>3. RestOK
  BY DEF Init, RestOK
<1> QED
  BY <1>1, <1>2, <1>3, Parts

LEMMA NextTypeOK == TypeOK /\ [Next]_vars => TypeOK'
<1> SUFFICES ASSUME FramesOK(frames), DiskOK, RestOK, [Next]_vars
             PROVE  FramesOK(frames') /\ DiskOK' /\ RestOK'
  BY DEF TypeOK, FramesOK, Frame, DiskOK, RestOK, Depth
<1> USE ReferenceShellAssumption
<1>1. CASE UNCHANGED vars
  BY <1>1 DEF vars, disk, DiskOK, RestOK
\* The steps of main, between two lines.
<1>2. ASSUME AtPrompt, NEW line \in Seq(Commands),
             frames' = WithTop([Top EXCEPT !.todo = line])
      PROVE  FramesOK(frames')
  <2>1. [Top EXCEPT !.todo = line] \in Frame /\ Depth = 1
    BY <1>2, TopType DEF Frame, AtPrompt
  <2> QED
    BY <1>2, <2>1, WithTopOK
<1>3. ASSUME NEW line \in InputLines, ReadInput(line)
      PROVE  FramesOK(frames') /\ DiskOK' /\ RestOK'
  <2>1. line \in Seq(Commands)
    OBVIOUS
  <2>2. FramesOK(frames')
    BY <1>2, <1>3, <2>1 DEF ReadInput
  <2>3. input' \in Seq(Seq(Commands)) /\ source' \in {"batch", "ended", "tty"}
    BY <1>3, <2>1, AppendProperties DEF ReadInput, RestOK
  <2> QED
    BY <1>3, <2>2, <2>3 DEF ReadInput, disk, DiskOK, RestOK
<1>4. CASE ReadEnd
  <2>1. <<Blank>> \in Seq(Commands)
    BY DEF Commands
  <2>2. FramesOK(frames')
    BY <1>2, <1>4, <2>1 DEF ReadEnd
  <2>3. input' \in Seq(Seq(Commands))
    BY <1>4, <2>1, AppendProperties DEF ReadEnd, RestOK
  <2> QED
    BY <1>4, <2>2, <2>3 DEF ReadEnd, disk, DiskOK, RestOK
<1>5. CASE OpenTerminal
  BY <1>5 DEF OpenTerminal, disk, DiskOK, RestOK
\* The steps that take a command.
<1>6. ASSUME Top.todo # << >>,
             NEW result \in Commands \cup {NotFound, BadCd, Garbage},
             \/ Done(result)
             \/ \E how \in {"exited", "undefined"} : Stops(result, how)
      PROVE  FramesOK(frames') /\ RestOK'
  <2>1. FramesOK(WithTop(Advanced))
    BY <1>6, CommandType, WithTopOK
  <2>2. Append(executed, result) \in Seq(Commands \cup {NotFound, BadCd, Garbage})
    BY <1>6 DEF RestOK
  <2>3. CASE Done(result)
    BY <2>1, <2>2, <2>3 DEF Done, RestOK
  <2>4. ASSUME NEW how \in {"exited", "undefined"}, Stops(result, how)
        PROVE  FramesOK(frames') /\ RestOK'
    BY <2>2, <2>4 DEF Stops, RestOK
  <2> QED
    BY <1>6, <2>3, <2>4
<1>7. CASE Interpret
  <2>1. Top.todo # << >> /\ Done(Head(Top.todo)) /\ UNCHANGED disk
    BY <1>7 DEF Interpret, NextIs
  <2> QED
    BY <1>6, <2>1, CommandType DEF disk, DiskOK
<1>8. CASE quit
  <2>1. Top.todo # << >> /\ Stops(Quit, "exited") /\ UNCHANGED disk
    BY <1>8 DEF quit, NextIs
  <2> QED
    BY <1>6, <2>1 DEF disk, DiskOK, Commands
<1>9. ASSUME NEW n \in Names
      PROVE  Here(n) \in Seq(Names)
  BY DEF Here, DiskOK
<1>10. ASSUME NEW n \in Names, cd(n)
       PROVE  FramesOK(frames') /\ DiskOK' /\ RestOK'
  <2>1. Top.todo # << >> /\ (Done(Head(Top.todo)) \/ Done(BadCd))
    BY <1>10 DEF cd, NextHas, NextIs
  <2>2. DiskOK'
    BY <1>10 DEF cd, DiskOK
  <2> QED
    BY <1>6, <2>1, <2>2, CommandType
<1>11. ASSUME NEW n \in Names, my_mkdir(n)
       PROVE  FramesOK(frames') /\ DiskOK' /\ RestOK'
  <2>1. Top.todo # << >> /\ Done(Head(Top.todo))
    BY <1>11 DEF my_mkdir, NextHas, NextIs
  <2>2. DiskOK'
    BY <1>9, <1>11 DEF my_mkdir, DiskOK
  <2> QED
    BY <1>6, <2>1, <2>2, CommandType
<1>12. ASSUME NEW n \in Names, touch(n)
       PROVE  FramesOK(frames') /\ DiskOK' /\ RestOK'
  <2>1. /\ Top.todo # << >>
        /\ Done(Head(Top.todo)) \/ Stops(Head(Top.todo), "undefined")
    BY <1>12 DEF touch, NextHas, NextIs
  <2>2. DiskOK'
    BY <1>9, <1>12 DEF touch, DiskOK
  <2> QED
    BY <1>6, <2>1, <2>2, CommandType
<1>13. ASSUME NEW n \in Names, RunEmpty(n) \/ RunNotFound(n)
       PROVE  FramesOK(frames') /\ DiskOK' /\ RestOK'
  <2>1. /\ Top.todo # << >> /\ UNCHANGED disk
        /\ Done(NotFound) \/ Stops(Garbage, "undefined")
    BY <1>13 DEF RunEmpty, RunNotFound, NextHas, NextIs
  <2> QED
    BY <1>6, <2>1 DEF disk, DiskOK
\* run, which nests, and the steps of its loop.
<1>14. ASSUME NEW n \in Names, run(n)
       PROVE  FramesOK(frames') /\ DiskOK' /\ RestOK'
  <2> DEFINE callee == [file |-> Here(n), read |-> 1, todo |-> LinesOf[Here(n)][1]]
             caller == WithTop(Caller)
  <2>1. /\ frames' = Append(caller, callee)
        /\ Here(n) \in Scripts /\ LinesOf[Here(n)] # << >>
        /\ Top.todo # << >> /\ Depth - 1 < MaxOpen
        /\ UNCHANGED <<executed, source, terminal, status, input, disk>>
    BY <1>14 DEF run, NextHas, NextIs, HasLines, CanOpen
  <2>2. FramesOK(caller) /\ Len(caller) = Depth
    BY <2>1, CommandType, WithTopOK DEF Caller
  <2>3. callee \in Frame /\ FrameOK(callee)
    <3>1. LinesOf[Here(n)] \in Seq(Seq(Commands)) /\ 1 \in 1 .. Len(LinesOf[Here(n)])
      BY <2>1, ReadsType
    <3>2. LinesOf[Here(n)][1] \in Seq(Commands)
      BY <3>1, ElementOfSeq
    <3>3. 1 \in 1 .. Reads(Here(n))
      <4>1. Reads(Here(n)) \in Nat /\ Reads(Here(n)) >= 1
        BY <2>1, ReadsType
      <4> QED
        BY <4>1
    <3> QED
      BY <1>9, <2>1, <3>2, <3>3 DEF Frame, FrameOK
  <2>4. FramesOK(Append(caller, callee))
    <3> HIDE DEF caller, callee
    <3>1. /\ Append(caller, callee) \in Seq(Frame)
          /\ Len(Append(caller, callee)) = Depth + 1
          /\ \A d \in 1 .. Depth + 1 :
               Append(caller, callee)[d] = IF d <= Depth THEN caller[d] ELSE callee
      BY <2>2, <2>3, TopType, AppendProperties DEF FramesOK
    <3> QED
      BY <2>1, <2>2, <2>3, <3>1, TopType DEF FramesOK
  <2> QED
    BY <2>1, <2>4 DEF disk, DiskOK, RestOK
<1>15. CASE NextLine
  <2> DEFINE line  == IF Top.read < Len(LinesOf[Top.file])
                        THEN LinesOf[Top.file][Top.read + 1]
                        ELSE <<Blank>>
             frame == [Top EXCEPT !.read = Top.read + 1, !.todo = line]
  <2>1. /\ frames' = WithTop(frame)
        /\ Depth > 1 /\ Top.read < Reads(Top.file)
        /\ UNCHANGED <<executed, source, terminal, status, input, disk>>
    BY <1>15 DEF NextLine, LineDone
  <2>2. /\ Top \in Frame /\ Top.file \in Scripts /\ LinesOf[Top.file] # << >>
        /\ Top.read \in 1 .. Reads(Top.file)
    BY <2>1, TopType DEF FrameOK
  <2>3. LinesOf[Top.file] \in Seq(Seq(Commands))
    BY <2>2, ReadsType
  <2>4. line \in Seq(Commands)
    <3>1. CASE Top.read < Len(LinesOf[Top.file])
      <4>1. Top.read + 1 \in 1 .. Len(LinesOf[Top.file])
        BY <2>2, <2>3, <3>1, LenProperties DEF Frame
      <4> QED
        BY <2>3, <3>1, <4>1, ElementOfSeq
    <3>2. CASE ~(Top.read < Len(LinesOf[Top.file]))
      BY <3>2 DEF Commands
    <3> QED
      BY <3>1, <3>2
  <2>5. Reads(Top.file) \in Nat
    BY <2>2, ReadsType
  <2>6. frame \in Frame /\ FrameOK(frame)
    <3> HIDE DEF line
    <3>1. frame \in Frame
      <4>1. Top.read + 1 \in Nat
        BY <2>2 DEF Frame
      <4> QED
        BY <2>2, <2>4, <4>1 DEF Frame
    <3>2. frame.file = Top.file /\ frame.read = Top.read + 1
      BY <2>2 DEF Frame
    <3>3. Top.read + 1 \in 1 .. Reads(Top.file)
      BY <2>1, <2>2, <2>5
    <3> QED
      BY <2>2, <3>1, <3>2, <3>3 DEF FrameOK
  <2> HIDE DEF frame
  <2> QED
    BY <2>1, <2>6, WithTopOK DEF disk, DiskOK, RestOK
<1>16. CASE EndScript
  <2>1. /\ frames' = SubSeq(frames, 1, Depth - 1) /\ Depth > 1
        /\ UNCHANGED <<executed, source, terminal, status, input, disk>>
    BY <1>16 DEF EndScript, LineDone
  <2>2. /\ SubSeq(frames, 1, Depth - 1) \in Seq(Frame)
        /\ Len(SubSeq(frames, 1, Depth - 1)) = Depth - 1
        /\ \A d \in 1 .. Depth - 1 : SubSeq(frames, 1, Depth - 1)[d] = frames[d]
    BY <2>1, TopType, SubSeqProperties DEF FramesOK, Depth
  <2>3. FramesOK(frames')
    BY <2>1, <2>2, TopType DEF FramesOK, Depth
  <2> QED
    BY <2>1, <2>3 DEF disk, DiskOK, RestOK
<1> QED
  BY <1>1, <1>3, <1>4, <1>5, <1>7, <1>8, <1>10, <1>11, <1>12, <1>13, <1>14,
     <1>15, <1>16 DEF Next, Work

\* The types of the shell's state; in particular no more scripts are being run
\* than can be open, and none is read past its end.
THEOREM TypeCorrect == Spec => []TypeOK
BY InitTypeOK, NextTypeOK, PTL DEF Spec

-----------------------------------------------------------------------------
(* What the sequences of a sequence make together.                         *)

\* Every non-empty set of numbers has a least member.
LEMMA LeastMember ==
  ASSUME NEW S \in SUBSET Nat, S # {}
  PROVE  \E p \in S : \A q \in S : p <= q
<1>1. PICK p \in S : \A q \in S : ~(<<q, p>> \in OpToRel(<, Nat))
  BY NatLessThanWellFounded, WFMin
<1>2. ASSUME NEW q \in S PROVE p <= q
  <2>1. p \in Nat /\ q \in Nat
    OBVIOUS
  <2>2. ~(q < p)
    <3>1. q < p => <<q, p>> \in OpToRel(<, Nat)
      BY <2>1 DEF OpToRel
    <3> QED
      BY <1>1, <3>1
  <2> QED
    BY <2>1, <2>2
<1> QED
  BY <1>2

\* g[i] is what the first i members of s make together.
Joins(g, s, n) ==
  g = [i \in 1 .. n |-> IF i = 1 THEN s[i] ELSE g[i-1] \o s[i]]

LEMMA JoinsExist ==
  ASSUME NEW s, NEW n \in Nat
  PROVE  \E g : Joins(g, s, n)
<1> DEFINE Bad == { m \in Nat : ~(\E g : Joins(g, s, m)) }
<1>1. SUFFICES ASSUME Bad # {} PROVE FALSE
  OBVIOUS
<1>2. PICK p \in Bad : \A q \in Bad : p <= q
  BY <1>1, LeastMember
<1>3. CASE p = 0
  <2>1. Joins([i \in 1 .. 0 |-> 0], s, 0)
    BY DEF Joins
  <2> QED
    BY <1>2, <1>3, <2>1
<1>4. CASE p # 0
  <2>1. p - 1 \in Nat /\ p - 1 \notin Bad
    BY <1>2, <1>4
  <2>2. PICK g : Joins(g, s, p - 1)
    BY <2>1
  <2> DEFINE h == [i \in 1 .. p |-> IF i < p THEN g[i]
                                    ELSE IF i = 1 THEN s[i] ELSE g[i-1] \o s[i]]
             e(i) == IF i = 1 THEN s[i] ELSE h[i-1] \o s[i]
  <2>3. ASSUME NEW i \in 1 .. p
        PROVE  h[i] = e(i)
    <3>1. \A j \in 1 .. p - 1 : g[j] = IF j = 1 THEN s[j] ELSE g[j-1] \o s[j]
      BY <2>2 DEF Joins
    <3>2. CASE i = p
      <4>1. i # 1 => i - 1 \in 1 .. p /\ i - 1 < p
        BY <2>1
      <4> QED
        BY <3>2, <4>1
    <3>3. CASE i < p
      <4>1. i \in 1 .. p - 1 /\ (i # 1 => i - 1 \in 1 .. p /\ i - 1 < p)
        BY <2>1, <3>3
      <4> QED
        BY <3>1, <3>3, <4>1
    <3> QED
      BY <2>1, <3>2, <3>3
  <2>4. h = [i \in 1 .. p |-> e(i)]
    <3> HIDE DEF e
    <3>1. h = [i \in 1 .. p |-> h[i]]
      OBVIOUS
    <3> HIDE DEF h
    <3> QED
      BY <2>3, <3>1
  <2>5. Joins(h, s, p)
    BY <2>4 DEF Joins
  <2> QED
    BY <1>2, <2>5
<1> QED
  BY <1>3, <1>4

LEMMA JoinsType ==
  ASSUME NEW S, NEW s \in Seq(Seq(S)), NEW g, Joins(g, s, Len(s)),
         NEW k \in 1 .. Len(s)
  PROVE  g[k] \in Seq(S)
<1> DEFINE Bad == { i \in 1 .. Len(s) : g[i] \notin Seq(S) }
<1>1. SUFFICES ASSUME Bad # {} PROVE FALSE
  OBVIOUS
<1>2. PICK p \in Bad : \A q \in Bad : p <= q
  <2>1. Bad \in SUBSET Nat
    OBVIOUS
  <2> QED
    BY <1>1, <2>1, LeastMember
<1>3. g[p] = IF p = 1 THEN s[p] ELSE g[p-1] \o s[p]
  BY <1>2 DEF Joins
<1>4. s[p] \in Seq(S)
  BY <1>2
<1>5. CASE p = 1
  BY <1>2, <1>3, <1>4, <1>5
<1>6. CASE p # 1
  <2>1. p - 1 \in 1 .. Len(s) /\ p - 1 \notin Bad
    BY <1>2, <1>6
  <2>2. g[p-1] \in Seq(S)
    BY <2>1
  <2>3. g[p-1] \o s[p] \in Seq(S)
    BY <1>4, <2>2, ConcatProperties
  <2> QED
    BY <1>2, <1>3, <1>6, <2>3
<1> QED
  BY <1>5, <1>6

SameTo(s, t, m) == \A i \in 1 .. m : s[i] = t[i]

LEMMA JoinsAgree ==
  ASSUME NEW s, NEW t, NEW n \in Nat, NEW m \in 0 .. n,
         NEW g, NEW h, Joins(g, s, n), Joins(h, t, m),
         SameTo(s, t, m),
         NEW k \in 1 .. m
  PROVE  g[k] = h[k]
<1> DEFINE Bad == { i \in 1 .. m : g[i] # h[i] }
<1>1. SUFFICES ASSUME Bad # {} PROVE FALSE
  OBVIOUS
<1>2. PICK p \in Bad : \A q \in Bad : p <= q
  <2>1. Bad \in SUBSET Nat
    OBVIOUS
  <2> HIDE DEF Bad
  <2> QED
    BY <1>1, <2>1, LeastMember
<1>3. p \in 1 .. n /\ p \in 1 .. m
  BY <1>2
<1>4. /\ g[p] = IF p = 1 THEN s[p] ELSE g[p-1] \o s[p]
      /\ h[p] = IF p = 1 THEN t[p] ELSE h[p-1] \o t[p]
  BY <1>3 DEF Joins
<1>5. p # 1 => g[p-1] = h[p-1]
  <2>1. p # 1 => p - 1 \in 1 .. m /\ p - 1 \notin Bad
    BY <1>2, <1>3
  <2> QED
    BY <2>1
<1> QED
  BY <1>2, <1>3, <1>4, <1>5 DEF SameTo

LEMMA FlattenIsJoin ==
  ASSUME NEW S, NEW s \in Seq(S)
  PROVE  /\ s = << >> => FlattenSeq(s) = << >>
         /\ s # << >> => \E g : Joins(g, s, Len(s)) /\ FlattenSeq(s) = g[Len(s)]
<1>1. CASE s = << >>
  BY <1>1 DEF FlattenSeq
<1>2. CASE s # << >>
  <2>1. Len(s) \in Nat /\ Len(s) # 0
    BY <1>2, EmptySeq
  <2> DEFINE G == CHOOSE g : g = [i \in 1 .. Len(s) |->
                                    IF i = 1 THEN s[i] ELSE g[i-1] \o s[i]]
  <2>2. Joins(G, s, Len(s))
    <3>1. \E g : Joins(g, s, Len(s))
      BY <2>1, JoinsExist
    <3> QED
      BY <3>1, Zenon DEF Joins
  <2>3. FlattenSeq(s) = G[Len(s)]
    BY <2>1 DEF FlattenSeq
  <2> QED
    BY <1>2, <2>2, <2>3, Zenon
<1> QED
  BY <1>1, <1>2

LEMMA FlattenEmpty == FlattenSeq(<< >>) = << >>
BY DEF FlattenSeq

LEMMA FlattenType ==
  ASSUME NEW S, NEW s \in Seq(Seq(S))
  PROVE  FlattenSeq(s) \in Seq(S)
<1>1. CASE s = << >>
  <2>1. << >> \in Seq(S)
    BY EmptySeq
  <2> QED
    BY <1>1, <2>1, FlattenEmpty, Zenon
<1>2. CASE s # << >>
  <2>1. Len(s) \in 1 .. Len(s)
    BY <1>2, EmptySeq
  <2>2. PICK g : Joins(g, s, Len(s)) /\ FlattenSeq(s) = g[Len(s)]
    BY <1>2, FlattenIsJoin
  <2> QED
    BY <2>1, <2>2, JoinsType
<1> QED
  BY <1>1, <1>2

Associate(a, b, c) == (a \o b) \o c = a \o (b \o c)

LEMMA Associative ==
  ASSUME NEW S, NEW a \in Seq(S), NEW b \in Seq(S), NEW c \in Seq(S)
  PROVE  Associate(a, b, c)
BY ConcatAssociative DEF Associate

LEMMA SubSeqAppend ==
  ASSUME NEW S, NEW s \in Seq(S), NEW p \in 1 .. Len(s)
  PROVE  SubSeq(s, 1, p) = Append(SubSeq(s, 1, p - 1), s[p])
<1>1. /\ SubSeq(s, 1, p) = SubSeq(s, 1, p - 1) \o <<s[p]>>
      /\ s[p] \in S
  BY SubSeqRecursiveSecond, ElementOfSeq
<1>2. SubSeq(s, 1, p - 1) \in Seq(S)
  BY SubSeqProperties
<1> QED
  BY <1>1, <1>2, AppendIsConcat

LEMMA ConsAppend ==
  ASSUME NEW S, NEW x \in S, NEW s \in Seq(S), NEW y \in S
  PROVE  /\ <<x>> \o Append(s, y) = Append(<<x>> \o s, y)
         /\ <<x>> \o s \in Seq(S)
OBVIOUS

LEMMA FlattenAppend ==
  ASSUME NEW S, NEW s \in Seq(Seq(S)), NEW x \in Seq(S)
  PROVE  FlattenSeq(Append(s, x)) = FlattenSeq(s) \o x
<1> DEFINE t == Append(s, x)
           n == Len(s)
<1>1. /\ t \in Seq(Seq(S)) /\ t # << >> /\ Len(t) = n + 1 /\ n \in Nat
      /\ \A i \in 1 .. n : t[i] = s[i]
      /\ t[n + 1] = x
  BY AppendProperties
<1> HIDE DEF t, n
<1>2. PICK k \in Nat : k = n + 1 /\ k \in 1 .. k /\ n \in 0 .. k /\ k - 1 = n
  BY <1>1
<1>3. PICK h : Joins(h, t, k) /\ FlattenSeq(t) = h[k]
  BY <1>1, <1>2, FlattenIsJoin
<1>4. h[k] = IF k = 1 THEN x ELSE h[n] \o x
  <2>1. h[k] = IF k = 1 THEN t[k] ELSE h[k-1] \o t[k]
    BY <1>2, <1>3 DEF Joins
  <2> QED
    BY <1>1, <1>2, <2>1
<1>5. CASE s = << >>
  <2>1. k = 1 /\ FlattenSeq(s) = << >> /\ << >> \o x = x
    BY <1>2, <1>5, FlattenEmpty, ConcatEmptySeq DEF n
  <2> QED
    BY <1>3, <1>4, <2>1 DEF t
<1>6. CASE s # << >>
  <2>1. n \in 1 .. n /\ k # 1
    BY <1>1, <1>2, <1>6, EmptySeq DEF n
  <2>2. PICK g : Joins(g, s, n) /\ FlattenSeq(s) = g[n]
    BY <1>6, FlattenIsJoin DEF n
  <2>3. h[n] = g[n]
    <3>1. SameTo(t, s, n)
      BY <1>1 DEF SameTo
    <3>2. Joins(h, t, k) /\ Joins(g, s, n)
      BY <1>3, <2>2
    <3>3. n \in 1 .. n /\ n \in 0 .. k /\ k \in Nat
      BY <1>2, <2>1
    <3> QED
      BY <3>1, <3>2, <3>3, JoinsAgree
  <2> QED
    BY <1>3, <1>4, <2>1, <2>2, <2>3 DEF t
<1> QED
  BY <1>5, <1>6

LEMMA FlattenCons ==
  ASSUME NEW S, NEW s \in Seq(Seq(S)), NEW x \in Seq(S)
  PROVE  FlattenSeq(<<x>> \o s) = x \o FlattenSeq(s)
<1> DEFINE At(n) == SubSeq(s, 1, n)
           Bad == { n \in 0 .. Len(s) : FlattenSeq(<<x>> \o At(n)) # x \o FlattenSeq(At(n)) }
<1>1. At(Len(s)) = s /\ Len(s) \in 0 .. Len(s)
  BY SubSeqFull
<1>2. SUFFICES ASSUME Bad # {} PROVE FALSE
  BY <1>1
<1>3. PICK p \in Bad : \A q \in Bad : p <= q
  <2>1. Bad \in SUBSET Nat
    BY <1>1
  <2> HIDE DEF Bad
  <2> QED
    BY <1>2, <2>1, LeastMember
<1>4. p \in 0 .. Len(s) /\ FlattenSeq(<<x>> \o At(p)) # x \o FlattenSeq(At(p))
  BY <1>3
<1>5. <<x>> \in Seq(Seq(S)) /\ \A n \in 0 .. Len(s) : At(n) \in Seq(Seq(S))
  BY SubSeqProperties
<1>6. CASE p = 0
  <2>1. At(0) = << >>
    BY SubSeqEmpty
  <2>2. <<x>> \o << >> = Append(<< >>, x)
    BY <1>5, ConcatEmptySeq
  <2>3. << >> \in Seq(Seq(S)) /\ FlattenSeq(<< >>) = << >>
    BY FlattenEmpty
  <2>4. FlattenSeq(Append(<< >>, x)) = << >> \o x
    BY <2>3, FlattenAppend
  <2>5. << >> \o x = x /\ x \o << >> = x
    BY ConcatEmptySeq
  <2> QED
    BY <1>4, <1>6, <2>1, <2>2, <2>3, <2>4, <2>5
<1>7. CASE p # 0
  <2>1. p \in 1 .. Len(s) /\ p - 1 \in 0 .. Len(s) /\ p - 1 \notin Bad
    <3> HIDE DEF Bad
    <3>1. Len(s) \in Nat
      BY <1>1
    <3> QED
      BY <1>3, <1>4, <1>7, <3>1
  <2>2. s[p] \in Seq(S)
    BY <2>1, ElementOfSeq
  <2> DEFINE a == At(p - 1)
  <2>3. a \in Seq(Seq(S)) /\ FlattenSeq(<<x>> \o a) = x \o FlattenSeq(a)
    BY <1>5, <2>1
  <2>4. At(p) = Append(a, s[p])
    BY <2>1, SubSeqAppend
  <2> HIDE DEF a, At
  <2> DEFINE b == <<x>> \o a
             y == s[p]
             u == FlattenSeq(a)
  <2>5. <<x>> \o At(p) = Append(b, y) /\ b \in Seq(Seq(S)) /\ y \in Seq(S)
    <3> DEFINE T == Seq(S)
    <3>1. x \in T /\ y \in T /\ a \in Seq(T)
      BY <2>2, <2>3
    <3> HIDE DEF T, y
    <3>2. <<x>> \o Append(a, y) = Append(b, y) /\ b \in Seq(T)
      BY <3>1, ConsAppend
    <3> QED
      BY <2>4, <3>1, <3>2 DEF T, y
  <2>6. FlattenSeq(b) = x \o u /\ u \in Seq(S)
    BY <2>3, FlattenType
  <2>7. FlattenSeq(At(p)) = u \o y
    BY <2>2, <2>3, <2>4, FlattenAppend
  <2> HIDE DEF b, y, u
  <2>8. FlattenSeq(<<x>> \o At(p)) = (x \o u) \o y
    <3>1. FlattenSeq(Append(b, y)) = FlattenSeq(b) \o y
      BY <2>5, FlattenAppend
    <3> QED
      BY <2>5, <2>6, <3>1, Zenon
  <2>9. (x \o u) \o y = x \o (u \o y)
    <3>1. u \in Seq(S) /\ y \in Seq(S)
      BY <2>5, <2>6
    <3>2. Associate(x, u, y)
      BY <3>1, Associative, Zenon
    <3> QED
      BY <3>2 DEF Associate
  <2> QED
    BY <1>4, <2>7, <2>8, <2>9
<1> QED
  BY <1>4, <1>6, <1>7

-----------------------------------------------------------------------------
(* The text of a stack of calls.                                           *)

Item == [cmd : Commands, room : Nat]

\* Calls that read the files they should, and have them open.
StackOK(fs) ==
  /\ fs \in Seq(Frame)
  /\ Len(fs) <= MaxOpen + 1
  /\ \A d \in 1 .. Len(fs) : fs[d].file = Stdin \/ FrameOK(fs[d])

LevelsOf(fs) ==
  [i \in 1 .. Len(fs) |-> LET d == Len(fs) + 1 - i
                          IN  Tag(Pending(fs[d]), MaxOpen + 1 - d)]

TextOfStack(fs) == FlattenSeq(LevelsOf(fs))

LEMMA TagType ==
  ASSUME NEW text \in Seq(Commands), NEW room \in Nat
  PROVE  /\ Tag(text, room) \in Seq(Item)
         /\ Len(Tag(text, room)) = Len(text)
         /\ \A i \in 1 .. Len(text) :
              Tag(text, room)[i] = [cmd |-> text[i], room |-> room]
<1> DEFINE n == Len(text)
           e(i) == [cmd |-> text[i], room |-> room]
<1>1. n \in Nat /\ DOMAIN text = 1 .. n
  BY LenProperties
<1>2. \A i \in 1 .. n : e(i) \in Item
  BY ElementOfSeq DEF Item
<1> HIDE DEF n, e
<1>3. Tag(text, room) = [i \in 1 .. n |-> e(i)]
  BY <1>1 DEF Tag, e
<1>4. [i \in 1 .. n |-> e(i)] \in Seq(Item) /\ Len([i \in 1 .. n |-> e(i)]) = n
  BY <1>1, <1>2
<1> QED
  BY <1>3, <1>4 DEF n, e

LEMMA LinesReadType ==
  ASSUME NEW f \in Scripts
  PROVE  /\ LinesRead(f) \in Seq(Seq(Commands))
         /\ Len(LinesRead(f)) = Reads(f)
         /\ Reads(f) \in Nat
         /\ \A i \in 1 .. Reads(f) :
              LinesRead(f)[i] = IF i <= Len(LinesOf[f]) THEN LinesOf[f][i] ELSE <<Blank>>
<1>1. LinesOf[f] \in Seq(Seq(Commands)) /\ Len(LinesOf[f]) \in Nat
  BY ReadsType
<1>2. <<Blank>> \in Seq(Commands)
  BY DEF Commands
<1>3. CASE f \in Terminated
  <2>1. LinesRead(f) = Append(LinesOf[f], <<Blank>>) /\ Reads(f) = Len(LinesOf[f]) + 1
    BY <1>1, <1>3 DEF LinesRead, Reads
  <2> DEFINE T == Seq(Commands)
             ls == LinesOf[f]
             bl == <<Blank>>
  <2>2. ls \in Seq(T) /\ bl \in T
    BY <1>1, <1>2
  <2> HIDE DEF T, ls, bl
  <2>3. /\ Append(ls, bl) \in Seq(T) /\ Len(Append(ls, bl)) = Len(ls) + 1
        /\ \A i \in 1 .. Len(ls) + 1 :
             Append(ls, bl)[i] = IF i <= Len(ls) THEN ls[i] ELSE bl
    BY <2>2, AppendProperties
  <2> QED
    BY <1>1, <2>1, <2>3 DEF T, ls, bl
<1>4. CASE f \notin Terminated
  BY <1>1, <1>4 DEF LinesRead, Reads
<1> QED
  BY <1>3, <1>4

LEMMA PendingType ==
  ASSUME NEW frame \in Frame, frame.file = Stdin \/ FrameOK(frame)
  PROVE  /\ Unread(frame) \in Seq(Commands)
         /\ Pending(frame) \in Seq(Commands)
<1>1. frame.todo \in Seq(Commands)
  BY DEF Frame
<1>2. CASE frame.file = Stdin
  BY <1>1, <1>2 DEF Unread, Pending
<1>3. CASE frame.file # Stdin
  <2>1. frame.file \in Scripts /\ frame.read \in Nat
    BY <1>3 DEF FrameOK, Frame
  <2> DEFINE ls == LinesRead(frame.file)
             sub == SubSeq(ls, frame.read + 1, Reads(frame.file))
  <2>2. ls \in Seq(Seq(Commands)) /\ Len(ls) = Reads(frame.file) /\ Reads(frame.file) \in Nat
    BY <2>1, LinesReadType
  <2> HIDE DEF ls
  <2>3. sub \in Seq(Seq(Commands))
    <3>1. \A i \in frame.read + 1 .. Reads(frame.file) : ls[i] \in Seq(Commands)
      BY <2>1, <2>2, ElementOfSeq
    <3>2. frame.read + 1 \in Int /\ Reads(frame.file) \in Int
      BY <2>1, <2>2
    <3> QED
      BY <3>1, <3>2, SubSeqProperties
  <2> HIDE DEF sub
  <2>4. FlattenSeq(sub) \in Seq(Commands)
    BY <2>3, FlattenType
  <2>5. Unread(frame) = FlattenSeq(sub)
    BY <1>3 DEF Unread, sub, ls
  <2> QED
    BY <1>1, <2>4, <2>5, ConcatProperties DEF Pending
<1> QED
  BY <1>2, <1>3

\* A call on top of a stack is the first to go on.
LEMMA TextOfPushed ==
  ASSUME NEW fs, StackOK(fs), Len(fs) <= MaxOpen,
         NEW frame \in Frame, frame.file = Stdin \/ FrameOK(frame)
  PROVE  /\ TextOfStack(fs) \in Seq(Item)
         /\ Tag(Pending(frame), MaxOpen - Len(fs)) \in Seq(Item)
         /\ TextOfStack(Append(fs, frame))
              = Tag(Pending(frame), MaxOpen - Len(fs)) \o TextOfStack(fs)
<1> DEFINE gs == Append(fs, frame)
           n == Len(fs)
           top == Tag(Pending(frame), MaxOpen - n)
           Level(hs, d) == Tag(Pending(hs[d]), MaxOpen + 1 - d)
<1>1. /\ fs \in Seq(Frame) /\ n \in Nat /\ n <= MaxOpen /\ MaxOpen \in Nat
      /\ \A d \in 1 .. n : fs[d].file = Stdin \/ FrameOK(fs[d])
  BY ReferenceShellAssumption DEF StackOK
<1>2. /\ gs \in Seq(Frame) /\ Len(gs) = n + 1
      /\ \A d \in 1 .. n : gs[d] = fs[d]
      /\ gs[n + 1] = frame
  BY <1>1, AppendProperties
<1> HIDE DEF gs, n
<1>3. ASSUME NEW d \in 1 .. n
      PROVE  Level(fs, d) \in Seq(Item)
  <2>1. fs[d] \in Frame /\ (fs[d].file = Stdin \/ FrameOK(fs[d]))
    BY <1>1 DEF n
  <2>2. Pending(fs[d]) \in Seq(Commands) /\ MaxOpen + 1 - d \in Nat
    BY <1>1, <2>1, PendingType
  <2> QED
    BY <2>2, TagType
<1>4. top \in Seq(Item)
  <2>1. Pending(frame) \in Seq(Commands) /\ MaxOpen - n \in Nat
    BY <1>1, PendingType
  <2> QED
    BY <2>1, TagType
<1> HIDE DEF Level
<1>5. /\ LevelsOf(fs) = [i \in 1 .. n |-> Level(fs, n + 1 - i)]
      /\ LevelsOf(gs) = [i \in 1 .. n + 1 |-> Level(gs, n + 2 - i)]
  BY <1>1, <1>2 DEF LevelsOf, Level, n
<1>6. Level(gs, n + 1) = top /\ \A d \in 1 .. n : Level(gs, d) = Level(fs, d)
  <2>1. MaxOpen + 1 - (n + 1) = MaxOpen - n
    BY <1>1
  <2> QED
    BY <1>2, <2>1 DEF Level
<1> HIDE DEF top
<1>7. LevelsOf(fs) \in Seq(Seq(Item)) /\ LevelsOf(gs) = <<top>> \o LevelsOf(fs)
  <2> DEFINE T == Seq(Item)
  <2>1. \A d \in 1 .. n : Level(fs, d) \in T
    BY <1>3
  <2>2. top \in T
    BY <1>4
  <2> HIDE DEF T
  <2>3. \A i \in 1 .. n : n + 1 - i \in 1 .. n
    BY <1>1
  <2>4. LevelsOf(fs) \in Seq(T) /\ Len(LevelsOf(fs)) = n
    BY <1>1, <1>5, <2>1, <2>3
  <2>5. /\ <<top>> \o LevelsOf(fs) \in Seq(T)
        /\ Len(<<top>> \o LevelsOf(fs)) = n + 1
        /\ \A i \in 1 .. n + 1 : (<<top>> \o LevelsOf(fs))[i] =
              IF i = 1 THEN top ELSE LevelsOf(fs)[i - 1]
    BY <1>1, <2>2, <2>4
  <2>6. ASSUME NEW i \in 1 .. n + 1
        PROVE  Level(gs, n + 2 - i) = IF i = 1 THEN top ELSE LevelsOf(fs)[i - 1]
    <3>1. CASE i = 1
      <4>1. n + 2 - i = n + 1
        BY <1>1, <3>1
      <4> QED
        BY <1>6, <3>1, <4>1
    <3>2. CASE i # 1
      <4>1. i - 1 \in 1 .. n /\ n + 2 - i \in 1 .. n /\ n + 1 - (i - 1) = n + 2 - i
        BY <1>1, <3>2
      <4>2. LevelsOf(fs)[i - 1] = Level(fs, n + 1 - (i - 1))
        BY <1>5, <4>1
      <4> QED
        BY <1>6, <3>2, <4>1, <4>2
    <3> QED
      BY <3>1, <3>2
  <2>7. LevelsOf(gs) \in Seq(T) /\ Len(LevelsOf(gs)) = n + 1
    <3>1. \A i \in 1 .. n + 1 : Level(gs, n + 2 - i) \in T
      <4> TAKE i \in 1 .. n + 1
      <4>1. i = 1 \/ (i - 1 \in 1 .. n /\ LevelsOf(fs)[i - 1] \in T)
        BY <1>1, <2>4
      <4> QED
        BY <2>2, <2>6, <4>1
    <3> QED
      BY <1>1, <1>5, <3>1
  <2>8. \A i \in 1 .. n + 1 : LevelsOf(gs)[i] = (<<top>> \o LevelsOf(fs))[i]
    BY <1>5, <2>5, <2>6
  <2>9. LevelsOf(gs) = <<top>> \o LevelsOf(fs)
    BY <2>5, <2>7, <2>8, SeqEqual
  <2> QED
    BY <2>4, <2>9 DEF T
<1>8. FlattenSeq(LevelsOf(gs)) = top \o FlattenSeq(LevelsOf(fs))
  BY <1>4, <1>7, FlattenCons
<1>9. FlattenSeq(LevelsOf(fs)) \in Seq(Item)
  BY <1>7, FlattenType
<1> QED
  BY <1>4, <1>8, <1>9 DEF TextOfStack, gs, top, n

\* main's call of the parser is the outermost.
MainFirst == frames[1].file = Stdin

\* The calls that wait for the innermost one.
Callers == SubSeq(frames, 1, Depth - 1)

LEMMA CallersAndTop ==
  ASSUME FramesOK(frames), MainFirst
  PROVE  /\ StackOK(Callers) /\ Len(Callers) = Depth - 1 /\ Len(Callers) <= MaxOpen
         /\ Top.file = Stdin \/ FrameOK(Top)
         /\ frames = Append(Callers, Top)
         /\ \A frame \in Frame : WithTop(frame) = Append(Callers, frame)
<1>1. /\ frames \in Seq(Frame) /\ Depth = Len(frames) /\ Depth \in Nat \ {0}
      /\ Depth <= MaxOpen + 1 /\ MaxOpen \in Nat /\ Top \in Frame
      /\ \A d \in 1 .. Depth : frames[d].file = Stdin \/ FrameOK(frames[d])
  BY ReferenceShellAssumption, TopType DEF FramesOK, MainFirst, Depth
<1>2. /\ Callers \in Seq(Frame) /\ Len(Callers) = Depth - 1
      /\ \A d \in 1 .. Depth - 1 : Callers[d] = frames[d]
  BY <1>1, SubSeqProperties DEF Callers
<1>3. StackOK(Callers)
  BY <1>1, <1>2 DEF StackOK
<1>4. ASSUME NEW frame \in Frame
      PROVE  WithTop(frame) = Append(Callers, frame)
  <2>1. /\ WithTop(frame) \in Seq(Frame) /\ Len(WithTop(frame)) = Depth
        /\ \A d \in 1 .. Depth :
             WithTop(frame)[d] = IF d = Depth THEN frame ELSE frames[d]
    BY <1>1, ExceptSeq DEF WithTop
  <2>2. /\ Append(Callers, frame) \in Seq(Frame) /\ Len(Append(Callers, frame)) = Depth
        /\ \A d \in 1 .. Depth :
             Append(Callers, frame)[d] = IF d = Depth THEN frame ELSE frames[d]
    BY <1>1, <1>2, AppendProperties
  <2> QED
    BY <2>1, <2>2, SeqEqual
<1>5. frames = Append(Callers, Top)
  <2>1. WithTop(Top) = frames
    BY <1>1 DEF WithTop, Top
  <2> QED
    BY <1>1, <1>4, <2>1
<1> QED
  BY <1>1, <1>2, <1>3, <1>4, <1>5 DEF Top

\* The text of the stack with another frame on top.
LEMMA TextOfTop ==
  ASSUME FramesOK(frames), MainFirst,
         NEW frame \in Frame, frame.file = Stdin \/ FrameOK(frame)
  PROVE  /\ TextOfStack(Callers) \in Seq(Item)
         /\ TextOfStack(WithTop(frame))
              = Tag(Pending(frame), MaxOpen + 1 - Depth) \o TextOfStack(Callers)
<1>1. MaxOpen - Len(Callers) = MaxOpen + 1 - Depth
  BY CallersAndTop, TopType, ReferenceShellAssumption
<1> QED
  BY <1>1, CallersAndTop, TextOfPushed

\* The first command of a tagged text in front of others.
FirstIs(t, u, w, room) ==
  /\ Tag(t \o u, room) \o w # << >>
  /\ Head(Tag(t \o u, room) \o w) = [cmd |-> Head(t), room |-> room]
  /\ Tail(Tag(t \o u, room) \o w) = Tag(Tail(t) \o u, room) \o w

LEMMA TagHeadTail ==
  ASSUME NEW t \in Seq(Commands), t # << >>, NEW u \in Seq(Commands),
         NEW w \in Seq(Item), NEW room \in Nat
  PROVE  FirstIs(t, u, w, room)
<1>1. /\ t \o u \in Seq(Commands) /\ Len(t \o u) = Len(t) + Len(u)
      /\ Len(t) \in Nat \ {0} /\ Len(u) \in Nat
      /\ \A i \in 1 .. Len(t) + Len(u) :
           (t \o u)[i] = IF i <= Len(t) THEN t[i] ELSE u[i - Len(t)]
  BY ConcatProperties, EmptySeq, LenProperties
<1>2. /\ Tail(t) \in Seq(Commands) /\ Len(Tail(t)) = Len(t) - 1 /\ Head(t) = t[1]
      /\ \A i \in 1 .. Len(t) - 1 : Tail(t)[i] = t[i + 1]
  BY HeadTailProperties
<1>3. /\ Tail(t) \o u \in Seq(Commands) /\ Len(Tail(t) \o u) = Len(t) - 1 + Len(u)
      /\ \A i \in 1 .. Len(t) - 1 + Len(u) : (Tail(t) \o u)[i] = (t \o u)[i + 1]
  <2>1. /\ Tail(t) \o u \in Seq(Commands) /\ Len(Tail(t) \o u) = Len(t) - 1 + Len(u)
        /\ \A i \in 1 .. Len(t) - 1 + Len(u) :
             (Tail(t) \o u)[i] = IF i <= Len(t) - 1 THEN Tail(t)[i] ELSE u[i - (Len(t) - 1)]
    BY <1>2, ConcatProperties
  <2>2. ASSUME NEW i \in 1 .. Len(t) - 1 + Len(u)
        PROVE  (Tail(t) \o u)[i] = (t \o u)[i + 1]
    <3>1. i + 1 \in 1 .. Len(t) + Len(u) /\ i - (Len(t) - 1) = i + 1 - Len(t)
      BY <1>1
    <3>2. CASE i <= Len(t) - 1
      <4>1. i \in 1 .. Len(t) - 1 /\ i + 1 <= Len(t)
        BY <1>1, <3>2
      <4> QED
        BY <1>1, <1>2, <2>1, <3>1, <3>2, <4>1
    <3>3. CASE ~(i <= Len(t) - 1)
      <4>1. ~(i + 1 <= Len(t))
        BY <1>1, <3>3
      <4> QED
        BY <1>1, <2>1, <3>1, <3>3, <4>1
    <3> QED
      BY <3>2, <3>3
  <2> QED
    BY <2>1, <2>2
<1> DEFINE x == t \o u
           y == Tail(t) \o u
           a == Tag(x, room)
           b == Tag(y, room)
<1>4. /\ a \in Seq(Item) /\ Len(a) \in Nat \ {0}
      /\ a[1] = [cmd |-> Head(t), room |-> room]
  <2>1. x \in Seq(Commands) /\ Len(x) \in Nat \ {0} /\ x[1] = t[1]
    BY <1>1
  <2> HIDE DEF x
  <2>2. /\ a \in Seq(Item) /\ Len(a) = Len(x)
        /\ \A i \in 1 .. Len(x) : a[i] = [cmd |-> x[i], room |-> room]
    BY <2>1, TagType
  <2> QED
    BY <1>2, <2>1, <2>2
<1>5. /\ b \in Seq(Item) /\ Len(b) = Len(a) - 1
      /\ \A i \in 1 .. Len(a) - 1 : b[i] = a[i + 1]
  <2>1. /\ x \in Seq(Commands) /\ y \in Seq(Commands)
        /\ Len(x) \in Nat \ {0} /\ Len(y) = Len(x) - 1
        /\ \A i \in 1 .. Len(x) - 1 : y[i] = x[i + 1]
    BY <1>1, <1>3
  <2> HIDE DEF x, y
  <2>2. /\ a \in Seq(Item) /\ Len(a) = Len(x)
        /\ \A i \in 1 .. Len(x) : a[i] = [cmd |-> x[i], room |-> room]
    BY <2>1, TagType
  <2>3. /\ b \in Seq(Item) /\ Len(b) = Len(y)
        /\ \A i \in 1 .. Len(y) : b[i] = [cmd |-> y[i], room |-> room]
    BY <2>1, TagType
  <2> HIDE DEF a, b
  <2>4. ASSUME NEW i \in 1 .. Len(x) - 1
        PROVE  b[i] = a[i + 1]
    <3>1. i + 1 \in 1 .. Len(x)
      BY <2>1
    <3> QED
      BY <2>1, <2>2, <2>3, <3>1
  <2> QED
    BY <2>1, <2>2, <2>3, <2>4
<1> HIDE DEF a, b
<1>6. /\ a \o w \in Seq(Item) /\ Len(a \o w) = Len(a) + Len(w) /\ Len(w) \in Nat
      /\ \A i \in 1 .. Len(a) + Len(w) :
           (a \o w)[i] = IF i <= Len(a) THEN a[i] ELSE w[i - Len(a)]
  BY <1>4, ConcatProperties, LenProperties
<1>7. /\ b \o w \in Seq(Item) /\ Len(b \o w) = Len(a) - 1 + Len(w)
      /\ \A i \in 1 .. Len(a) - 1 + Len(w) :
           (b \o w)[i] = IF i <= Len(a) - 1 THEN b[i] ELSE w[i - (Len(a) - 1)]
  <2>1. b \in Seq(Item) /\ w \in Seq(Item)
    BY <1>5
  <2>2. /\ b \o w \in Seq(Item) /\ Len(b \o w) = Len(b) + Len(w)
        /\ \A i \in 1 .. Len(b) + Len(w) :
             (b \o w)[i] = IF i <= Len(b) THEN b[i] ELSE w[i - Len(b)]
    BY <2>1, ConcatProperties
  <2> QED
    BY <1>5, <2>2
<1>8. a \o w # << >> /\ Head(a \o w) = a[1]
  BY <1>4, <1>6
<1>9. /\ Tail(a \o w) \in Seq(Item) /\ Len(Tail(a \o w)) = Len(a) - 1 + Len(w)
      /\ \A i \in 1 .. Len(a) - 1 + Len(w) : Tail(a \o w)[i] = (a \o w)[i + 1]
  BY <1>4, <1>6, <1>8, HeadTailProperties
<1>10. ASSUME NEW i \in 1 .. Len(a) - 1 + Len(w)
       PROVE  Tail(a \o w)[i] = (b \o w)[i]
  <2>1. i + 1 \in 1 .. Len(a) + Len(w) /\ i - (Len(a) - 1) = i + 1 - Len(a)
    BY <1>4, <1>6
  <2>2. CASE i <= Len(a) - 1
    <3>1. i \in 1 .. Len(a) - 1 /\ i + 1 <= Len(a)
      BY <1>4, <2>2
    <3> QED
      BY <1>5, <1>6, <1>7, <1>9, <2>1, <2>2, <3>1
  <2>3. CASE ~(i <= Len(a) - 1)
    <3>1. ~(i + 1 <= Len(a))
      BY <1>4, <2>3
    <3> QED
      BY <1>6, <1>7, <1>9, <2>1, <2>3, <3>1
  <2> QED
    BY <2>2, <2>3
<1>11. Tail(a \o w) = b \o w
  BY <1>7, <1>9, <1>10, SeqEqual
<1> QED
  BY <1>4, <1>8, <1>11 DEF a, b, x, y, FirstIs

\* The first command of the text is the next one of the innermost call.
LEMMA FirstOfText ==
  ASSUME FramesOK(frames), MainFirst, Top.todo # << >>
  PROVE  /\ TextOfStack(frames) # << >>
         /\ Head(TextOfStack(frames)) = [cmd  |-> Head(Top.todo),
                                         room |-> MaxOpen + 1 - Depth]
         /\ Tail(TextOfStack(frames)) = TextOfStack(WithTop(Advanced))
<1>1. /\ Top \in Frame /\ Top.todo \in Seq(Commands)
      /\ Top.file = Stdin \/ FrameOK(Top)
      /\ WithTop(Top) = frames
  BY TopType, CallersAndTop DEF Frame
<1>2. /\ Advanced \in Frame /\ Unread(Advanced) = Unread(Top)
      /\ Pending(Advanced) = Tail(Top.todo) \o Unread(Top)
      /\ Advanced.file = Stdin \/ FrameOK(Advanced)
  <2>1. Advanced = [Top EXCEPT !.todo = Tail(Top.todo)]
    BY DEF Advanced
  <2>2. Advanced \in Frame
    BY CommandType
  <2>3. /\ Advanced.file = Top.file /\ Advanced.read = Top.read
        /\ Advanced.todo = Tail(Top.todo)
    BY <1>1, <2>1 DEF Frame
  <2> QED
    BY <1>1, <2>2, <2>3 DEF Unread, Pending, FrameOK
<1>3. Unread(Top) \in Seq(Commands) /\ Pending(Top) = Top.todo \o Unread(Top)
  BY <1>1, PendingType DEF Pending
<1>4. MaxOpen + 1 - Depth \in Nat
  BY TopType, ReferenceShellAssumption
<1> DEFINE w == TextOfStack(Callers)
           room == MaxOpen + 1 - Depth
<1>5. /\ w \in Seq(Item)
      /\ TextOfStack(frames) = Tag(Top.todo \o Unread(Top), room) \o w
  BY <1>1, <1>3, TextOfTop
<1>6. TextOfStack(WithTop(Advanced)) = Tag(Tail(Top.todo) \o Unread(Top), room) \o w
  <2>1. Advanced \in Frame /\ (Advanced.file = Stdin \/ FrameOK(Advanced))
    BY <1>2
  <2>2. TextOfStack(WithTop(Advanced)) = Tag(Pending(Advanced), room) \o w
    BY <2>1, TextOfTop
  <2> QED
    BY <1>2, <2>2, Zenon
<1> HIDE DEF w, room
<1>7. /\ Tag(Top.todo \o Unread(Top), room) \o w # << >>
      /\ Head(Tag(Top.todo \o Unread(Top), room) \o w) = [cmd |-> Head(Top.todo), room |-> room]
      /\ Tail(Tag(Top.todo \o Unread(Top), room) \o w) = Tag(Tail(Top.todo) \o Unread(Top), room) \o w
  <2> DEFINE t == Top.todo
             u == Unread(Top)
  <2>1. t \in Seq(Commands) /\ t # << >> /\ u \in Seq(Commands) /\ room \in Nat
    BY <1>1, <1>3, <1>4 DEF room
  <2>2. w \in Seq(Item)
    BY <1>5
  <2> HIDE DEF t, u
  <2>3. FirstIs(t, u, w, room)
    BY <2>1, <2>2, TagHeadTail
  <2>4. /\ Tag(t \o u, room) \o w # << >>
        /\ Head(Tag(t \o u, room) \o w) = [cmd |-> Head(t), room |-> room]
        /\ Tail(Tag(t \o u, room) \o w) = Tag(Tail(t) \o u, room) \o w
    BY <2>3 DEF FirstIs
  <2> QED
    BY <2>4 DEF t, u
<1> QED
  BY <1>5, <1>6, <1>7 DEF room

\* What is unread of a script begins with the line that is read next.
LEMMA UnreadStep ==
  ASSUME NEW f \in Scripts, NEW r \in Nat, r < Reads(f)
  PROVE  FlattenSeq(SubSeq(LinesRead(f), r + 1, Reads(f)))
           = LinesRead(f)[r + 1] \o FlattenSeq(SubSeq(LinesRead(f), r + 1 + 1, Reads(f)))
<1> DEFINE T == Seq(Commands)
           ls == LinesRead(f)
           n == Reads(f)
           first == ls[r + 1]
           others == SubSeq(ls, r + 1 + 1, n)
<1>1. ls \in Seq(T) /\ Len(ls) = n /\ n \in Nat
  BY LinesReadType
<1> HIDE DEF T, ls, n
<1>2. r + 1 \in 1 .. Len(ls) /\ n \in r + 1 .. Len(ls)
  BY <1>1 DEF n
<1>3. first \in T /\ SubSeq(ls, r + 1, n) = <<first>> \o others
  BY <1>1, <1>2, ElementOfSeq, SubSeqRecursiveFirst
<1>4. others \in Seq(T)
  <2>1. \A i \in r + 1 + 1 .. n : ls[i] \in T
    BY <1>1, <1>2, ElementOfSeq
  <2> QED
    BY <1>1, <2>1, SubSeqProperties
<1> HIDE DEF first, others
<1>5. FlattenSeq(<<first>> \o others) = first \o FlattenSeq(others)
  BY <1>3, <1>4, FlattenCons DEF T
<1> QED
  BY <1>3, <1>5 DEF ls, n, first, others

\* A script that is called is all unread.
LEMMA TextOfScript ==
  ASSUME NEW f \in WithLines
  PROVE  Pending([file |-> f, read |-> 1, todo |-> LinesOf[f][1]]) = Texts[f]
<1>1. f \in Scripts /\ LinesOf[f] # << >> /\ f # Stdin
  BY ReferenceShellAssumption DEF WithLines, Stdin
<1>2. Len(LinesOf[f]) \in Nat /\ Len(LinesOf[f]) >= 1 /\ Reads(f) \in Nat /\ Reads(f) >= 1
  BY <1>1, ReadsType
<1>3. LinesRead(f) \in Seq(Seq(Commands)) /\ Len(LinesRead(f)) = Reads(f)
      /\ LinesRead(f)[1] = LinesOf[f][1]
  BY <1>1, <1>2, LinesReadType
<1>4. SubSeq(LinesRead(f), 0 + 1, Reads(f)) = LinesRead(f)
  BY <1>3, SubSeqFull
<1>5. FlattenSeq(SubSeq(LinesRead(f), 0 + 1, Reads(f)))
        = LinesRead(f)[0 + 1] \o FlattenSeq(SubSeq(LinesRead(f), 0 + 1 + 1, Reads(f)))
  <2>1. 0 \in Nat /\ 0 < Reads(f)
    BY <1>2
  <2> QED
    BY <1>1, <2>1, UnreadStep
<1>6. FlattenSeq(LinesRead(f)) = LinesOf[f][1] \o FlattenSeq(SubSeq(LinesRead(f), 1 + 1, Reads(f)))
  <2>1. 0 + 1 = 1
    OBVIOUS
  <2> QED
    BY <1>3, <1>4, <1>5, <2>1
<1> QED
  BY <1>1, <1>6 DEF Pending, Unread, Texts

\* run puts the script's text where the command was.
LEMMA TextOfRun ==
  ASSUME FramesOK(frames), MainFirst, NEW n \in Names, run(n), Here(n) \in Seq(Names)
  PROVE  /\ Here(n) \in WithLines
         /\ TextOfStack(frames')
              = Tag(Texts[Here(n)], MaxOpen + 1 - Depth - 1) \o Tail(TextOfStack(frames))
<1> DEFINE callee == [file |-> Here(n), read |-> 1, todo |-> LinesOf[Here(n)][1]]
           caller == WithTop(Advanced)
<1>1. /\ Here(n) \in Scripts /\ LinesOf[Here(n)] # << >>
      /\ Top.todo # << >> /\ Depth - 1 < MaxOpen
      /\ frames' = Append(caller, callee)
  BY DEF run, NextHas, NextIs, HasLines, CanOpen, Caller
<1>2. Here(n) \in WithLines
  BY <1>1 DEF WithLines
<1>3. callee \in Frame /\ FrameOK(callee) /\ Pending(callee) = Texts[Here(n)]
  <2>1. LinesOf[Here(n)] \in Seq(Seq(Commands)) /\ 1 \in 1 .. Len(LinesOf[Here(n)])
    BY <1>1, ReadsType
  <2>2. LinesOf[Here(n)][1] \in Seq(Commands)
    BY <2>1, ElementOfSeq
  <2>3. 1 \in 1 .. Reads(Here(n))
    <3>1. Reads(Here(n)) \in Nat /\ Reads(Here(n)) >= 1
      BY <1>1, ReadsType
    <3> QED
      BY <3>1
  <2>4. callee \in Frame /\ FrameOK(callee)
    BY <1>1, <2>2, <2>3 DEF Frame, FrameOK
  <2> QED
    BY <1>2, <2>4, TextOfScript
<1>4. StackOK(caller) /\ Len(caller) = Depth
  <2>1. /\ Advanced \in Frame
        /\ Advanced.file = Stdin \/ FrameOK(Advanced)
        /\ Depth > 1 => FrameOK(Advanced)
    <3>1. Advanced \in Frame /\ (Depth > 1 => FrameOK(Advanced))
      BY <1>1, CommandType
    <3>2. Depth = 1 => Advanced.file = Stdin
      <4>1. Advanced.file = Top.file
        BY TopType DEF Advanced, Frame
      <4> QED
        BY <4>1 DEF MainFirst, Top
    <3> QED
      BY <3>1, <3>2, TopType
  <2>2. caller = Append(Callers, Advanced)
    BY <2>1, CallersAndTop
  <2>3. /\ Callers \in Seq(Frame) /\ Len(Callers) = Depth - 1 /\ Depth \in Nat
        /\ Len(Callers) <= MaxOpen /\ MaxOpen \in Nat
        /\ \A d \in 1 .. Len(Callers) : Callers[d].file = Stdin \/ FrameOK(Callers[d])
    BY CallersAndTop, TopType, ReferenceShellAssumption DEF StackOK
  <2>4. /\ Append(Callers, Advanced) \in Seq(Frame)
        /\ Len(Append(Callers, Advanced)) = Len(Callers) + 1
        /\ \A d \in 1 .. Len(Callers) + 1 :
             Append(Callers, Advanced)[d] = IF d <= Len(Callers) THEN Callers[d] ELSE Advanced
    BY <2>1, <2>3, AppendProperties
  <2> QED
    BY <2>1, <2>2, <2>3, <2>4 DEF StackOK
<1> HIDE DEF caller, callee
<1>5. TextOfStack(Append(caller, callee))
        = Tag(Pending(callee), MaxOpen - Len(caller)) \o TextOfStack(caller)
  <2>1. Len(caller) <= MaxOpen
    BY <1>1, <1>4, TopType, ReferenceShellAssumption
  <2> QED
    BY <1>3, <1>4, <2>1, TextOfPushed
<1>6. TextOfStack(caller) = Tail(TextOfStack(frames))
  BY <1>1, FirstOfText DEF caller
<1>7. MaxOpen - Len(caller) = MaxOpen + 1 - Depth - 1
  BY <1>4, TopType, ReferenceShellAssumption
<1> QED
  BY <1>1, <1>2, <1>3, <1>5, <1>6, <1>7

\* Reading a line, or finding that there is none, does not change the text.
LEMMA TextOfNextLine ==
  ASSUME FramesOK(frames), MainFirst, NextLine
  PROVE  TextOfStack(frames') = TextOfStack(frames)
<1> DEFINE f == Top.file
           r == Top.read
           line == IF r < Len(LinesOf[f]) THEN LinesOf[f][r + 1] ELSE <<Blank>>
           frame == [Top EXCEPT !.read = r + 1, !.todo = line]
<1>1. frames' = WithTop(frame) /\ Depth > 1 /\ Top.todo = << >> /\ r < Reads(f)
  BY DEF NextLine, LineDone
<1>2. /\ Top \in Frame /\ FrameOK(Top) /\ f \in Scripts /\ r \in Nat /\ r >= 1
      /\ Reads(f) \in Nat /\ f # Stdin
  BY <1>1, TopType, ReadsType, ReferenceShellAssumption DEF FrameOK, Frame, Stdin
<1>3. line = LinesRead(f)[r + 1] /\ line \in Seq(Commands)
  <2>1. r + 1 \in 1 .. Reads(f) /\ Len(LinesOf[f]) \in Nat
    BY <1>1, <1>2, ReadsType
  <2>2. r + 1 <= Len(LinesOf[f]) <=> r < Len(LinesOf[f])
    BY <1>2, <2>1
  <2>3. LinesRead(f)[r + 1] = IF r + 1 <= Len(LinesOf[f]) THEN LinesOf[f][r + 1] ELSE <<Blank>>
    BY <1>2, <2>1, LinesReadType
  <2>4. LinesRead(f)[r + 1] \in Seq(Commands)
    <3> DEFINE T == Seq(Commands)
    <3>1. LinesRead(f) \in Seq(T) /\ r + 1 \in 1 .. Len(LinesRead(f))
      BY <1>2, <2>1, LinesReadType
    <3> HIDE DEF T
    <3>2. LinesRead(f)[r + 1] \in T
      BY <3>1, ElementOfSeq
    <3> QED
      BY <3>2 DEF T
  <2> QED
    BY <2>2, <2>3, <2>4
<1> HIDE DEF line
<1>4. /\ frame \in Frame /\ FrameOK(frame)
      /\ frame.file = f /\ frame.read = r + 1 /\ frame.todo = line
  <2>1. /\ frame \in Frame
        /\ frame.file = f /\ frame.read = r + 1 /\ frame.todo = line
    <3>1. r + 1 \in Nat /\ line \in Seq(Commands) /\ Top \in Frame
      BY <1>2, <1>3
    <3> QED
      BY <3>1 DEF Frame
  <2> QED
    BY <1>1, <1>2, <2>1 DEF FrameOK
<1> HIDE DEF frame
<1>5. Pending(frame) = Pending(Top)
  <2> DEFINE now == FlattenSeq(SubSeq(LinesRead(f), r + 1, Reads(f)))
             later == FlattenSeq(SubSeq(LinesRead(f), r + 1 + 1, Reads(f)))
  <2>1. now = line \o later
    BY <1>1, <1>2, <1>3, UnreadStep
  <2>2. Unread(Top) = now /\ Unread(frame) = later
    BY <1>2, <1>4 DEF Unread
  <2>3. << >> \o Unread(Top) = Unread(Top)
    BY <1>2, PendingType, ConcatEmptySeq
  <2> HIDE DEF now, later
  <2> QED
    BY <1>1, <1>4, <2>1, <2>2, <2>3 DEF Pending
<1>6. TextOfStack(WithTop(frame)) = Tag(Pending(frame), MaxOpen + 1 - Depth) \o TextOfStack(Callers)
  BY <1>4, TextOfTop
<1>7. TextOfStack(WithTop(Top)) = Tag(Pending(Top), MaxOpen + 1 - Depth) \o TextOfStack(Callers)
  BY <1>2, TextOfTop
<1>8. WithTop(Top) = frames
  BY <1>2, CallersAndTop
<1> QED
  BY <1>1, <1>5, <1>6, <1>7, <1>8

LEMMA TextOfEndScript ==
  ASSUME FramesOK(frames), MainFirst, EndScript
  PROVE  TextOfStack(frames') = TextOfStack(frames)
<1> DEFINE f == Top.file
           r == Top.read
<1>1. frames' = Callers /\ Depth > 1 /\ Top.todo = << >> /\ r >= Reads(f)
  BY DEF EndScript, LineDone, Callers
<1>2. /\ Top \in Frame /\ FrameOK(Top) /\ f \in Scripts /\ r \in Nat
      /\ Reads(f) \in Nat /\ f # Stdin
  BY <1>1, TopType, ReadsType, ReferenceShellAssumption DEF FrameOK, Frame, Stdin
<1>3. SubSeq(LinesRead(f), r + 1, Reads(f)) = << >>
  BY <1>1, <1>2, SubSeqEmpty
<1>4. Unread(Top) = << >>
  BY <1>2, <1>3, FlattenEmpty DEF Unread
<1>5. Pending(Top) = << >>
  BY <1>1, <1>4 DEF Pending
<1>6. Tag(<< >>, MaxOpen + 1 - Depth) = << >>
  BY DEF Tag
<1>7. /\ TextOfStack(Callers) \in Seq(Item)
      /\ TextOfStack(WithTop(Top)) = Tag(Pending(Top), MaxOpen + 1 - Depth) \o TextOfStack(Callers)
  BY <1>2, TextOfTop
<1>8. WithTop(Top) = frames
  BY <1>2, CallersAndTop
<1> QED
  BY <1>1, <1>5, <1>6, <1>7, <1>8, ConcatEmptySeq

\* The prompt has nothing left to do, and goes on with the line it is given.
LEMMA TextAtPrompt ==
  ASSUME FramesOK(frames), MainFirst, AtPrompt
  PROVE  /\ TextOfStack(frames) = << >>
         /\ \A line \in Seq(Commands) :
              TextOfStack(WithTop([Top EXCEPT !.todo = line])) = Tag(line, MaxOpen)
<1>1. /\ Depth = 1 /\ Top.todo = << >> /\ Top \in Frame /\ Top.file = Stdin
      /\ WithTop(Top) = frames /\ MaxOpen + 1 - Depth = MaxOpen /\ MaxOpen \in Nat
  BY TopType, CallersAndTop, ReferenceShellAssumption DEF AtPrompt, MainFirst, Top
<1>2. TextOfStack(Callers) = << >>
  <2>1. Callers = << >>
    BY <1>1, SubSeqEmpty DEF Callers
  <2>2. LevelsOf(<< >>) = << >>
    BY DEF LevelsOf
  <2> QED
    BY <2>1, <2>2, FlattenEmpty DEF TextOfStack
<1>3. ASSUME NEW line \in Seq(Commands)
      PROVE  TextOfStack(WithTop([Top EXCEPT !.todo = line])) = Tag(line, MaxOpen)
  <2> DEFINE frame == [Top EXCEPT !.todo = line]
  <2>1. frame \in Frame /\ frame.file = Stdin /\ frame.todo = line
    BY <1>1 DEF Frame
  <2> HIDE DEF frame
  <2>2. Pending(frame) = line
    BY <2>1, ConcatEmptySeq DEF Pending, Unread
  <2>3. TextOfStack(WithTop(frame)) = Tag(Pending(frame), MaxOpen + 1 - Depth) \o TextOfStack(Callers)
    BY <2>1, TextOfTop
  <2>4. Tag(line, MaxOpen) \o << >> = Tag(line, MaxOpen)
    BY <1>1, TagType, ConcatEmptySeq
  <2> QED
    BY <1>1, <1>2, <2>2, <2>3, <2>4 DEF frame
<1>4. TextOfStack(frames) = << >>
  <2>1. [Top EXCEPT !.todo = << >>] = Top
    BY <1>1 DEF Frame
  <2>2. TextOfStack(WithTop([Top EXCEPT !.todo = << >>])) = Tag(<< >>, MaxOpen)
    BY <1>3, EmptySeq
  <2>3. Tag(<< >>, MaxOpen) = << >>
    BY DEF Tag
  <2> QED
    BY <1>1, <2>1, <2>2, <2>3
<1> QED
  BY <1>3, <1>4

-----------------------------------------------------------------------------
(* The refinement.                                                         *)

LEMMA MainStaysFirst ==
  ASSUME FramesOK(frames), MainFirst, [Next]_vars
  PROVE  MainFirst'
<1>1. /\ frames \in Seq(Frame) /\ Len(frames) = Depth /\ Depth \in Nat \ {0}
      /\ Top = frames[Depth] /\ Top \in Frame
  BY TopType DEF FramesOK, Depth, Top
<1>2. ASSUME NEW frame \in Frame, frame.file = Top.file
      PROVE  WithTop(frame)[1].file = Stdin /\ WithTop(frame) \in Seq(Frame) /\ Len(WithTop(frame)) = Depth
  <2>1. /\ WithTop(frame) \in Seq(Frame) /\ Len(WithTop(frame)) = Depth
        /\ \A d \in 1 .. Depth : WithTop(frame)[d] = IF d = Depth THEN frame ELSE frames[d]
    BY <1>1, ExceptSeq DEF WithTop
  <2> QED
    BY <1>1, <1>2, <2>1 DEF MainFirst
<1>3. CASE UNCHANGED frames
  BY <1>3 DEF MainFirst
<1>4. ASSUME NEW line \in Seq(Commands), frames' = WithTop([Top EXCEPT !.todo = line])
      PROVE  MainFirst'
  <2>1. [Top EXCEPT !.todo = line] \in Frame /\ [Top EXCEPT !.todo = line].file = Top.file
    BY <1>1 DEF Frame
  <2> QED
    BY <1>2, <1>4, <2>1 DEF MainFirst
<1>5. ASSUME Top.todo # << >>
      PROVE  Advanced \in Frame /\ Advanced.file = Top.file
  BY <1>1, <1>5, CommandType DEF Advanced, Frame
<1>6. ASSUME Top.todo # << >>, frames' = WithTop(Advanced)
      PROVE  MainFirst'
  BY <1>2, <1>5, <1>6 DEF MainFirst
<1>7. ASSUME NEW n \in Names, run(n)
      PROVE  MainFirst'
  <2> DEFINE callee == [file |-> Here(n), read |-> 1, todo |-> LinesOf[Here(n)][1]]
             caller == WithTop(Advanced)
  <2>1. Top.todo # << >> /\ frames' = Append(caller, callee)
    BY <1>7 DEF run, NextHas, NextIs, Caller
  <2>2. caller[1].file = Stdin /\ caller \in Seq(Frame) /\ Len(caller) = Depth
    BY <1>2, <1>5, <2>1
  <2> HIDE DEF caller, callee
  <2>3. Append(caller, callee)[1] = caller[1]
    BY <1>1, <2>2
  <2> QED
    BY <2>1, <2>2, <2>3 DEF MainFirst
<1>8. CASE NextLine
  <2> DEFINE line  == IF Top.read < Len(LinesOf[Top.file])
                        THEN LinesOf[Top.file][Top.read + 1]
                        ELSE <<Blank>>
             frame == [Top EXCEPT !.read = Top.read + 1, !.todo = line]
  <2>1. frames' = WithTop(frame) /\ Depth > 1 /\ Top.read < Reads(Top.file)
    BY <1>8 DEF NextLine, LineDone
  <2>2. frames'[1] = frames[1]
    <3> HIDE DEF frame
    <3> QED
      BY <1>1, <2>1 DEF WithTop
  <2> QED
    BY <2>2 DEF MainFirst
<1>9. CASE EndScript
  <2>1. frames' = SubSeq(frames, 1, Depth - 1) /\ Depth > 1
    BY <1>9 DEF EndScript, LineDone
  <2>2. frames'[1] = frames[1]
    BY <1>1, <2>1
  <2> QED
    BY <2>2 DEF MainFirst
<1>10. CASE UNCHANGED vars
  BY <1>3, <1>10 DEF vars
<1>11. ASSUME NEW line \in InputLines, ReadInput(line)
       PROVE  MainFirst'
  <2>1. line \in Seq(Commands)
    BY ReferenceShellAssumption
  <2> QED
    BY <1>4, <1>11, <2>1 DEF ReadInput
<1>12. CASE ReadEnd
  <2>1. <<Blank>> \in Seq(Commands)
    BY DEF Commands
  <2> QED
    BY <1>4, <1>12, <2>1 DEF ReadEnd
<1>13. CASE OpenTerminal
  BY <1>3, <1>13 DEF OpenTerminal
<1>14. CASE Interpret \/ quit
  BY <1>3, <1>6, <1>14 DEF Interpret, quit, NextIs, Done, Stops
<1>15. ASSUME NEW n \in Names,
              cd(n) \/ my_mkdir(n) \/ touch(n) \/ RunEmpty(n) \/ RunNotFound(n)
       PROVE  MainFirst'
  BY <1>3, <1>6, <1>15
     DEF cd, my_mkdir, touch, RunEmpty, RunNotFound, NextHas, NextIs, Done, Stops
<1> QED
  BY <1>7, <1>8, <1>9, <1>10, <1>11, <1>12, <1>13, <1>14, <1>15 DEF Next, Work

LEMMA MappedText ==
  /\ FlattenSeq(Levels) = TextOfStack(frames)
  /\ FlattenSeq(Levels)' = TextOfStack(frames')
BY DEF Levels, TextOfStack, LevelsOf, Depth

LEMMA InitMapped ==
  ASSUME Init
  PROVE  FramesOK(frames) /\ MainFirst /\ Expansion!Init
<1>1. TypeOK /\ FramesOK(frames)
  BY InitTypeOK, Parts
<1>2. MainFirst /\ AtPrompt
  BY DEF Init, MainFirst, AtPrompt, Depth, Top
<1>3. FlattenSeq(Levels) = << >>
  BY <1>1, <1>2, TextAtPrompt, MappedText
<1>4. Running = TRUE
  BY Zenon DEF Init, Running
<1>5. Home \in dirs /\ WithLines \subseteq files
  BY DEF Init, WithLines
<1> QED
  BY <1>1, <1>2, <1>3, <1>4, <1>5 DEF Init, Expansion!Init

LEMMA StepMapped ==
  ASSUME FramesOK(frames), DiskOK, MainFirst, [Next]_vars
  PROVE  [Expansion!Next]_(Expansion!vars)
<1> DEFINE rest == FlattenSeq(Levels)
           restNext == FlattenSeq(Levels)'
<1>1. rest = TextOfStack(frames) /\ restNext = TextOfStack(frames')
  BY MappedText
<1>2. /\ Depth \in Nat /\ Depth <= MaxOpen + 1 /\ MaxOpen \in Nat
  BY TopType, ReferenceShellAssumption
\* Steps of which the text knows nothing.
<1>3. ASSUME restNext = rest, UNCHANGED <<executed, status, disk>>
      PROVE  UNCHANGED Expansion!vars
  BY <1>3 DEF Expansion!vars, Expansion!tree, disk, Running
<1>4. CASE UNCHANGED vars
  <2>1. UNCHANGED frames /\ UNCHANGED <<executed, status, disk>>
    BY <1>4 DEF vars
  <2> QED
    BY <1>1, <1>3, <2>1
<1>5. CASE NextLine
  BY <1>1, <1>3, <1>5, TextOfNextLine DEF NextLine
<1>6. CASE EndScript
  BY <1>1, <1>3, <1>6, TextOfEndScript DEF EndScript
\* Steps of main.
<1>7. ASSUME NEW line \in InputLines \cup {<<Blank>>}, Running, AtPrompt,
             frames' = WithTop([Top EXCEPT !.todo = line]),
             UNCHANGED <<executed, status, disk>>
      PROVE  Expansion!Next
  <2>1. line \in Seq(Commands)
    <3>1. <<Blank>> \in Seq(Commands)
      BY DEF Commands
    <3> QED
      BY <3>1, ReferenceShellAssumption
  <2>2. rest = << >> /\ restNext = Tag(line, MaxOpen)
    BY <1>1, <1>7, <2>1, TextAtPrompt
  <2> HIDE DEF rest, restNext
  <2>3. Running' = Running
    BY <1>7 DEF Running
  <2>4. Expansion!Read(line)
    BY <1>7, <2>2, <2>3, Zenon DEF Expansion!Read, Expansion!Tagged, Tag, Expansion!tree, disk, rest, restNext
  <2> QED
    BY <2>4 DEF Expansion!Next
<1>8. ASSUME NEW line \in InputLines, ReadInput(line)
      PROVE  Expansion!Next
  BY <1>7, <1>8 DEF ReadInput
<1>9. CASE ReadEnd
  BY <1>7, <1>9 DEF ReadEnd
<1>10. CASE OpenTerminal
  <2>1. AtPrompt /\ Running /\ UNCHANGED <<frames, executed, disk>>
    BY <1>10 DEF OpenTerminal
  <2>2. rest = << >> /\ restNext = rest
    BY <1>1, <2>1, TextAtPrompt
  <2>3. CASE UNCHANGED status
    BY <1>3, <2>1, <2>2, <2>3
  <2>4. CASE status' = "undefined"
    <3>1. Running' = FALSE
      <4>1. status' # "running"
        BY <2>4
      <4> QED
        BY <4>1, Zenon DEF Running
    <3> HIDE DEF rest, restNext
    <3>2. Expansion!Starve
      BY <2>1, <2>2, <3>1, Zenon DEF Expansion!Starve, Expansion!tree, disk, rest, restNext
    <3> QED
      BY <3>2 DEF Expansion!Next
  <2> QED
    BY <1>10, <2>3, <2>4 DEF OpenTerminal
\* Steps that take a command.
<1>11. ASSUME Top.todo # << >>
       PROVE  /\ rest # << >>
              /\ Expansion!Cmd = Head(Top.todo)
              /\ Expansion!Room = MaxOpen + 1 - Depth
              /\ Tail(rest) = TextOfStack(WithTop(Advanced))
  BY <1>1, <1>11, FirstOfText DEF Expansion!Cmd, Expansion!Room
<1>12. ASSUME NEW op, NextIs(op)
       PROVE  Expansion!NextIs(op) /\ Expansion!Cmd = Head(Top.todo) /\ Top.todo # << >>
  <2>1. Running /\ Top.todo # << >> /\ Head(Top.todo).op = op
    BY <1>12 DEF NextIs
  <2>2. rest # << >> /\ Expansion!Cmd = Head(Top.todo)
    BY <1>11, <2>1
  <2> QED
    BY <2>1, <2>2 DEF Expansion!NextIs, Expansion!Cmd
<1>13. ASSUME NEW op, NEW n \in Names, NextHas(op, n)
       PROVE  /\ Expansion!NextIs(op) /\ Expansion!Cmd = Head(Top.todo) /\ Top.todo # << >>
              /\ Expansion!Path = Here(n)
              /\ Expansion!Room > 0 <=> CanOpen
              /\ Expansion!Room = 0 <=> ~CanOpen
  <2>1. NextIs(op) /\ Head(Top.todo).arg = n
    BY <1>13 DEF NextHas
  <2>2. Expansion!NextIs(op) /\ Expansion!Cmd = Head(Top.todo) /\ Top.todo # << >>
    BY <1>12, <2>1
  <2>3. Expansion!Room = MaxOpen + 1 - Depth
    BY <1>11, <2>2
  <2> QED
    BY <1>2, <2>1, <2>2, <2>3 DEF Expansion!Path, Here, CanOpen
<1>14. ASSUME Top.todo # << >>, NEW result, Done(result)
       PROVE  Expansion!Did(result)
  <2>1. restNext = Tail(rest)
    BY <1>1, <1>11, <1>14 DEF Done
  <2>2. Running' = Running
    BY <1>14 DEF Done, Running
  <2> HIDE DEF rest, restNext
  <2> QED
    BY <1>14, <2>1, <2>2, Zenon DEF Done, Expansion!Did, rest, restNext
<1>15. ASSUME NEW result, NEW how \in {"exited", "undefined"}, Stops(result, how)
       PROVE  Expansion!Stop(result)
  <2>1. restNext = rest
    BY <1>1, <1>15 DEF Stops
  <2>2. Running' = FALSE
    <3>1. status' # "running"
      BY <1>15 DEF Stops
    <3> QED
      BY <3>1, Zenon DEF Running
  <2> HIDE DEF rest, restNext
  <2> QED
    BY <1>15, <2>1, <2>2, Zenon DEF Stops, Expansion!Stop, rest, restNext
<1> HIDE DEF rest, restNext
<1>16. CASE Interpret
  <2>1. PICK op \in {"do", "blank"} : NextIs(op)
    BY <1>16 DEF Interpret
  <2>2. Expansion!NextIs(op) /\ Expansion!Did(Expansion!Cmd)
    BY <1>12, <1>14, <1>16, <2>1 DEF Interpret
  <2>3. UNCHANGED Expansion!tree
    BY <1>16 DEF Interpret, disk, Expansion!tree
  <2> QED
    BY <2>1, <2>2, <2>3 DEF Expansion!Do, Expansion!Next
<1>17. CASE quit
  <2>1. NextIs("quit") /\ Stops(Quit, "exited") /\ UNCHANGED disk
    BY <1>17 DEF quit
  <2>2. Head(Top.todo) = Quit
    <3>1. Head(Top.todo) \in Commands /\ Head(Top.todo).op = "quit"
      BY <2>1, CommandType DEF NextIs
    <3> QED
      BY <3>1 DEF Commands, Quit, Blank
  <2>3. Expansion!NextIs("quit") /\ Expansion!Stop(Expansion!Cmd)
    BY <1>12, <1>15, <2>1, <2>2
  <2>4. UNCHANGED Expansion!tree
    BY <2>1 DEF disk, Expansion!tree
  <2> QED
    BY <2>3, <2>4 DEF Expansion!Quit, Expansion!Next
<1>18. ASSUME NEW n \in Names, cd(n)
       PROVE  Expansion!Next
  <2>1. NextHas("my_cd", n) /\ UNCHANGED <<dirs, files>>
    BY <1>18 DEF cd
  <2>2. /\ Expansion!NextIs("my_cd") /\ Expansion!Cmd = Head(Top.todo)
        /\ Top.todo # << >> /\ Expansion!Path = Here(n)
    BY <1>13, <2>1
  <2>3. CASE Here(n) \in dirs
    <3>1. Done(Head(Top.todo)) /\ dir' = Here(n)
      BY <1>18, <2>3 DEF cd
    <3>2. Expansion!Did(Expansion!Cmd)
      BY <1>14, <2>2, <3>1
    <3> QED
      BY <2>1, <2>2, <2>3, <3>1, <3>2 DEF Expansion!ChangeDir, Expansion!Next
  <2>4. CASE Here(n) \notin dirs
    <3>1. Done(BadCd) /\ UNCHANGED dir
      BY <1>18, <2>4 DEF cd
    <3>2. Expansion!Did([op |-> "bad cd"])
      BY <1>14, <2>2, <3>1 DEF BadCd
    <3> QED
      BY <2>1, <2>2, <2>4, <3>1, <3>2 DEF Expansion!ChangeDir, Expansion!Next
  <2> QED
    BY <2>3, <2>4
<1>19. ASSUME NEW n \in Names, my_mkdir(n)
       PROVE  Expansion!Next
  <2>1. /\ NextHas("my_mkdir", n) /\ Done(Head(Top.todo)) /\ UNCHANGED <<dir, files>>
        /\ dirs' = dirs \cup ({Here(n)} \ files)
    BY <1>19 DEF my_mkdir
  <2>2. /\ Expansion!NextIs("my_mkdir") /\ Expansion!Cmd = Head(Top.todo)
        /\ Top.todo # << >> /\ Expansion!Path = Here(n)
    BY <1>13, <2>1
  <2>3. Expansion!Did(Expansion!Cmd)
    BY <1>14, <2>1, <2>2
  <2> QED
    BY <2>1, <2>2, <2>3 DEF Expansion!MakeDir, Expansion!Next
<1>20. ASSUME NEW n \in Names, touch(n)
       PROVE  Expansion!Next
  <2>1. NextHas("my_touch", n) /\ UNCHANGED <<dir, dirs>>
    BY <1>20 DEF touch
  <2>2. /\ Expansion!NextIs("my_touch") /\ Expansion!Cmd = Head(Top.todo)
        /\ Top.todo # << >> /\ Expansion!Path = Here(n)
        /\ Expansion!Room > 0 <=> CanOpen
    BY <1>13, <2>1
  <2>3. CASE CanOpen /\ Here(n) \notin dirs
    <3>1. Done(Head(Top.todo)) /\ files' = files \cup {Here(n)}
      BY <1>20, <2>3 DEF touch
    <3>2. Expansion!Did(Expansion!Cmd)
      BY <1>14, <2>2, <3>1
    <3> QED
      BY <2>1, <2>2, <2>3, <3>1, <3>2 DEF Expansion!Touch, Expansion!Next
  <2>4. CASE ~(CanOpen /\ Here(n) \notin dirs)
    <3>1. Stops(Head(Top.todo), "undefined") /\ UNCHANGED files
      BY <1>20, <2>4 DEF touch
    <3>2. Expansion!Stop(Expansion!Cmd)
      BY <1>15, <2>2, <3>1
    <3> QED
      BY <2>1, <2>2, <2>4, <3>1, <3>2 DEF Expansion!Touch, Expansion!Next
  <2> QED
    BY <2>3, <2>4
<1>21. ASSUME NEW n \in Names, run(n)
       PROVE  Expansion!Next
  <2>1. /\ NextHas("run", n) /\ CanOpen
        /\ UNCHANGED <<executed, status, disk>>
    BY <1>21 DEF run
  <2>2. /\ Expansion!NextIs("run") /\ Expansion!Path = Here(n)
        /\ Top.todo # << >> /\ Expansion!Room > 0
    BY <1>13, <2>1
  <2>3. Expansion!Room = MaxOpen + 1 - Depth
    BY <1>11, <2>2
  <2>4. /\ Here(n) \in WithLines
        /\ restNext = Tag(Texts[Here(n)], Expansion!Room - 1) \o Tail(rest)
    <3>1. Here(n) \in Seq(Names)
      BY DEF Here, DiskOK
    <3>2. /\ Here(n) \in WithLines
          /\ restNext = Tag(Texts[Here(n)], MaxOpen + 1 - Depth - 1) \o Tail(rest)
      BY <1>1, <1>21, <3>1, TextOfRun
    <3>3. MaxOpen + 1 - Depth - 1 = Expansion!Room - 1
      BY <1>2, <2>3
    <3> QED
      BY <3>2, <3>3, Zenon
  <2>5. UNCHANGED Expansion!tree /\ Running' = Running
    BY <2>1 DEF disk, Expansion!tree, Running
  <2>6. Expansion!Expand
    BY <2>1, <2>2, <2>4, <2>5, Zenon
       DEF Expansion!Expand, Expansion!Tagged, Tag, rest, restNext
  <2> QED
    BY <2>6 DEF Expansion!Next
<1>22. ASSUME NEW n \in Names, RunEmpty(n)
       PROVE  Expansion!Next
  <2>1. /\ NextHas("run", n) /\ CanOpen /\ Here(n) \in files \cup dirs
        /\ ~HasLines(Here(n)) /\ Stops(Garbage, "undefined") /\ UNCHANGED disk
    BY <1>22 DEF RunEmpty
  <2>2. /\ Expansion!NextIs("run") /\ Expansion!Path = Here(n) /\ Expansion!Room > 0
    BY <1>13, <2>1
  <2>3. Here(n) \notin WithLines
    BY <2>1 DEF HasLines, WithLines
  <2>4. Expansion!Stop([op |-> "garbage"])
    BY <1>15, <2>1 DEF Garbage
  <2>5. UNCHANGED Expansion!tree
    BY <2>1 DEF disk, Expansion!tree
  <2> QED
    BY <2>1, <2>2, <2>3, <2>4, <2>5 DEF Expansion!ExpandNothing, Expansion!Next
<1>23. ASSUME NEW n \in Names, RunNotFound(n)
       PROVE  Expansion!Next
  <2>1. /\ NextHas("run", n) /\ Done(NotFound) /\ UNCHANGED disk
        /\ ~CanOpen \/ Here(n) \notin files \cup dirs
    BY <1>23 DEF RunNotFound
  <2>2. /\ Expansion!NextIs("run") /\ Expansion!Path = Here(n) /\ Top.todo # << >>
        /\ Expansion!Room = 0 <=> ~CanOpen
    BY <1>13, <2>1
  <2>3. Expansion!Did([op |-> "not found"])
    BY <1>14, <2>1, <2>2 DEF NotFound
  <2>4. UNCHANGED Expansion!tree
    BY <2>1 DEF disk, Expansion!tree
  <2> QED
    BY <2>1, <2>2, <2>3, <2>4 DEF Expansion!ExpandMissing, Expansion!Next
<1> QED
  BY <1>4, <1>5, <1>6, <1>8, <1>9, <1>10, <1>16, <1>17, <1>18, <1>19, <1>20,
     <1>21, <1>22, <1>23 DEF Next, Work

\* However scripts run one another, the calls of run and of the parser do what
\* one text does in which every run is replaced by its script: nothing is
\* done out of turn, twice or not at all.
THEOREM Refinement == Spec => RefinesTextExpansion
<1> DEFINE Inv == FramesOK(frames) /\ DiskOK /\ RestOK /\ MainFirst
<1>1. Init => Inv /\ Expansion!Init
  BY InitTypeOK, InitMapped, Parts
<1>2. Inv /\ [Next]_vars => Inv'
  <2> SUFFICES ASSUME Inv, [Next]_vars PROVE Inv'
    OBVIOUS
  <2>1. TypeOK'
    BY Parts, NextTypeOK
  <2>2. FramesOK(frames)' /\ DiskOK' /\ RestOK'
    BY <2>1 DEF TypeOK, FramesOK, Frame, DiskOK, RestOK, Depth
  <2>3. MainFirst'
    BY MainStaysFirst
  <2> QED
    BY <2>2, <2>3
<1>3. Inv /\ [Next]_vars => [Expansion!Next]_(Expansion!vars)
  BY StepMapped
<1> HIDE DEF Inv
<1> QED
  BY <1>1, <1>2, <1>3, PTL DEF Spec, RefinesTextExpansion, Expansion!Spec

=============================================================================
