------------------------- MODULE LRUTracker_proofs --------------------------
(***************************************************************************)
(* The linked list of lru_tracker.c is well formed after any sequence of   *)
(* accesses, and implements RecencyOrder, for every number of frames.      *)
(***************************************************************************)
EXTENDS LRUTracker, FrameRankings_proofs

\* The order in which the list threads the frames is determined by the links:
\* the least rank on which two such orders differ would have a predecessor on
\* which they differ too.
LEMMA ThreadingUnique ==
  ASSUME TypeOK,
         NEW r \in Rankings, Threads(r),
         NEW s \in Rankings, Threads(s)
  PROVE  r = s
<1>0. NumFrames \in Nat \ {0}
  BY NumFramesAssumption
<1>1. /\ r \in [Frames -> Ranks] /\ s \in [Frames -> Ranks]
      /\ head \in Frames
  BY DEF Rankings, TypeOK
<1> DEFINE Differ == { n \in Ranks : \E f \in Frames : r[f] = n /\ s[f] # n }
<1>2. SUFFICES ASSUME r # s PROVE FALSE
  OBVIOUS
<1>3. PICK f \in Frames : r[f] # s[f]
  BY <1>1, <1>2
<1>4. Differ # {}
  BY <1>1, <1>3
<1>5. Differ \subseteq Nat
  BY <1>0 DEF Ranks
<1>6. PICK n \in Differ : \A m \in Differ : ~(<<m, n>> \in OpToRel(<, Nat))
  <2> HIDE DEF Differ
  <2> QED
    BY <1>4, <1>5, NatLessThanWellFounded, WFMin
<1>7. PICK g \in Frames : r[g] = n /\ s[g] # n
  OBVIOUS
<1>8. n \in Ranks
  OBVIOUS
<1> HIDE DEF Differ
<1>9. CASE n = 1
  BY <1>1, <1>7, <1>9 DEF Rankings, Threads
<1>10. CASE n > 1
  <2>1. prev[g] \in Frames /\ r[prev[g]] = n - 1
    BY <1>7, <1>10 DEF Threads
  <2>2. s[prev[g]] = n - 1
    <3>1. n - 1 \in Ranks /\ n - 1 < n /\ n - 1 \in Nat
      BY <1>0, <1>8, <1>10 DEF Ranks
    <3>2. <<n - 1, n>> \in OpToRel(<, Nat)
      BY <3>1, <1>5 DEF OpToRel
    <3>3. n - 1 \notin Differ
      BY <3>2, <1>6
    <3> QED
      BY <3>1, <3>3, <2>1 DEF Differ
  <2>3. s[g] = n
    <3>1. next[prev[g]] = g
      <4>1. r[prev[g]] < NumFrames
        BY <2>1, <1>0, <1>8 DEF Ranks
      <4>2. next[prev[g]] \in Frames /\ r[next[prev[g]]] = n
        BY <4>1, <2>1, <1>8 DEF Threads, Ranks
      <4> QED
        BY <4>2, <1>7 DEF Rankings
    <3>2. s[prev[g]] < NumFrames
      BY <2>2, <1>0, <1>8 DEF Ranks
    <3> QED
      BY <3>1, <3>2, <2>1, <2>2, <1>8 DEF Threads, Ranks
  <2> QED
    BY <2>3, <1>7
<1> QED
  BY <1>8, <1>9, <1>10 DEF Ranks

-----------------------------------------------------------------------------
\* The links update_frame_access writes thread the frames in the order that
\* Touch gives, whichever node (inner or last) is moved.
LEMMA MoveToHeadThreads ==
  ASSUME TypeOK,
         NEW r \in Rankings, Threads(r),
         NEW f \in Frames, f # head, MoveToHead(f)
  PROVE  /\ Threads(Touch(r, f))'
         /\ head' \in Frames /\ tail' \in Frames
         /\ prev' \in [Frames -> Pointers] /\ next' \in [Frames -> Pointers]
<1> DEFINE t == Touch(r, f)
           p == prev[f]
           n == next[f]
<1>0. NumFrames \in Nat \ {0}
  BY NumFramesAssumption
<1>1. /\ r \in [Frames -> Ranks]
      /\ \A g, h \in Frames : r[g] = r[h] => g = h
  BY DEF Rankings
<1>2. /\ head \in Frames /\ tail \in Frames
      /\ prev \in [Frames -> Pointers] /\ next \in [Frames -> Pointers]
  BY DEF TypeOK
<1>3. r[f] > 1 /\ r[head] = 1 /\ r[f] \in 1 .. NumFrames /\ NumFrames > 1
  BY <1>0, <1>1, <1>2 DEF Threads, Ranks
<1>4. p \in Frames /\ r[p] = r[f] - 1 /\ p # f
  BY <1>0, <1>1, <1>3 DEF Threads
<1>5. r[f] < NumFrames => n \in Frames /\ r[n] = r[f] + 1 /\ n # f /\ n # head /\ n # p
  BY <1>1, <1>3, <1>4 DEF Threads
<1>6. (f = tail) <=> (r[f] = NumFrames)
  BY <1>1, <1>2 DEF Threads
<1>7. f = tail => n = Nil
  BY <1>3 DEF Threads
<1>8. /\ head' = f
      /\ tail' = IF f = tail THEN p ELSE tail
  BY DEF MoveToHead, TailWithout
<1>9. /\ next' \in [Frames -> Pointers]
      /\ \A g \in Frames : next'[g] = IF g = f THEN head
                                      ELSE IF g = p THEN n ELSE next[g]
  BY <1>2, <1>4 DEF MoveToHead, UnlinkedNext, Pointers
<1>10. /\ prev' \in [Frames -> Pointers]
       /\ \A g \in Frames : prev'[g] = IF g = head THEN f
                                       ELSE IF g = f THEN Nil
                                       ELSE IF g = n THEN p ELSE prev[g]
  BY <1>2, <1>4 DEF MoveToHead, UnlinkedPrev, Pointers
<1>11. t \in [Frames -> Ranks] /\ t \in Rankings
  BY TouchRanking DEF Rankings
<1>12. \A g \in Frames : t[g] = IF g = f THEN 1
                                ELSE IF r[g] < r[f] THEN r[g] + 1 ELSE r[g]
  BY DEF Touch
<1>13. \A g \in Frames : r[g] \in 1 .. NumFrames
  BY <1>1 DEF Ranks
<1> HIDE DEF t, p, n
<1>14. t[head'] = 1
  BY <1>8, <1>12
<1>15. tail' \in Frames /\ t[tail'] = NumFrames
  <2>1. CASE f = tail
    BY <2>1, <1>3, <1>4, <1>6, <1>8, <1>12
  <2>2. CASE f # tail
    <3>1. r[tail] = NumFrames
      BY DEF Threads
    <3>2. ~(r[tail] < r[f])
      BY <3>1, <1>0, <1>3
    <3> QED
      BY <3>1, <3>2, <2>2, <1>2, <1>8, <1>12
  <2> QED
    BY <2>1, <2>2
<1>16. next'[tail'] = Nil
  <2>1. CASE f = tail
    BY <2>1, <1>4, <1>7, <1>8, <1>9
  <2>2. CASE f # tail
    <3>1. tail # p
      BY <2>2, <1>3, <1>4, <1>6 DEF Threads
    <3>2. next[tail] = Nil
      BY <1>3 DEF Threads
    <3> QED
      BY <3>1, <3>2, <2>2, <1>2, <1>8, <1>9
  <2> QED
    BY <2>1, <2>2
<1>17. ASSUME NEW g \in Frames, t[g] < NumFrames
       PROVE  next'[g] \in Frames /\ t[next'[g]] = t[g] + 1
  <2>1. CASE g = f
    BY <2>1, <1>2, <1>3, <1>9, <1>12
  <2>2. CASE g = p
    <3>1. t[g] = r[f]
      BY <2>2, <1>3, <1>4, <1>12
    <3>2. n \in Frames /\ r[n] = r[f] + 1 /\ n # f
      BY <3>1, <1>5, <1>17
    <3>3. t[n] = r[f] + 1
      BY <3>2, <1>3, <1>12
    <3> QED
      BY <3>1, <3>2, <3>3, <2>2, <1>4, <1>9
  <2>3. CASE g # f /\ g # p
    <3>1. r[g] # r[f] /\ r[g] # r[f] - 1
      BY <2>3, <1>1, <1>4
    <3>2. r[g] < NumFrames
      BY <3>1, <2>3, <1>3, <1>12, <1>13, <1>17, <1>0
    <3>3. next[g] \in Frames /\ r[next[g]] = r[g] + 1
      BY <3>2 DEF Threads
    <3>4. next'[g] = next[g] /\ next[g] # f
      BY <3>1, <3>3, <2>3, <1>9, <1>3, <1>13
    <3> QED
      BY <3>1, <3>3, <3>4, <2>3, <1>3, <1>12, <1>13
  <2> QED
    BY <2>1, <2>2, <2>3
<1>18. ASSUME NEW g \in Frames, t[g] > 1
       PROVE  prev'[g] \in Frames /\ t[prev'[g]] = t[g] - 1
  <2>0. g # f
    BY <1>12, <1>18
  <2>1. CASE g = head
    BY <2>0, <2>1, <1>3, <1>10, <1>12
  <2>2. CASE g # head /\ g = n
    <3>1. f # tail
      BY <2>2, <1>7 DEF Nil, Frames
    <3>2. r[f] < NumFrames /\ r[g] = r[f] + 1
      BY <3>1, <2>2, <1>0, <1>3, <1>5, <1>6
    <3>3. t[g] = r[f] + 1 /\ t[p] = r[f]
      BY <3>2, <2>0, <1>3, <1>4, <1>12
    <3> QED
      BY <3>3, <2>0, <2>2, <1>3, <1>4, <1>10
  <2>3. CASE g # head /\ g # n
    <3>1. r[g] # 1 /\ r[g] > 1
      BY <2>3, <1>1, <1>2, <1>3, <1>13
    <3>2. prev[g] \in Frames /\ r[prev[g]] = r[g] - 1
      BY <3>1 DEF Threads
    <3>3. prev'[g] = prev[g]
      BY <2>0, <2>3, <1>10
    <3>4. r[g] # r[f]
      BY <2>0, <1>1
    <3>5. prev[g] # f
      <4>1. prev[g] = f => r[f] < NumFrames /\ r[g] = r[f] + 1 /\ r[n] = r[g]
        BY <3>2, <1>0, <1>3, <1>5, <1>13
      <4> QED
        BY <4>1, <2>3, <1>1, <1>5
    <3> QED
      BY <3>2, <3>3, <3>4, <3>5, <2>0, <1>3, <1>12, <1>13
  <2> QED
    BY <2>1, <2>2, <2>3
<1>19. Threads(t)'
  BY <1>14, <1>15, <1>16, <1>17, <1>18 DEF Threads, t
<1> QED
  BY <1>8, <1>9, <1>10, <1>15, <1>19 DEF t

-----------------------------------------------------------------------------
\* The inductive invariant.  TypeOK alone is not inductive: that the tail's
\* back pointer is a node, and not NULL or garbage, is what the threading says.
IInv == TypeOK /\ ListWellFormed

LEMMA InitIInv == Init => IInv
<1> SUFFICES ASSUME Init PROVE IInv
  OBVIOUS
<1> DEFINE r == [f \in Frames |-> f + 1]
<1>0. NumFrames \in Nat \ {0}
  BY NumFramesAssumption
<1>1. TypeOK
  BY <1>0 DEF Init, TypeOK, Frames, Pointers
<1>2. r \in Rankings
  <2>1. r \in [Frames -> Ranks]
    BY <1>0 DEF Frames, Ranks
  <2>2. \A f, g \in Frames : r[f] = r[g] => f = g
    BY <1>0 DEF Frames
  <2>3. ASSUME NEW n \in Ranks
        PROVE  \E f \in Frames : r[f] = n
    <3>1. n - 1 \in Frames /\ r[n - 1] = n
      BY <1>0 DEF Frames, Ranks
    <3> QED
      BY <3>1
  <2> QED
    BY <2>1, <2>2, <2>3 DEF Rankings
<1>3. Threads(r)
  <2>1. head = 0 /\ tail = NumFrames - 1 /\ head \in Frames /\ tail \in Frames
    BY <1>0 DEF Init, Frames
  <2>2. NumFrames > 1 => next[tail] = Nil
    BY <1>0, <2>1 DEF Init
  <2>3. ASSUME NEW f \in Frames, r[f] < NumFrames
        PROVE  next[f] \in Frames /\ r[next[f]] = r[f] + 1
    BY <1>0, <2>3 DEF Init, Frames
  <2>4. ASSUME NEW f \in Frames, r[f] > 1
        PROVE  prev[f] \in Frames /\ r[prev[f]] = r[f] - 1
    BY <1>0, <2>4 DEF Init, Frames
  <2> QED
    BY <1>0, <2>1, <2>2, <2>3, <2>4 DEF Threads
<1> QED
  BY <1>1, <1>2, <1>3 DEF IInv, ListWellFormed

LEMMA NextIInv == IInv /\ [Next]_vars => IInv'
<1> SUFFICES ASSUME IInv, [Next]_vars PROVE IInv'
  OBVIOUS
<1>0. TypeOK /\ ListWellFormed
  BY DEF IInv
<1>1. ASSUME NEW f \in 0 .. NumFrames, update_frame_access(f)
      PROVE  IInv'
  <2>1. f \in Frames /\ f # head /\ MoveToHead(f)
    BY <1>1, NumFramesAssumption DEF update_frame_access, Frames
  <2>2. PICK r \in Rankings : Threads(r)
    BY <1>0 DEF ListWellFormed
  <2>3. /\ Threads(Touch(r, f))'
        /\ head' \in Frames /\ tail' \in Frames
        /\ prev' \in [Frames -> Pointers] /\ next' \in [Frames -> Pointers]
    BY <1>0, <2>1, <2>2, MoveToHeadThreads
  <2>4. Touch(r, f) \in Rankings
    BY <2>1, TouchRanking
  <2>5. ListWellFormed'
    BY <2>3, <2>4 DEF ListWellFormed
  <2>6. TypeOK'
    BY <1>0, <1>1, <2>3 DEF TypeOK, update_frame_access
  <2> QED
    BY <2>5, <2>6 DEF IInv
<1>2. CASE UNCHANGED links /\ TypeOK'
  BY <1>0, <1>2 DEF IInv, ListWellFormed, Threads, links
<1>3. ASSUME NEW f \in 0 .. NumFrames, AccessIgnored(f)
      PROVE  IInv'
  BY <1>0, <1>2, <1>3 DEF TypeOK, AccessIgnored, vars, links
<1>4. CASE destroy_lru_tracker
  BY <1>0, <1>2, <1>4 DEF TypeOK, destroy_lru_tracker, links, Pointers
<1>5. CASE FreeNode
  BY <1>0, <1>2, <1>5 DEF TypeOK, FreeNode, links
<1>6. CASE FreeTracker
  BY <1>0, <1>2, <1>6 DEF TypeOK, FreeTracker, links
<1>7. CASE UNCHANGED vars
  BY <1>0, <1>2, <1>7 DEF TypeOK, vars, links
<1> QED
  BY <1>1, <1>3, <1>4, <1>5, <1>6, <1>7 DEF Next

\* Type correctness of the tracker.
THEOREM TypeCorrect == Spec => []TypeOK
<1>1. IInv => TypeOK
  BY DEF IInv
<1> QED
  BY <1>1, InitIInv, NextIInv, PTL DEF Spec

\* Every sequence of accesses leaves a list that threads each frame once, in
\* both directions.
THEOREM ListStaysWellFormed == Spec => []ListWellFormed
<1>1. IInv => ListWellFormed
  BY DEF IInv
<1> QED
  BY <1>1, InitIInv, NextIInv, PTL DEF Spec

-----------------------------------------------------------------------------
\* What the cleanup loop has freed when it stands at current: exactly the
\* nodes in front of it.
FreedInFront(r) ==
  /\ phase = "live" => freed = {}
  /\ phase = "freeing" =>
       \/ current \in Frames /\ freed = { g \in Frames : r[g] < r[current] }
       \/ current = Nil /\ freed = Frames
  /\ phase = "freed" => freed = Frames

CleanupInv ==
  NumFrames > 1 => \A r \in Rankings : Threads(r) => FreedInFront(r)

LEMMA NextCleanupInv == IInv /\ CleanupInv /\ [Next]_vars => CleanupInv'
<1> SUFFICES ASSUME IInv, CleanupInv, [Next]_vars, NumFrames > 1,
                    NEW r \in Rankings, Threads(r)'
             PROVE  FreedInFront(r)'
  BY DEF CleanupInv
<1>0. /\ TypeOK
      /\ NumFrames \in Nat \ {0}
      /\ r \in [Frames -> Ranks]
      /\ \A g, h \in Frames : r[g] = r[h] => g = h
      /\ \A g \in Frames : r[g] \in 1 .. NumFrames
  BY NumFramesAssumption DEF IInv, Rankings, Ranks
<1>1. UNCHANGED links => Threads(r) /\ FreedInFront(r)
  BY DEF CleanupInv, Threads, links
<1>2. ASSUME NEW f \in 0 .. NumFrames,
             update_frame_access(f) \/ AccessIgnored(f)
      PROVE  FreedInFront(r)'
  <2>1. phase = "live" /\ phase' = "live" /\ freed' = freed
    BY <1>2 DEF update_frame_access, AccessIgnored, vars
  <2>2. PICK s \in Rankings : Threads(s)
    BY DEF IInv, ListWellFormed
  <2>3. freed = {}
    BY <2>1, <2>2 DEF CleanupInv, FreedInFront
  <2> QED
    BY <2>1, <2>3 DEF FreedInFront
<1>3. CASE destroy_lru_tracker
  <2>1. /\ phase = "live" /\ phase' = "freeing" /\ current' = head
        /\ freed' = freed /\ UNCHANGED links
    BY <1>3 DEF destroy_lru_tracker
  <2>2. freed = {} /\ r[head] = 1 /\ head \in Frames
    BY <1>0, <1>1, <2>1 DEF FreedInFront, Threads, TypeOK
  <2>3. { g \in Frames : r[g] < r[head] } = {}
    BY <1>0, <2>2
  <2> QED
    BY <2>1, <2>2, <2>3 DEF FreedInFront
<1>4. CASE FreeNode
  <2>1. /\ phase = "freeing" /\ phase' = "freeing" /\ current \in Frames
        /\ freed' = freed \cup {current} /\ current' = next[current]
        /\ UNCHANGED links
    BY <1>4 DEF FreeNode
  <2>2. freed = { g \in Frames : r[g] < r[current] }
    BY <1>1, <2>1 DEF FreedInFront, Nil, Frames
  <2>3. freed' = { g \in Frames : r[g] <= r[current] }
    BY <1>0, <2>1, <2>2
  <2>4. CASE current = tail
    <3>1. current' = Nil /\ r[current] = NumFrames
      BY <1>1, <2>1, <2>4 DEF Threads
    <3>2. freed' = Frames
      BY <1>0, <2>3, <3>1
    <3> QED
      BY <2>1, <3>1, <3>2 DEF FreedInFront
  <2>5. CASE current # tail
    <3>1. r[current] < NumFrames
      BY <1>0, <1>1, <2>1, <2>5 DEF Threads, TypeOK
    <3>2. current' \in Frames /\ r[current'] = r[current] + 1
      BY <1>1, <2>1, <3>1 DEF Threads
    <3>3. freed' = { g \in Frames : r[g] < r[current'] }
      BY <1>0, <2>1, <2>3, <3>2
    <3> QED
      BY <2>1, <3>2, <3>3 DEF FreedInFront
  <2> QED
    BY <2>4, <2>5
<1>5. CASE FreeTracker
  BY <1>1, <1>5 DEF FreeTracker, FreedInFront, Nil, Frames
<1>6. CASE UNCHANGED vars
  BY <1>1, <1>6 DEF FreedInFront, vars, links
<1> QED
  BY <1>2, <1>3, <1>4, <1>5, <1>6 DEF Next

\* quit frees every node of the list once: the loop never stands on a freed
\* node nor follows a garbage pointer, and nothing is left when it ends.
THEOREM CleanupFreesEachNodeOnce == Spec => []FreesEachNodeOnce
<1>1. Init => CleanupInv
  BY DEF Init, CleanupInv, FreedInFront
<1>2. IInv /\ CleanupInv => FreesEachNodeOnce
  <2> SUFFICES ASSUME IInv, CleanupInv, NumFrames > 1
               PROVE  /\ phase = "freeing" => current \notin freed /\ current # Wild
                      /\ phase = "freed" => freed = Frames
    BY DEF FreesEachNodeOnce
  <2>1. PICK r \in Rankings : Threads(r)
    BY DEF IInv, ListWellFormed
  <2>2. FreedInFront(r)
    BY <2>1 DEF CleanupInv
  <2>3. \A g \in Frames : r[g] \in Int
    BY NumFramesAssumption DEF Rankings, Ranks
  <2> QED
    BY <2>2, <2>3, NumFramesAssumption DEF FreedInFront, Nil, Wild, Frames
<1> QED
  BY <1>1, <1>2, InitIInv, NextIInv, NextCleanupInv, PTL DEF Spec

-----------------------------------------------------------------------------
LEMMA PositionThreads ==
  ASSUME ListWellFormed
  PROVE  Position \in Rankings /\ Threads(Position)
BY DEF ListWellFormed, Position

PositionIsOnlyThreading ==
  \A r \in Rankings : TypeOK /\ Threads(r) => Position = r

LEMMA PositionUnique == PositionIsOnlyThreading
BY ThreadingUnique DEF Position, PositionIsOnlyThreading

\* The pointer manipulation of update_frame_access implements the abstract
\* access; every other step of the tracker leaves the recency order alone.
THEOREM Refinement == Spec => RefinesRecencyOrder
<1>1. Init => Abstract!Init
  <2> SUFFICES ASSUME Init PROVE Position \in Rankings
    BY DEF Abstract!Init, Abstract!Rankings, Abstract!Frames, Abstract!Ranks,
           Rankings, Frames, Ranks
  <2> QED
    BY InitIInv, PositionThreads DEF IInv
<1>2. IInv /\ IInv' /\ [Next]_vars => [Abstract!Next]_Position
  <2> SUFFICES ASSUME IInv, IInv', [Next]_vars
               PROVE  [Abstract!Next]_Position
    OBVIOUS
  <2>0. /\ Position \in Rankings /\ Threads(Position)
        /\ TypeOK /\ TypeOK'
    BY PositionThreads DEF IInv
  <2>1. ASSUME NEW f \in 0 .. NumFrames, update_frame_access(f)
        PROVE  Abstract!Next
    <3>1. f \in Frames /\ f # head /\ MoveToHead(f)
      BY <2>1, NumFramesAssumption DEF update_frame_access, Frames
    <3>2. PICK r \in Rankings : r = Position
      BY <2>0
    <3>3. Threads(Touch(r, f))' /\ Touch(r, f) \in Rankings
      BY <2>0, <3>1, <3>2, MoveToHeadThreads, TouchRanking
    <3>4. PositionIsOnlyThreading'
      BY PositionUnique, PTL
    <3>5. Position' = Touch(r, f)
      BY <2>0, <3>3, <3>4 DEF PositionIsOnlyThreading
    <3> QED
      BY <3>1, <3>2, <3>5 DEF Abstract!Next, Abstract!Access, Abstract!Touch,
                        Abstract!Frames, Touch, Frames
  <2>2. CASE UNCHANGED links
    BY <2>2 DEF Position, Threads, links
  <2> QED
    BY <2>1, <2>2 DEF Next, AccessIgnored, destroy_lru_tracker, FreeNode,
                      FreeTracker, vars, links
<1> QED
  BY <1>1, <1>2, InitIInv, NextIInv, PTL
     DEF Spec, RefinesRecencyOrder, Abstract!Spec

=============================================================================
