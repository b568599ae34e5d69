----------------------------- MODULE LRUTracker -----------------------------
(***************************************************************************)
(* lru_tracker.c at the level of its pointers: a doubly linked list of one *)
(* node per frame, most recently accessed frame at the head.  A node is    *)
(* named by its frame number, so tracker->frames[i] is i.  lru_init never  *)
(* writes head->prev (nor head->next when there is a single frame): those  *)
(* fields hold whatever malloc returned.                                   *)
(***************************************************************************)
EXTENDS FrameRankings

Nil  == -1               \* NULL
Wild == -2               \* a pointer to no node of the list

Pointers == Frames \cup {Nil, Wild}

VARIABLES head, tail,    \* tracker->head, tracker->tail
          prev, next,    \* the links of each node
          phase,         \* "live", "freeing" (in the cleanup loop), "freed"
          current,       \* the cleanup loop's cursor
          freed          \* nodes given back to malloc

links == <<head, tail, prev, next>>

vars == <<head, tail, prev, next, phase, current, freed>>

-----------------------------------------------------------------------------
Init ==
  /\ head = 0
  /\ tail = NumFrames - 1
  /\ prev \in { p \in [Frames -> Pointers] :
                  \A f \in Frames \ {0} : p[f] = f - 1 }
  /\ next \in { n \in [Frames -> Pointers] :
                  \A f \in Frames :
                     /\ f < NumFrames - 1 => n[f] = f + 1
                     /\ f = NumFrames - 1 /\ f > 0 => n[f] = Nil }
  /\ phase = "live"
  /\ current = Nil
  /\ freed = {}

get_lru_frame == tail

\* An update at Nil is no update: the tests "if (node->prev)" and
\* "if (node->next)" of the code.
UnlinkedNext(f) == [next EXCEPT ![prev[f]] = next[f]]

UnlinkedPrev(f) == [prev EXCEPT ![next[f]] = prev[f]]

\* Mutant: the tail is not moved when the last node is taken out.
TailWithout_Stale(f) == tail

\* Mutant: the tail is moved in the wrong direction.
TailWithout_Swapped(f) == IF f = tail THEN next[f] ELSE tail

TailWithout(f) == IF f = tail THEN prev[f] ELSE tail

\* Mutant: the node goes to the wrong end of the list.
MoveToHead_AtTail(f) ==
  IF f = tail THEN UNCHANGED links
  ELSE /\ tail' = f
       /\ next' = [UnlinkedNext(f) EXCEPT ![f] = Nil, ![tail] = f]
       /\ prev' = [UnlinkedPrev(f) EXCEPT ![f] = tail]
       /\ head' = head

\* Mutant: the node is linked in at the head without being taken out.
MoveToHead_NotUnlinked(f) ==
  /\ tail' = TailWithout(f)
  /\ next' = [next EXCEPT ![f] = head]
  /\ prev' = [UnlinkedPrev(f) EXCEPT ![f] = Nil, ![head] = f]
  /\ head' = f

MoveToHead(f) ==
  /\ tail' = TailWithout(f)
  /\ next' = [UnlinkedNext(f) EXCEPT ![f] = head]
  /\ prev' = [UnlinkedPrev(f) EXCEPT ![f] = Nil, ![head] = f]
  /\ head' = f

update_frame_access(f) ==
  /\ phase = "live"
  /\ f < NumFrames /\ f # head
  /\ MoveToHead(f)
  /\ UNCHANGED <<phase, current, freed>>

\* Out of range, or "already at head, nothing to do".
AccessIgnored(f) ==
  /\ phase = "live"
  /\ f >= NumFrames \/ f = head
  /\ UNCHANGED vars

\* destroy_lru_tracker, called by quit: its loop, one node per step.
destroy_lru_tracker ==
  /\ phase = "live"
  /\ phase' = "freeing"
  /\ current' = head
  /\ UNCHANGED <<links, freed>>

FreeNode ==
  /\ phase = "freeing"
  /\ current \in Frames
  /\ freed' = freed \cup {current}
  /\ current' = next[current]
  /\ UNCHANGED <<links, phase>>

FreeTracker ==
  /\ phase = "freeing"
  /\ current = Nil
  /\ phase' = "freed"
  /\ UNCHANGED <<links, current, freed>>

Next ==
  \/ \E f \in 0 .. NumFrames : update_frame_access(f) \/ AccessIgnored(f)
  \/ destroy_lru_tracker
  \/ FreeNode
  \/ FreeTracker

Spec == Init /\ [][Next]_vars

-----------------------------------------------------------------------------

\* The links put the frames in the order r: the k-th node from the head is
\* the frame of rank k, read in either direction.
Threads(r) ==
  /\ r[head] = 1
  /\ r[tail] = NumFrames
  /\ NumFrames > 1 => next[tail] = Nil
  /\ \A f \in Frames :
       /\ r[f] < NumFrames => next[f] \in Frames /\ r[next[f]] = r[f] + 1
       /\ r[f] > 1 => prev[f] \in Frames /\ r[prev[f]] = r[f] - 1

TypeOK ==
  /\ head \in Frames
  /\ tail \in Frames
  /\ prev \in [Frames -> Pointers]
  /\ next \in [Frames -> Pointers]
  /\ phase \in {"live", "freeing", "freed"}
  /\ current \in Pointers
  /\ freed \in SUBSET Frames

\* However the accesses are ordered, the list threads every frame exactly
\* once from head to tail and back: no frame drops out of the replacement
\* policy, and get_lru_frame returns the last one (lru_tracker.c, 37-65).
ListWellFormed == \E r \in Rankings : Threads(r)

\* The cleanup loop of quit frees every node, and none of them twice.  With a
\* single frame the loop starts by following an uninitialised pointer.
FreesEachNodeOnce ==
  NumFrames > 1 =>
    /\ phase = "freeing" => current \notin freed /\ current # Wild
    /\ phase = "freed" => freed = Frames

\* The order in which the list threads the frames.
Position == CHOOSE r \in Rankings : Threads(r)

\* The linked list implements the recency order: an access to a frame moves
\* it, and nothing else, to the front ("head = most recently accessed",
\* lru_tracker.h, lines 1-6).
Abstract == INSTANCE RecencyOrder WITH rank <- Position

RefinesRecencyOrder == Abstract!Spec

=============================================================================
