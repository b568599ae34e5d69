---------------------------- MODULE RecencyOrder ----------------------------
(***************************************************************************)
(* What the LRU tracker promises, without the linked list that             *)
(* lru_tracker.c keeps: the frames stay ranked by their last access.       *)
(* LRUTracker implements this module.                                      *)
(***************************************************************************)
EXTENDS FrameRankings

VARIABLE rank

\* "Order here doesn't matter" (lru_tracker.c, line 15): any ranking will do.
Init == rank \in Rankings

Access(f) == rank' = Touch(rank, f)

Next == \E f \in Frames : Access(f)

Spec == Init /\ [][Next]_rank

=============================================================================
