--------------------------- MODULE FrameRankings ----------------------------
(***************************************************************************)
(* The physical frames of the demand-paging shell and the orders they can  *)
(* be in: rank 1 is the most recently accessed frame, rank NumFrames the   *)
(* least recently accessed one (lru_tracker.h, lines 1-6).                 *)
(***************************************************************************)
EXTENDS Integers

CONSTANT NumFrames      \* framesize / 3, computed by main (shell.c)

ASSUME NumFramesAssumption == NumFrames \in Nat \ {0}

Frames == 0 .. NumFrames - 1

Ranks == 1 .. NumFrames

\* The one-to-one assignments of ranks to frames.
Rankings ==
  { r \in [Frames -> Ranks] :
      /\ \A f, g \in Frames : r[f] = r[g] => f = g
      /\ \A n \in Ranks : \E f \in Frames : r[f] = n }

\* Mutant: the frames above f are not pushed down.
Touch_NoShift(r, f) == [r EXCEPT ![f] = 1]

\* An access gives f rank 1 and pushes down the frames that were above it.
Touch(r, f) ==
  [ g \in Frames |-> IF g = f THEN 1
                     ELSE IF r[g] < r[f] THEN r[g] + 1 ELSE r[g] ]

\* Mutant: the victim is taken from the wrong end of the order.
Victim_MostRecent(r) == CHOOSE f \in Frames : r[f] = 1

\* The frame to evict.
Victim(r) == CHOOSE f \in Frames : r[f] = NumFrames

=============================================================================
