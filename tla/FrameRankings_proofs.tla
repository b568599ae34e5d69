------------------------ MODULE FrameRankings_proofs ------------------------
(***************************************************************************)
(* Facts about the orders of the frames, for every number of frames.       *)
(***************************************************************************)
EXTENDS FrameRankings, TLAPS, WellFoundedInduction

\* An access keeps the ranks one-to-one.
LEMMA TouchRanking ==
  ASSUME NEW r \in Rankings, NEW f \in Frames
  PROVE  Touch(r, f) \in Rankings
<1> DEFINE t == Touch(r, f)
<1>0. NumFrames \in Nat \ {0}
  BY NumFramesAssumption
<1>1. r \in [Frames -> Ranks] /\ r[f] \in Ranks
  BY DEF Rankings
<1>2. t \in [Frames -> Ranks]
  BY <1>0, <1>1 DEF Touch, Ranks
<1>3. \A g, h \in Frames : t[g] = t[h] => g = h
  BY <1>0, <1>1 DEF Touch, Ranks, Rankings
<1>4. ASSUME NEW n \in Ranks
      PROVE  \E g \in Frames : t[g] = n
  <2>1. CASE n = 1
    BY <2>1 DEF Touch
  <2>2. CASE n > 1 /\ n <= r[f]
    <3>1. n - 1 \in Ranks
      BY <2>2, <1>0 DEF Ranks
    <3>2. PICK g \in Frames : r[g] = n - 1
      BY <3>1 DEF Rankings
    <3>3. t[g] = n
      BY <3>2, <2>2, <1>1 DEF Touch, Ranks
    <3> QED
      BY <3>3
  <2>3. CASE n > r[f]
    <3>1. PICK g \in Frames : r[g] = n
      BY DEF Rankings
    <3>2. t[g] = n
      BY <3>1, <2>3, <1>1 DEF Touch, Ranks
    <3> QED
      BY <3>2
  <2> QED
    BY <2>1, <2>2, <2>3, <1>1 DEF Ranks
<1> QED
  BY <1>2, <1>3, <1>4 DEF Rankings

\* Every ranking has a victim, the one frame of the last rank.
LEMMA VictimIsLast ==
  ASSUME NEW r \in Rankings
  PROVE  Victim(r) \in Frames /\ r[Victim(r)] = NumFrames
<1>1. NumFrames \in Ranks
  BY NumFramesAssumption DEF Ranks
<1>2. \E f \in Frames : r[f] = NumFrames
  BY <1>1 DEF Rankings
<1> QED
  BY <1>2 DEF Victim

\* Any set of frames that is not empty has a first frame.
LEMMA FirstFrame ==
  ASSUME NEW S \in SUBSET Frames, S # {}
  PROVE  \E f \in S : \A g \in S : f <= g
<1>1. S \subseteq Nat
  BY NumFramesAssumption DEF Frames
<1>2. PICK f \in S : \A g \in S : ~(<<g, f>> \in OpToRel(<, Nat))
  BY <1>1, NatLessThanWellFounded, WFMin
<1>3. ASSUME NEW g \in S PROVE f <= g
  <2>1. f \in Nat /\ g \in Nat
    BY <1>1
  <2>2. ~(g < f)
    <3>1. g < f => <<g, f>> \in OpToRel(<, Nat)
      BY <2>1 DEF OpToRel
    <3> QED
      BY <1>2, <3>1
  <2> QED
    BY <2>1, <2>2
<1> QED
  BY <1>3

=============================================================================
