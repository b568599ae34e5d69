------------------------- MODULE CommandLines_proofs -------------------------
(***************************************************************************)
(* For every line: both parsers hand over its commands, each once, with    *)
(* its own words, in order.  A parser that has come to position ix has     *)
(* read the words of the current command before ix (Scanned), and the      *)
(* commands that ended before it have been called.  What exec takes from   *)
(* the words of its command is what was written there.                     *)
(***************************************************************************)
EXTENDS CommandLines, FiniteSetTheorems, SequenceTheorems,
        WellFoundedInduction, TLAPS

-----------------------------------------------------------------------------
(* Positions in their order.                                               *)

UpTo(S, p) == { q \in S : q <= p }

\* Every non-empty set of numbers has a least member.
LEMMA LeastMember ==
  ASSUME NEW S \in SUBSET Nat, S # {}
  PROVE  \E p \in S : \A q \in S : p <= q
<1>1. PICK p \in S : \A q \in S : ~(<<q, p>> \in OpToRel(<, Nat))
  BY NatLessThanWellFounded, WFMin
<1>2. ASSUME NEW q \in S PROVE p <= q
  <2>1. p \in Nat /\ q \in Nat
    OBVIOUS
  <2>2. ~(q < p)
    <3>1. q < p => <<q, p>> \in OpToRel(<, Nat)
      BY <2>1 DEF OpToRel
    <3> QED
      BY <1>1, <3>1
  <2> QED
    BY <2>1, <2>2
<1> QED
  BY <1>2

\* Each position has a rank of its own.
LEMMA Rank ==
  ASSUME NEW S \in SUBSET Nat, IsFiniteSet(S), NEW p \in S
  PROVE  /\ Cardinality(UpTo(S, p)) \in 1 .. Cardinality(S)
         /\ \A q \in S : Cardinality(UpTo(S, q)) = Cardinality(UpTo(S, p)) => q = p
<1>1. ASSUME NEW q \in S
      PROVE  /\ IsFiniteSet(UpTo(S, q)) /\ Cardinality(UpTo(S, q)) \in Nat
             /\ Cardinality(UpTo(S, q)) <= Cardinality(S)
  <2>1. UpTo(S, q) \in SUBSET S
    BY DEF UpTo
  <2> QED
    BY <2>1, FS_Subset, FS_CardinalityType
<1>2. Cardinality(S) \in Nat
  BY FS_CardinalityType
<1>3. Cardinality(UpTo(S, p)) # 0
  <2>1. p \in UpTo(S, p)
    BY DEF UpTo
  <2> QED
    BY <1>1, <2>1, FS_EmptySet
<1>4. ASSUME NEW q \in S, NEW r \in S, q < r,
             Cardinality(UpTo(S, q)) = Cardinality(UpTo(S, r))
      PROVE  FALSE
  <2>1. UpTo(S, q) \in SUBSET UpTo(S, r)
    <3>1. \A x \in S : x \in Nat
      OBVIOUS
    <3>2. \A x \in S : x <= q => x <= r
      BY <1>4, <3>1
    <3> QED
      BY <3>2 DEF UpTo
  <2>2. UpTo(S, r) = UpTo(S, q)
    BY <1>1, <1>4, <2>1, FS_Subset
  <2>3. r \in UpTo(S, r) /\ r \notin UpTo(S, q)
    BY <1>4 DEF UpTo
  <2> QED
    BY <2>2, <2>3
<1>5. ASSUME NEW q \in S, Cardinality(UpTo(S, q)) = Cardinality(UpTo(S, p))
      PROVE  q = p
  <2>1. ~(q < p) /\ ~(p < q)
    BY <1>4, <1>5
  <2> QED
    BY <2>1
<1> QED
  BY <1>1, <1>2, <1>3, <1>5

LEMMA InOrderAt ==
  ASSUME NEW S \in SUBSET Nat, IsFiniteSet(S), NEW p \in S
  PROVE  InOrder(S)[Cardinality(UpTo(S, p))] = p
<1> DEFINE n == Cardinality(UpTo(S, p))
<1>1. n \in 1 .. Cardinality(S)
  BY Rank
<1>2. InOrder(S)[n] = CHOOSE q \in S : Cardinality({ r \in S : r <= q }) = n
  BY <1>1 DEF InOrder
<1>3. p = CHOOSE q \in S : Cardinality({ r \in S : r <= q }) = n
  <2>1. \A q \in S : Cardinality({ r \in S : r <= q }) = n => q = p
    BY Rank DEF UpTo
  <2>2. Cardinality({ r \in S : r <= p }) = n
    BY DEF UpTo
  <2> QED
    BY <2>1, <2>2
<1> QED
  BY <1>2, <1>3

\* Every rank is taken.
LEMMA InOrderRank ==
  ASSUME NEW S \in SUBSET Nat, IsFiniteSet(S)
  PROVE  /\ InOrder(S) \in Seq(S) /\ Len(InOrder(S)) = Cardinality(S)
         /\ \A n \in 1 .. Cardinality(S) :
              InOrder(S)[n] \in S /\ Cardinality(UpTo(S, InOrder(S)[n])) = n
<1> DEFINE N == Cardinality(S)
           f == [p \in S |-> Cardinality(UpTo(S, p))]
<1>1. N \in Nat
  BY FS_CardinalityType
<1>2. f \in Injection(S, 1 .. N)
  BY Rank DEF Injection, IsInjective
<1>3. IsFiniteSet(1 .. N) /\ Cardinality(1 .. N) = N
  BY <1>1, FS_Interval
<1>4. f \in Surjection(S, 1 .. N)
  BY <1>2, <1>3, FS_Injection
<1>5. ASSUME NEW n \in 1 .. N
      PROVE  InOrder(S)[n] \in S /\ Cardinality(UpTo(S, InOrder(S)[n])) = n
  <2>1. PICK p \in S : f[p] = n
    BY <1>4 DEF Surjection
  <2> QED
    BY <2>1, InOrderAt
<1>6. InOrder(S) \in [1 .. N -> S]
  BY <1>5 DEF InOrder
<1> QED
  BY <1>1, <1>5, <1>6

LEMMA InOrderAppend ==
  ASSUME NEW S \in SUBSET Nat, IsFiniteSet(S), NEW m \in Nat, \A q \in S : q < m
  PROVE  InOrder(S \cup {m}) = Append(InOrder(S), m)
<1> DEFINE T == S \cup {m}
           N == Cardinality(S)
<1>1. T \in SUBSET Nat /\ IsFiniteSet(T) /\ Cardinality(T) = N + 1 /\ N \in Nat
  <2>1. m \notin S
    OBVIOUS
  <2> QED
    BY <2>1, FS_AddElement, FS_CardinalityType
<1>2. /\ InOrder(S) \in Seq(S) /\ Len(InOrder(S)) = N
      /\ InOrder(T) \in Seq(T) /\ Len(InOrder(T)) = N + 1
  BY <1>1, InOrderRank
<1>3. ASSUME NEW n \in 1 .. N PROVE InOrder(T)[n] = InOrder(S)[n]
  <2>1. PICK p \in S : p = InOrder(S)[n] /\ Cardinality(UpTo(S, p)) = n
    BY InOrderRank
  <2>2. UpTo(T, p) = UpTo(S, p)
    BY DEF UpTo
  <2> QED
    BY <1>1, <2>1, <2>2, InOrderAt
<1>4. InOrder(T)[N + 1] = m
  <2>1. UpTo(T, m) = T
    <3>1. \A q \in T : q <= m
      OBVIOUS
    <3> QED
      BY <3>1 DEF UpTo
  <2> QED
    BY <1>1, <2>1, InOrderAt
<1>5. /\ Append(InOrder(S), m) \in Seq(T) /\ Len(Append(InOrder(S), m)) = N + 1
      /\ \A n \in 1 .. N : Append(InOrder(S), m)[n] = InOrder(S)[n]
      /\ Append(InOrder(S), m)[N + 1] = m
  BY <1>1, <1>2
<1>6. \A n \in 1 .. N + 1 : n \in 1 .. N \/ n = N + 1
  BY <1>1
<1>7. \A n \in 1 .. N + 1 : InOrder(T)[n] = Append(InOrder(S), m)[n]
  BY <1>3, <1>4, <1>5, <1>6
<1> QED
  BY <1>1, <1>2, <1>5, <1>7, SeqEqual

-----------------------------------------------------------------------------
(* Lines.                                                                  *)

Characters == Letters \cup {Blank, Semicolon, Newline}

\* A line ends where the zeros of the buffer begin.
LEMMA Buffer ==
  ASSUME NEW l \in Seq(Characters), NEW k \in Nat \ {0}
  PROVE  /\ Len(l) \in Nat
         /\ CharAt(l, k) = NUL <=> k > Len(l)
         /\ CharAt(l, k) \in Characters \cup {NUL}
         /\ IsLetter(l, k) => k \in 1 .. Len(l) /\ l[k] \in Letters
<1>1. Len(l) \in Nat /\ (k <= Len(l) => l[k] \in Characters)
  OBVIOUS
<1>2. NUL \notin Characters
  BY LineSyntaxAssumption DEF Characters
<1> QED
  BY <1>1, <1>2, LineSyntaxAssumption DEF CharAt, IsLetter, Characters

LEMMA WordEndsAt ==
  ASSUME NEW l \in Seq(Characters), NEW k \in Nat \ {0}, IsLetter(l, k)
  PROVE  /\ WordEnd(l, k) \in k .. Len(l)
         /\ \A m \in k .. WordEnd(l, k) : IsLetter(l, m)
         /\ ~IsLetter(l, WordEnd(l, k) + 1)
<1> DEFINE S == { m \in k .. Len(l) + 1 : ~IsLetter(l, m) }
<1>1. Len(l) \in Nat /\ k \in 1 .. Len(l)
  BY Buffer
<1>2. Len(l) + 1 \in S
  <2>1. ~IsLetter(l, Len(l) + 1)
    BY <1>1, Buffer
  <2> QED
    BY <1>1, <2>1
<1>3. PICK p \in S : \A q \in S : p <= q
  <2>1. S \in SUBSET Nat /\ S # {}
    BY <1>1, <1>2
  <2> HIDE DEF S
  <2> QED
    BY <2>1, LeastMember
<1>4. p # k
  OBVIOUS
<1>5. /\ p - 1 \in k .. Len(l) /\ ~IsLetter(l, (p - 1) + 1)
      /\ \A m \in k .. p - 1 : IsLetter(l, m)
  BY <1>1, <1>3, <1>4
<1> QED
  BY <1>5 DEF WordEnd

LEMMA BlanksEndAt ==
  ASSUME NEW l \in Seq(Characters), NEW k \in 1 .. Len(l) + 1
  PROVE  /\ SkipBlanks(l, k) \in k .. Len(l) + 1
         /\ CharAt(l, SkipBlanks(l, k)) # Blank
         /\ \A m \in k .. SkipBlanks(l, k) - 1 : CharAt(l, m) = Blank
<1> DEFINE S == { m \in k .. Len(l) + 1 : CharAt(l, m) # Blank }
<1>1. Len(l) \in Nat
  BY Buffer
<1>2. Len(l) + 1 \in S
  <2>1. CharAt(l, Len(l) + 1) = NUL
    BY <1>1, Buffer
  <2> QED
    BY <1>1, <2>1, LineSyntaxAssumption
<1>3. PICK p \in S : \A q \in S : p <= q
  <2>1. S \in SUBSET Nat /\ S # {}
    BY <1>1, <1>2
  <2> HIDE DEF S
  <2> QED
    BY <2>1, LeastMember
<1>4. \A j \in k .. p - 1 : CharAt(l, j) = Blank
  BY <1>1, <1>3
<1> QED
  BY <1>3, <1>4 DEF SkipBlanks

LEMMA LineEndsAt ==
  ASSUME NEW l \in Seq(Characters)
  PROVE  /\ LineEnd(l) \in 1 .. Len(l) + 1 /\ LineEnd(l) \in Nat
         /\ CharAt(l, LineEnd(l)) \in {Newline, NUL}
         /\ \A m \in 1 .. LineEnd(l) - 1 : CharAt(l, m) \notin {Newline, NUL}
<1> DEFINE S == { m \in 1 .. Len(l) + 1 : CharAt(l, m) \in {Newline, NUL} }
<1>1. Len(l) \in Nat
  BY Buffer
<1>2. Len(l) + 1 \in S
  <2>1. CharAt(l, Len(l) + 1) = NUL
    BY <1>1, Buffer
  <2> QED
    BY <1>1, <2>1
<1>3. PICK p \in S : \A q \in S : p <= q
  <2>1. S \in SUBSET Nat /\ S # {}
    BY <1>1, <1>2
  <2> HIDE DEF S
  <2> QED
    BY <2>1, LeastMember
<1>4. \A m \in 1 .. p - 1 : CharAt(l, m) \notin {Newline, NUL}
  BY <1>1, <1>3
<1>5. /\ LineEnd(l) \in 1 .. Len(l) + 1
      /\ CharAt(l, LineEnd(l)) \in {Newline, NUL}
      /\ \A m \in 1 .. LineEnd(l) - 1 : CharAt(l, m) \notin {Newline, NUL}
  BY <1>3, <1>4 DEF LineEnd
<1> QED
  BY <1>1, <1>5

\* A word is made of letters.
LEMMA WordType ==
  ASSUME NEW l \in Seq(Characters), NEW k \in Nat \ {0}, IsLetter(l, k)
  PROVE  WordAt(l, k) \in Seq(Letters)
<1>1. PICK e \in k .. Len(l) : e = WordEnd(l, k) /\ \A m \in k .. e : IsLetter(l, m)
  BY WordEndsAt
<1>2. \A m \in k .. e : l[m] \in Letters
  BY <1>1, Buffer
<1>3. SubSeq(l, k, e) = [i \in 1 .. e - k + 1 |-> l[i + k - 1]]
  BY <1>1, Buffer
<1>4. \A i \in 1 .. e - k + 1 : l[i + k - 1] \in Letters
  BY <1>1, <1>2, Buffer
<1>5. SubSeq(l, k, e) \in [1 .. e - k + 1 -> Letters]
  BY <1>3, <1>4
<1>6. e - k + 1 \in Nat
  BY <1>1, Buffer
<1>7. SubSeq(l, k, e) \in Seq(Letters)
  BY <1>5, <1>6, SeqDef
<1> QED
  BY <1>1, <1>7 DEF WordAt

LEMMA StartsOf ==
  ASSUME NEW l \in Seq(Characters)
  PROVE  /\ WordStarts(l) \in SUBSET (Nat \ {0}) /\ IsFiniteSet(WordStarts(l))
         /\ CommandEnds(l) \in SUBSET (Nat \ {0}) /\ IsFiniteSet(CommandEnds(l))
         /\ LineEnd(l) \in CommandEnds(l)
<1>1. IsFiniteSet(1 .. Len(l)) /\ IsFiniteSet(1 .. LineEnd(l))
  BY Buffer, LineEndsAt, FS_Interval
<1>2. WordStarts(l) \in SUBSET (1 .. Len(l)) /\ CommandEnds(l) \in SUBSET (1 .. LineEnd(l))
  BY DEF WordStarts, CommandEnds
<1>3. LineEnd(l) \in CommandEnds(l)
  BY LineEndsAt DEF CommandEnds
<1> QED
  BY <1>1, <1>2, <1>3, FS_Subset

-----------------------------------------------------------------------------
(* The words of a part of a line.                                          *)

LEMMA WordsType ==
  ASSUME NEW l \in Seq(Characters), NEW a, NEW b
  PROVE  /\ Words(l, a, b) \in Seq(Seq(Letters))
         /\ \A n \in 1 .. Cardinality(WordStarts(l) \cap a .. b) :
              Words(l, a, b)[n] = WordAt(l, InOrder(WordStarts(l) \cap a .. b)[n])
         /\ Len(Words(l, a, b)) = Cardinality(WordStarts(l) \cap a .. b)
         /\ Cardinality(WordStarts(l) \cap a .. b) \in Nat
<1> DEFINE S == WordStarts(l) \cap a .. b
<1>1. S \in SUBSET (Nat \ {0}) /\ IsFiniteSet(S) /\ S \in SUBSET WordStarts(l)
  BY StartsOf, FS_Subset
<1>2. InOrder(S) \in Seq(S) /\ Len(InOrder(S)) = Cardinality(S) /\ Cardinality(S) \in Nat
  BY <1>1, InOrderRank, FS_CardinalityType
<1>3. \A n \in 1 .. Cardinality(S) : InOrder(S)[n] \in S
  BY <1>1, InOrderRank
<1>4. \A k \in S : WordAt(l, k) \in Seq(Letters)
  BY <1>1, WordType DEF WordStarts
<1>5. Words(l, a, b) = [n \in 1 .. Cardinality(S) |-> WordAt(l, InOrder(S)[n])]
  BY <1>2 DEF Words
<1> HIDE DEF S
<1>6. Words(l, a, b) \in [1 .. Cardinality(S) -> Seq(Letters)]
  BY <1>3, <1>4, <1>5
<1>7. Words(l, a, b) \in Seq(Seq(Letters)) /\ Len(Words(l, a, b)) = Cardinality(S)
  BY <1>2, <1>6, SeqDef
<1> QED
  BY <1>2, <1>5, <1>7 DEF S

LEMMA WordsSkip ==
  ASSUME NEW l \in Seq(Characters), NEW a \in Nat, NEW i \in Nat, NEW j \in Nat, i <= j,
         \A k \in i + 1 .. j : k \notin WordStarts(l)
  PROVE  Words(l, a, j) = Words(l, a, i)
<1>1. WordStarts(l) \cap a .. j = WordStarts(l) \cap a .. i
  <2>1. \A k \in a .. j : k \in a .. i \/ k \in i + 1 .. j
    OBVIOUS
  <2>2. \A k \in a .. i : k \in a .. j
    OBVIOUS
  <2> QED
    BY <2>1, <2>2
<1> QED
  BY <1>1 DEF Words

LEMMA WordsTake ==
  ASSUME NEW l \in Seq(Characters), NEW a \in Nat, NEW i \in Nat, NEW j \in Nat,
         NEW s \in WordStarts(l), i < s, s <= j, a <= s,
         \A k \in WordStarts(l) : i < k /\ k <= j => k = s
  PROVE  Words(l, a, j) = Append(Words(l, a, i), WordAt(l, s))
<1> DEFINE S == WordStarts(l) \cap a .. i
           T == WordStarts(l) \cap a .. j
           N == Cardinality(S)
<1>1. T = S \cup {s}
  <2>1. \A k \in WordStarts(l) : k \in Nat
    BY StartsOf
  <2> QED
    BY <2>1
<1>2. S \in SUBSET Nat /\ IsFiniteSet(S) /\ \A q \in S : q < s
  BY StartsOf, FS_Subset
<1>3. N \in Nat /\ Cardinality(T) = N + 1
  <2>1. s \notin S
    BY <1>2
  <2> QED
    BY <1>1, <1>2, <2>1, FS_AddElement, FS_CardinalityType
<1>4. InOrder(T) = Append(InOrder(S), s)
  <2>1. s \in Nat
    BY StartsOf
  <2> HIDE DEF S, T
  <2> QED
    BY <1>1, <1>2, <2>1, InOrderAppend
<1>5. InOrder(S) \in Seq(S) /\ Len(InOrder(S)) = N
  BY <1>2, InOrderRank
<1>6. /\ \A n \in 1 .. N : InOrder(T)[n] = InOrder(S)[n]
      /\ InOrder(T)[N + 1] = s
  <2>1. S \subseteq Nat /\ s \in Nat
    BY <1>2, StartsOf
  <2> HIDE DEF S, T, N
  <2> QED
    BY <1>3, <1>4, <1>5, <2>1
<1>7. /\ Words(l, a, i) \in Seq(Seq(Letters)) /\ Len(Words(l, a, i)) = N
      /\ \A n \in 1 .. N : Words(l, a, i)[n] = WordAt(l, InOrder(S)[n])
  <2>1. /\ Words(l, a, i) \in Seq(Seq(Letters)) /\ Len(Words(l, a, i)) = N
        /\ \A n \in 1 .. N : Words(l, a, i)[n] = WordAt(l, InOrder(S)[n])
    BY WordsType
  <2> HIDE DEF S, N
  <2> QED
    BY <2>1
<1>8. /\ Words(l, a, j) \in Seq(Seq(Letters)) /\ Len(Words(l, a, j)) = N + 1
      /\ \A n \in 1 .. N + 1 : Words(l, a, j)[n] = WordAt(l, InOrder(T)[n])
  <2>1. /\ Words(l, a, j) \in Seq(Seq(Letters)) /\ Len(Words(l, a, j)) = Cardinality(T)
        /\ \A n \in 1 .. Cardinality(T) : Words(l, a, j)[n] = WordAt(l, InOrder(T)[n])
    BY WordsType
  <2> HIDE DEF S, T, N
  <2> QED
    BY <1>3, <2>1
<1>9. WordAt(l, s) \in Seq(Letters)
  BY WordType, StartsOf DEF WordStarts
<1>10. \A n \in 1 .. N + 1 : n \in 1 .. N \/ n = N + 1
  BY <1>3
<1> HIDE DEF S, T, N
<1>11. /\ Append(Words(l, a, i), WordAt(l, s)) \in Seq(Seq(Letters))
       /\ Len(Append(Words(l, a, i), WordAt(l, s))) = N + 1
       /\ \A n \in 1 .. N + 1 :
            Words(l, a, j)[n] = Append(Words(l, a, i), WordAt(l, s))[n]
  BY <1>3, <1>6, <1>7, <1>8, <1>9, <1>10
<1> QED
  BY <1>8, <1>11, SeqEqual

-----------------------------------------------------------------------------
(* Reading a line from its start.                                          *)

\* Of the command that begins at start the words before position i are read.
Scanned(l, start, i, words) ==
  /\ start \in 1 .. i
  /\ start = 1 \/ start - 1 \in CommandEnds(l)
  /\ \A k \in start .. i - 1 : k \notin CommandEnds(l)
  /\ words = Words(l, start, i - 1)
  /\ i > 1 /\ IsLetter(l, i) => ~IsLetter(l, i - 1)

EndedBefore(l, start) == Cardinality({ e \in CommandEnds(l) : e < start })

LEMMA NoWords ==
  ASSUME NEW l \in Seq(Characters), NEW a \in Nat, NEW b \in Nat, b < a
  PROVE  Words(l, a, b) = << >>
<1>1. WordStarts(l) \cap a .. b = {}
  OBVIOUS
<1>2. Cardinality(WordStarts(l) \cap a .. b) = 0
  BY <1>1, FS_EmptySet
<1>3. Words(l, a, b) \in Seq(Seq(Letters)) /\ Len(Words(l, a, b)) = 0
  BY <1>2, WordsType
<1> QED
  BY <1>3, EmptySeq

LEMMA ScanFirst ==
  ASSUME NEW l \in Seq(Characters)
  PROVE  Scanned(l, 1, 1, << >>) /\ EndedBefore(l, 1) = 0 /\ 1 \in 1 .. LineEnd(l)
<1>1. Words(l, 1, 1 - 1) = << >>
  BY NoWords
<1>2. { e \in CommandEnds(l) : e < 1 } = {}
  BY StartsOf
<1>3. EndedBefore(l, 1) = 0
  BY <1>2, FS_EmptySet DEF EndedBefore
<1>4. Scanned(l, 1, 1, << >>)
  BY <1>1 DEF Scanned
<1> QED
  BY <1>3, <1>4, LineEndsAt

LEMMA ScanWord ==
  ASSUME NEW l \in Seq(Characters), NEW i \in 1 .. LineEnd(l), NEW start, NEW words,
         Scanned(l, start, i, words), NEW s, s = SkipBlanks(l, i), IsLetter(l, s),
         NEW e, e = WordEnd(l, s)
  PROVE  /\ Scanned(l, start, e + 1, Append(words, WordAt(l, s)))
         /\ e + 1 \in 1 .. LineEnd(l) /\ WordAt(l, s) \in Seq(Letters)
<1>1. Len(l) \in Nat /\ LineEnd(l) \in 1 .. Len(l) + 1 /\ i \in 1 .. Len(l) + 1 /\ i \in Nat
  BY Buffer, LineEndsAt
<1>2. s \in i .. Len(l) + 1 /\ s \in Nat \ {0} /\ \A m \in i .. s - 1 : CharAt(l, m) = Blank
  BY <1>1, BlanksEndAt
<1>3. e \in s .. Len(l) /\ e \in Nat /\ (\A m \in s .. e : IsLetter(l, m)) /\ ~IsLetter(l, e + 1)
  BY <1>1, <1>2, WordEndsAt
<1>4. \A k \in i .. e : k \in i .. s - 1 \/ k \in s .. e
  BY <1>1, <1>2, <1>3
<1>5. \A k \in i .. e : CharAt(l, k) \notin {Semicolon, Newline, NUL}
  BY <1>2, <1>3, <1>4, LineSyntaxAssumption DEF IsLetter
<1>6. LineEnd(l) >= e + 1
  <2>1. LineEnd(l) \notin i .. e
    BY <1>5, LineEndsAt
  <2> QED
    BY <1>1, <1>3, <2>1
<1>7. \A k \in i .. e : k \notin CommandEnds(l)
  BY <1>1, <1>3, <1>5, <1>6 DEF CommandEnds
<1>8. s \in WordStarts(l)
  <2>1. ASSUME s > 1 PROVE ~IsLetter(l, s - 1)
    <3>1. CASE s = i
      BY <3>1, <2>1 DEF Scanned
    <3>2. CASE s > i
      <4>1. CharAt(l, s - 1) = Blank
        BY <1>1, <1>2, <3>2
      <4> QED
        BY <4>1, LineSyntaxAssumption DEF IsLetter
    <3> QED
      BY <1>1, <1>2, <3>1, <3>2
  <2> QED
    BY <1>2, <1>3, <2>1 DEF WordStarts
<1>9. ASSUME NEW k \in i .. e, k # s PROVE k \notin WordStarts(l)
  <2>1. CASE k \in i .. s - 1
    BY <1>2, <2>1, LineSyntaxAssumption DEF WordStarts, IsLetter
  <2>2. CASE k \in s .. e
    <3>1. k - 1 \in s .. e /\ k > 1
      BY <1>2, <1>3, <1>9, <2>2
    <3> QED
      BY <1>3, <3>1 DEF WordStarts
  <2> QED
    BY <1>4, <2>1, <2>2
<1>10. start \in Nat /\ start <= i /\ words = Words(l, start, i - 1)
  BY <1>1 DEF Scanned
<1>11. Words(l, start, e) = Append(words, WordAt(l, s))
  <2>1. PICK j \in Nat : j = i - 1 /\ j + 1 = i
    BY <1>1
  <2>2. start <= s /\ j < s /\ s <= e
    BY <1>1, <1>2, <1>3, <1>10, <2>1
  <2>3. \A k \in WordStarts(l) : j < k /\ k <= e => k = s
    <3>1. \A k \in WordStarts(l) : k \in Nat
      BY StartsOf
    <3> QED
      BY <1>1, <1>3, <1>9, <2>1, <3>1
  <2>4. start \in Nat /\ e \in Nat
    BY <1>3, <1>10
  <2>5. Words(l, start, e) = Append(Words(l, start, j), WordAt(l, s))
    BY <1>8, <2>2, <2>3, <2>4, WordsTake
  <2> QED
    BY <1>10, <2>1, <2>5
<1>12. WordAt(l, s) \in Seq(Letters)
  BY <1>2, WordType
<1>13. \A k \in start .. e : k \in start .. i - 1 \/ k \in i .. e
  BY <1>1, <1>3, <1>10
<1>14. e + 1 \in 1 .. LineEnd(l) /\ start \in 1 .. e + 1 /\ (e + 1) - 1 = e
  BY <1>1, <1>2, <1>3, <1>6 DEF Scanned
<1> QED
  BY <1>3, <1>7, <1>11, <1>12, <1>13, <1>14 DEF Scanned

LEMMA ScanBlanks ==
  ASSUME NEW l \in Seq(Characters), NEW i \in 1 .. LineEnd(l), NEW start, NEW words,
         Scanned(l, start, i, words), NEW e, e = SkipBlanks(l, i), ~IsLetter(l, e)
  PROVE  /\ Scanned(l, start, e, words) /\ e \in CommandEnds(l)
         /\ e \in i .. LineEnd(l) /\ e \in Nat \ {0} /\ i \in Nat
         /\ CharAt(l, e) \in {Semicolon, Newline, NUL}
<1>1. Len(l) \in Nat /\ LineEnd(l) \in 1 .. Len(l) + 1 /\ i \in 1 .. Len(l) + 1 /\ i \in Nat
  BY Buffer, LineEndsAt
<1>2. /\ e \in i .. Len(l) + 1 /\ e \in Nat \ {0} /\ CharAt(l, e) # Blank
      /\ \A m \in i .. e - 1 : CharAt(l, m) = Blank
  BY <1>1, BlanksEndAt
<1>3. CharAt(l, e) \in {Semicolon, Newline, NUL}
  BY <1>2, Buffer DEF IsLetter, Characters
<1>4. \A k \in i .. e - 1 : CharAt(l, k) \notin Letters \cup {Semicolon, Newline, NUL}
  BY <1>2, LineSyntaxAssumption
<1>5. e <= LineEnd(l)
  <2>1. LineEnd(l) \notin i .. e - 1
    BY <1>4, LineEndsAt
  <2> QED
    BY <1>1, <1>2, <2>1
<1>6. e \in CommandEnds(l)
  <2>1. CASE CharAt(l, e) = Semicolon
    BY <1>2, <1>5, <2>1, LineEndsAt DEF CommandEnds
  <2>2. CASE CharAt(l, e) \in {Newline, NUL}
    <3>1. e \notin 1 .. LineEnd(l) - 1
      BY <2>2, LineEndsAt
    <3>2. e = LineEnd(l)
      BY <1>1, <1>2, <1>5, <3>1
    <3> QED
      BY <3>2, StartsOf
  <2> QED
    BY <1>3, <2>1, <2>2
<1>7. \A k \in i .. e - 1 : k \notin CommandEnds(l) /\ k \notin WordStarts(l)
  <2>1. \A k \in i .. e - 1 : k # LineEnd(l)
    BY <1>1, <1>2, <1>5
  <2> QED
    BY <1>4, <2>1 DEF CommandEnds, WordStarts, IsLetter
<1>8. start \in Nat /\ start <= i /\ words = Words(l, start, i - 1)
  BY <1>1 DEF Scanned
<1>9. Words(l, start, e - 1) = words
  <2>1. i - 1 \in Nat /\ (i - 1) + 1 = i /\ e - 1 \in Nat /\ i - 1 <= e - 1
    BY <1>1, <1>2
  <2> QED
    BY <1>7, <1>8, <2>1, WordsSkip
<1>10. \A k \in start .. e - 1 : k \in start .. i - 1 \/ k \in i .. e - 1
  BY <1>1, <1>2, <1>8
<1>11. start \in 1 .. e /\ e \in i .. LineEnd(l)
  BY <1>1, <1>2, <1>5, <1>8 DEF Scanned
<1> QED
  BY <1>1, <1>2, <1>3, <1>6, <1>7, <1>9, <1>10, <1>11 DEF Scanned

-----------------------------------------------------------------------------
(* The commands of a line.                                                 *)

LEMMA ChainType ==
  ASSUME NEW l \in Seq(Characters)
  PROVE  /\ Chain(l) \in Seq(Seq(Seq(Letters))) /\ Len(Chain(l)) = Cardinality(CommandEnds(l))
         /\ Len(Chain(l)) \in Nat
         /\ \A n \in 1 .. Len(Chain(l)) :
              Chain(l)[n] = Words(l, IF n = 1 THEN 1 ELSE InOrder(CommandEnds(l))[n - 1] + 1,
                                  InOrder(CommandEnds(l))[n] - 1)
<1> DEFINE ends == InOrder(CommandEnds(l))
           N == Cardinality(CommandEnds(l))
           part == [n \in 1 .. N |->
                      Words(l, IF n = 1 THEN 1 ELSE ends[n - 1] + 1, ends[n] - 1)]
<1>1. Len(ends) = N /\ N \in Nat
  BY StartsOf, InOrderRank, FS_CardinalityType
<1>2. Chain(l) = part
  BY <1>1 DEF Chain
<1>3. part \in [1 .. N -> Seq(Seq(Letters))]
  <2>1. \A a, b : Words(l, a, b) \in Seq(Seq(Letters))
    BY WordsType
  <2> QED
    BY <2>1
<1>4. part \in Seq(Seq(Seq(Letters))) /\ Len(part) = N
  <2> HIDE DEF part, N
  <2> QED
    BY <1>1, <1>3, SeqDef
<1> QED
  BY <1>1, <1>2, <1>4

\* The command that ends at e is the one after those that ended before it.
LEMMA ScanEnd ==
  ASSUME NEW l \in Seq(Characters), NEW e \in CommandEnds(l), NEW start, NEW words,
         Scanned(l, start, e, words), NEW n, n = EndedBefore(l, start)
  PROVE  /\ n \in Nat /\ n + 1 \in 1 .. Len(Chain(l)) /\ Chain(l)[n + 1] = words
         /\ EndedBefore(l, e + 1) = n + 1
         /\ Scanned(l, e + 1, e + 1, << >>)
<1> DEFINE ends == CommandEnds(l)
           before == { d \in ends : d < start }
<1>1. ends \in SUBSET Nat /\ IsFiniteSet(ends) /\ e \in Nat \ {0}
      /\ start \in Nat \ {0} /\ start <= e
  BY StartsOf DEF Scanned
<1>2. IsFiniteSet(before) /\ n \in Nat /\ n = Cardinality(before)
  BY <1>1, FS_Subset, FS_CardinalityType DEF EndedBefore
<1>3. UpTo(ends, e) = before \cup {e} /\ e \notin before
  <2>1. \A d \in ends : d <= e => d < start \/ d = e
    <3>1. \A d \in ends : d \in Nat /\ d \notin start .. e - 1
      BY <1>1 DEF Scanned
    <3> QED
      BY <1>1, <3>1
  <2>2. \A d \in ends : d < start => d <= e
    BY <1>1
  <2> QED
    BY <1>1, <2>1, <2>2 DEF UpTo
<1>4. Cardinality(UpTo(ends, e)) = n + 1
  <2>1. Cardinality(before \cup {e}) = Cardinality(before) + 1
    BY <1>2, <1>3, FS_AddElement
  <2> QED
    BY <1>2, <1>3, <2>1
<1>5. n + 1 \in 1 .. Cardinality(ends) /\ InOrder(ends)[n + 1] = e
  BY <1>1, <1>4, Rank, InOrderAt
<1>6. EndedBefore(l, e + 1) = n + 1
  <2>1. { d \in ends : d < e + 1 } = UpTo(ends, e)
    <3>1. \A d \in ends : d < e + 1 <=> d <= e
      BY <1>1
    <3> QED
      BY <3>1 DEF UpTo
  <2> QED
    BY <1>4, <2>1 DEF EndedBefore
<1>7. (IF n + 1 = 1 THEN 1 ELSE InOrder(ends)[(n + 1) - 1] + 1) = start
  <2>1. CASE start = 1
    <3>1. before = {}
      BY <2>1, StartsOf
    <3> QED
      BY <1>2, <2>1, <3>1, FS_EmptySet
  <2>2. CASE start # 1
    <3>1. start - 1 \in ends /\ start - 1 \in before
      BY <1>1, <2>2 DEF Scanned
    <3>2. UpTo(ends, start - 1) = before
      <4>1. \A d \in ends : d < start <=> d <= start - 1
        BY <1>1
      <4> QED
        BY <4>1 DEF UpTo
    <3>3. InOrder(ends)[Cardinality(UpTo(ends, start - 1))] = start - 1
      BY <1>1, <3>1, InOrderAt
    <3>4. InOrder(ends)[n] = start - 1
      BY <1>2, <3>2, <3>3
    <3>5. n # 0
      BY <1>2, <3>1, FS_EmptySet
    <3> QED
      BY <1>1, <1>2, <3>4, <3>5
  <2> QED
    BY <2>1, <2>2
<1>8. Chain(l)[n + 1] = words
  BY <1>5, <1>7, ChainType DEF Scanned
<1>9. Words(l, e + 1, e) = << >>
  BY <1>1, NoWords
<1>10. ~IsLetter(l, e)
  <2>1. CharAt(l, e) \in {Semicolon, Newline, NUL}
    BY LineEndsAt DEF CommandEnds
  <2> QED
    BY <2>1, LineSyntaxAssumption DEF IsLetter
<1>11. Scanned(l, e + 1, e + 1, << >>)
  BY <1>1, <1>9, <1>10 DEF Scanned
<1> QED
  BY <1>2, <1>5, <1>6, <1>8, <1>11, ChainType

-----------------------------------------------------------------------------
(* The parsers read the line as LineSyntax does.                           *)

LEMMA StarterSyntax ==
  \A l, k : /\ Starter!CharAt(l, k) = CharAt(l, k) /\ Starter!IsLetter(l, k) = IsLetter(l, k)
            /\ Starter!SkipBlanks(l, k) = SkipBlanks(l, k)
            /\ Starter!WordEnd(l, k) = WordEnd(l, k) /\ Starter!WordAt(l, k) = WordAt(l, k)
<1>1. \A l, k : Starter!CharAt(l, k) = CharAt(l, k)
  BY DEF Starter!CharAt, CharAt
<1>2. \A l, k : Starter!IsLetter(l, k) = IsLetter(l, k)
  BY DEF Starter!CharAt, CharAt, Starter!IsLetter, IsLetter
<1>3. \A l, k : Starter!SkipBlanks(l, k) = SkipBlanks(l, k)
  BY DEF Starter!SkipBlanks, SkipBlanks, Starter!CharAt, CharAt
<1>4. \A l, k : Starter!WordEnd(l, k) = WordEnd(l, k)
  BY DEF Starter!WordEnd, WordEnd, Starter!CharAt, CharAt, Starter!IsLetter, IsLetter
<1>5. \A l, k : Starter!WordAt(l, k) = WordAt(l, k)
  BY <1>4 DEF Starter!WordAt, WordAt
<1> QED
  BY <1>1, <1>2, <1>3, <1>4, <1>5

LEMMA SolutionSyntax ==
  \A l, k : /\ Solution!CharAt(l, k) = CharAt(l, k) /\ Solution!IsLetter(l, k) = IsLetter(l, k)
            /\ Solution!SkipBlanks(l, k) = SkipBlanks(l, k)
            /\ Solution!WordEnd(l, k) = WordEnd(l, k) /\ Solution!WordAt(l, k) = WordAt(l, k)
<1>1. \A l, k : Solution!CharAt(l, k) = CharAt(l, k)
  BY DEF Solution!CharAt, CharAt
<1>2. \A l, k : Solution!IsLetter(l, k) = IsLetter(l, k)
  BY DEF Solution!CharAt, CharAt, Solution!IsLetter, IsLetter
<1>3. \A l, k : Solution!SkipBlanks(l, k) = SkipBlanks(l, k)
  BY DEF Solution!SkipBlanks, SkipBlanks, Solution!CharAt, CharAt
<1>4. \A l, k : Solution!WordEnd(l, k) = WordEnd(l, k)
  BY DEF Solution!WordEnd, WordEnd, Solution!CharAt, CharAt, Solution!IsLetter, IsLetter
<1>5. \A l, k : Solution!WordAt(l, k) = WordAt(l, k)
  BY <1>4 DEF Solution!WordAt, WordAt
<1> QED
  BY <1>1, <1>2, <1>3, <1>4, <1>5

\* What is left of a sequence after one more element.
LEMMA RestAfter ==
  ASSUME NEW X, NEW c \in Seq(X), NEW n \in Nat, n + 1 \in 1 .. Len(c)
  PROVE  /\ SubSeq(c, n + 1, Len(c)) # << >>
         /\ Head(SubSeq(c, n + 1, Len(c))) = c[n + 1]
         /\ Tail(SubSeq(c, n + 1, Len(c))) = SubSeq(c, (n + 1) + 1, Len(c))
<1>1. n + 1 \in 1 .. Len(c) /\ Len(c) \in n + 1 .. Len(c) /\ Len(c) \in Nat
  OBVIOUS
<1>2. Len(SubSeq(c, n + 1, Len(c))) > 0
  BY <1>1
<1>3. SubSeq(c, n + 1, Len(c)) # << >>
  BY <1>2
<1>4. /\ Head(SubSeq(c, n + 1, Len(c))) = c[n + 1]
      /\ Tail(SubSeq(c, n + 1, Len(c))) = SubSeq(c, (n + 1) + 1, Len(c))
  BY <1>1, HeadTailOfSubSeq
<1> QED
  BY <1>3, <1>4

-----------------------------------------------------------------------------
(* The reference shells' parser.                                           *)

Parsing ==
  /\ shell \in {"starter", "solution"} /\ line \in Lines /\ chain = Chain(line)
  /\ TypeOK

\* What has been read since the last call is the beginning of the next command
\* of the line.
SolutionReads ==
  shell = "solution" =>
    (~returned =>
       \E start \in Nat :
         /\ Scanned(line, start, ix, w) /\ EndedBefore(line, start) = Len(calls)
         /\ ix <= LineEnd(line) /\ (leftLoop => ix \in CommandEnds(line)))

\* An unfinished parser is at or before the end of its line.
LEMMA SolutionPosition ==
  ASSUME Parsing, SolutionReads, shell = "solution", ~returned
  PROVE  /\ line \in Seq(Characters) /\ ix \in 1 .. LineEnd(line) /\ ix \in Nat \ {0}
         /\ LineEnd(line) \in 1 .. Len(line) + 1 /\ Len(line) \in Nat
<1>1. line \in Seq(Characters)
  BY CommandLinesAssumption DEF Parsing, Characters
<1> QED
  BY <1>1, LineEndsAt, Buffer DEF Parsing, SolutionReads, TypeOK, Solution!ParserTypeOK

LEMMA SolutionTakes ==
  ASSUME Parsing, SolutionReads, shell = "solution", Solution!TakeWord,
         UNCHANGED <<chain, shell>>
  PROVE  Parsing' /\ SolutionReads' /\ UNCHANGED calls
<1>1. /\ ~returned /\ ~leftLoop /\ UNCHANGED <<line, leftLoop, calls, returned>>
      /\ IsLetter(line, SkipBlanks(line, ix))
      /\ w' = Append(w, WordAt(line, SkipBlanks(line, ix)))
      /\ ix' = WordEnd(line, SkipBlanks(line, ix)) + 1
  BY SolutionSyntax DEF Solution!TakeWord, Solution!InLoop
<1>2. PICK start \in Nat : /\ Scanned(line, start, ix, w)
                           /\ EndedBefore(line, start) = Len(calls)
  BY <1>1 DEF SolutionReads
<1>3. /\ line \in Seq(Characters) /\ ix \in 1 .. LineEnd(line)
      /\ LineEnd(line) \in 1 .. Len(line) + 1 /\ Len(line) \in Nat
  BY <1>1, SolutionPosition
<1>4. /\ Scanned(line, start, ix', w') /\ ix' \in 1 .. LineEnd(line)
      /\ WordAt(line, SkipBlanks(line, ix)) \in Seq(Letters)
  BY <1>1, <1>2, <1>3, ScanWord
<1>5. w' \in Seq(Seq(Letters))
  BY <1>1, <1>4 DEF Parsing, TypeOK, Solution!ParserTypeOK
<1>6. Parsing'
  BY <1>1, <1>3, <1>4, <1>5 DEF Parsing, TypeOK, Solution!ParserTypeOK
<1>7. SolutionReads'
  BY <1>1, <1>2, <1>3, <1>4 DEF SolutionReads
<1> QED
  BY <1>1, <1>6, <1>7

LEMMA SolutionLeaves ==
  ASSUME Parsing, SolutionReads, shell = "solution", Solution!LeaveLoop,
         UNCHANGED <<chain, shell>>
  PROVE  Parsing' /\ SolutionReads' /\ UNCHANGED calls
<1>1. /\ ~returned /\ leftLoop' = TRUE /\ UNCHANGED <<line, w, calls, returned>>
      /\ ~IsLetter(line, SkipBlanks(line, ix)) /\ ix' = SkipBlanks(line, ix)
  BY SolutionSyntax DEF Solution!LeaveLoop, Solution!InLoop
<1>2. PICK start \in Nat : /\ Scanned(line, start, ix, w)
                           /\ EndedBefore(line, start) = Len(calls)
  BY <1>1 DEF SolutionReads
<1>3. /\ line \in Seq(Characters) /\ ix \in 1 .. LineEnd(line) /\ ix \in Nat \ {0}
      /\ LineEnd(line) \in 1 .. Len(line) + 1 /\ Len(line) \in Nat
  BY <1>1, SolutionPosition
<1>4. /\ Scanned(line, start, ix', w) /\ ix' \in CommandEnds(line)
      /\ ix' \in ix .. LineEnd(line)
  BY <1>1, <1>2, <1>3, ScanBlanks
<1>5. ix' \in 1 .. Len(line) + 1 /\ ix' <= LineEnd(line)
  BY <1>3, <1>4
<1>6. Parsing'
  BY <1>1, <1>5 DEF Parsing, TypeOK, Solution!ParserTypeOK
<1>7. SolutionReads'
  BY <1>1, <1>2, <1>4, <1>5 DEF SolutionReads
<1> QED
  BY <1>1, <1>6, <1>7

\* The call is that of the next command of the line.
LEMMA SolutionCalls ==
  ASSUME Parsing, SolutionReads, shell = "solution", Solution!CallInterpreter,
         UNCHANGED <<chain, shell>>
  PROVE  /\ Parsing' /\ SolutionReads'
         /\ calls' = Append(calls, chain[Len(calls) + 1])
         /\ Len(calls) \in Nat /\ Len(calls) + 1 \in 1 .. Len(chain)
         /\ calls \in Seq(Seq(Seq(Letters))) /\ chain \in Seq(Seq(Seq(Letters)))
<1>1. /\ ~returned /\ (leftLoop \/ CharAt(line, ix) \in {Newline, NUL})
      /\ calls' = Append(calls, w) /\ UNCHANGED line
      /\ \/ /\ CharAt(line, ix) = Semicolon /\ ix' = ix + 1 /\ w' = << >>
            /\ leftLoop' = FALSE /\ UNCHANGED returned
         \/ returned' = TRUE /\ UNCHANGED <<ix, w, leftLoop>>
  BY SolutionSyntax DEF Solution!CallInterpreter, Solution!InLoop
<1>2. PICK start \in Nat : /\ Scanned(line, start, ix, w)
                           /\ EndedBefore(line, start) = Len(calls)
                           /\ leftLoop => ix \in CommandEnds(line)
  BY <1>1 DEF SolutionReads
<1>3. /\ line \in Seq(Characters) /\ ix \in 1 .. LineEnd(line) /\ ix \in Nat \ {0}
      /\ LineEnd(line) \in 1 .. Len(line) + 1 /\ Len(line) \in Nat
  BY <1>1, SolutionPosition
<1>4. /\ calls \in Seq(Seq(Seq(Letters))) /\ w \in Seq(Seq(Letters)) /\ chain = Chain(line)
      /\ leftLoop \in BOOLEAN /\ returned \in BOOLEAN /\ Len(calls) \in Nat
  BY DEF Parsing, TypeOK, Solution!ParserTypeOK, SolutionReads
<1>5. ix \in CommandEnds(line)
  <2>1. CASE CharAt(line, ix) \in {Newline, NUL}
    <3>1. ix \notin 1 .. LineEnd(line) - 1
      BY <1>3, <2>1, LineEndsAt
    <3>2. ix = LineEnd(line)
      BY <1>3, <3>1
    <3> QED
      BY <1>3, <3>2, StartsOf
  <2> QED
    BY <1>1, <1>2, <2>1
<1>6. PICK n \in Nat : n = Len(calls)
  BY <1>4
<1>7. /\ n + 1 \in 1 .. Len(chain) /\ chain[n + 1] = w
      /\ EndedBefore(line, ix + 1) = n + 1 /\ Scanned(line, ix + 1, ix + 1, << >>)
  BY <1>2, <1>3, <1>4, <1>5, <1>6, ScanEnd
<1>8. /\ calls' \in Seq(Seq(Seq(Letters))) /\ Len(calls') = n + 1
  BY <1>1, <1>4, <1>6
<1>9. CharAt(line, ix) = Semicolon => ix + 1 <= LineEnd(line)
  <2>1. CharAt(line, LineEnd(line)) # Semicolon
    BY <1>3, LineEndsAt, LineSyntaxAssumption
  <2> QED
    BY <1>3, <2>1
<1>10. Parsing'
  <2>1. ix' \in 1 .. Len(line) + 1
    BY <1>1, <1>3, <1>9
  <2>2. w' \in Seq(Seq(Letters))
    BY <1>1, <1>4, EmptySeq
  <2>3. leftLoop' \in BOOLEAN /\ returned' \in BOOLEAN
    BY <1>1, <1>4, Zenon
  <2> QED
    BY <1>1, <1>8, <2>1, <2>2, <2>3 DEF Parsing, TypeOK, Solution!ParserTypeOK
<1>11. SolutionReads'
  <2>1. ASSUME ~returned'
        PROVE  \E s \in Nat :
                 /\ Scanned(line', s, ix', w') /\ EndedBefore(line', s) = Len(calls')
                 /\ ix' <= LineEnd(line') /\ (leftLoop' => ix' \in CommandEnds(line'))
    <3>1. CharAt(line, ix) = Semicolon /\ ix' = ix + 1 /\ w' = << >> /\ leftLoop' = FALSE
      BY <1>1, <2>1
    <3>2. ix + 1 \in Nat
      BY <1>3
    <3> QED
      BY <1>1, <1>7, <1>8, <1>9, <3>1, <3>2
  <2> QED
    BY <2>1 DEF SolutionReads
<1>12. chain \in Seq(Seq(Seq(Letters)))
  BY <1>3, <1>4, ChainType
<1> QED
  BY <1>1, <1>4, <1>6, <1>7, <1>10, <1>11, <1>12

\* Each call takes the next command off the chain.
LEMMA SolutionCallExecutes ==
  ASSUME shell = "solution", UNCHANGED <<chain, shell>>,
         chain \in Seq(Seq(Seq(Letters))), calls \in Seq(Seq(Seq(Letters))),
         Len(calls) + 1 \in 1 .. Len(chain), calls' = Append(calls, chain[Len(calls) + 1])
  PROVE  SolutionChain!Execute
<1>1. PICK n \in Nat : n = Len(calls)
  OBVIOUS
<1>2. Len(calls') = n + 1
  BY <1>1
<1>3. /\ Of("solution", calls) = calls /\ Of("solution", calls)' = calls'
      /\ Of("solution", Rest(chain, calls)) = SubSeq(chain, n + 1, Len(chain))
      /\ Of("solution", Rest(chain, calls))' = SubSeq(chain, (n + 1) + 1, Len(chain))
  BY <1>1, <1>2 DEF Of, Rest
<1>4. /\ SubSeq(chain, n + 1, Len(chain)) # << >>
      /\ Head(SubSeq(chain, n + 1, Len(chain))) = chain[n + 1]
      /\ Tail(SubSeq(chain, n + 1, Len(chain))) = SubSeq(chain, (n + 1) + 1, Len(chain))
  BY <1>1, RestAfter
<1> QED
  BY <1>1, <1>3, <1>4 DEF SolutionChain!Execute

-----------------------------------------------------------------------------
(* The commands that have words.                                           *)

Kept(c) == { n \in DOMAIN c : ~IsBlankCommand(c[n]) }

KeptUpTo(c, n) == Cardinality({ k \in Kept(c) : k <= n })

LEMMA NotBlankType ==
  ASSUME NEW X, NEW c \in Seq(X)
  PROVE  /\ Kept(c) \in SUBSET Nat /\ IsFiniteSet(Kept(c)) /\ DOMAIN c = 1 .. Len(c)
         /\ NotBlank(c) \in Seq(X) /\ Len(NotBlank(c)) = Cardinality(Kept(c))
         /\ Cardinality(Kept(c)) \in Nat
         /\ \A m \in 1 .. Cardinality(Kept(c)) :
              /\ NotBlank(c)[m] = c[InOrder(Kept(c))[m]]
              /\ InOrder(Kept(c))[m] \in Kept(c)
<1>1. DOMAIN c = 1 .. Len(c) /\ Len(c) \in Nat /\ Kept(c) \in SUBSET (1 .. Len(c))
  BY DEF Kept
<1>2. Kept(c) \in SUBSET Nat /\ IsFiniteSet(Kept(c))
  <2>1. IsFiniteSet(1 .. Len(c))
    BY <1>1, FS_Interval
  <2>2. IsFiniteSet(Kept(c))
    BY <1>1, <2>1, FS_Subset
  <2>3. \A k \in 1 .. Len(c) : k \in Nat
    BY <1>1
  <2>4. Kept(c) \in SUBSET Nat
    BY <1>1, <2>3
  <2> QED
    BY <2>2, <2>4
<1>3. Cardinality(Kept(c)) \in Nat
  BY <1>2, FS_CardinalityType
<1>4. InOrder(Kept(c)) \in Seq(Kept(c)) /\ Len(InOrder(Kept(c))) = Cardinality(Kept(c))
  BY <1>2, InOrderRank
<1>5. \A m \in 1 .. Cardinality(Kept(c)) : InOrder(Kept(c))[m] \in Kept(c)
  BY <1>2, InOrderRank
<1>6. DOMAIN InOrder(Kept(c)) = 1 .. Cardinality(Kept(c))
  BY <1>4
<1>7. NotBlank(c) = [m \in 1 .. Cardinality(Kept(c)) |-> c[InOrder(Kept(c))[m]]]
  BY <1>6 DEF NotBlank, Kept
<1>8. \A k \in Kept(c) : c[k] \in X
  BY <1>1
<1>9. NotBlank(c) \in [1 .. Cardinality(Kept(c)) -> X]
  BY <1>5, <1>7, <1>8
<1>10. NotBlank(c) \in Seq(X) /\ Len(NotBlank(c)) = Cardinality(Kept(c))
  BY <1>3, <1>9, SeqDef
<1> QED
  BY <1>1, <1>2, <1>3, <1>5, <1>7, <1>10

LEMMA NotBlankAppend ==
  ASSUME NEW X, NEW c \in Seq(X), NEW x \in X
  PROVE  NotBlank(Append(c, x)) = IF x = << >> THEN NotBlank(c) ELSE Append(NotBlank(c), x)
<1> DEFINE d == Append(c, x)
           N == Cardinality(Kept(c))
<1>1. /\ d \in Seq(X) /\ Len(d) = Len(c) + 1 /\ Len(c) \in Nat /\ d[Len(c) + 1] = x
      /\ \A k \in 1 .. Len(c) : d[k] = c[k]
      /\ \A k \in 1 .. Len(d) : k \in 1 .. Len(c) \/ k = Len(c) + 1
      /\ \A k \in 1 .. Len(c) : k \in 1 .. Len(d) /\ k < Len(c) + 1
      /\ Len(c) + 1 \in 1 .. Len(d)
  OBVIOUS
<1> HIDE DEF d, N
<1>2. /\ N \in Nat /\ NotBlank(c) \in Seq(X) /\ Len(NotBlank(c)) = N
      /\ \A m \in 1 .. N : /\ NotBlank(c)[m] = c[InOrder(Kept(c))[m]]
                           /\ InOrder(Kept(c))[m] \in Kept(c)
      /\ Kept(c) \in SUBSET Nat /\ IsFiniteSet(Kept(c))
      /\ DOMAIN c = 1 .. Len(c)
  BY NotBlankType DEF N
<1>3. /\ NotBlank(d) \in Seq(X) /\ Len(NotBlank(d)) = Cardinality(Kept(d))
      /\ \A m \in 1 .. Cardinality(Kept(d)) : NotBlank(d)[m] = d[InOrder(Kept(d))[m]]
      /\ DOMAIN d = 1 .. Len(d)
  BY <1>1, NotBlankType
<1>4. \A k \in Kept(c) : k \in 1 .. Len(c)
  BY <1>2 DEF Kept
<1>5. CASE x = << >>
  <2>1. Kept(d) = Kept(c)
    BY <1>1, <1>2, <1>3, <1>5 DEF Kept, IsBlankCommand
  <2>2. \A m \in 1 .. N : NotBlank(d)[m] = NotBlank(c)[m]
    BY <1>1, <1>2, <1>3, <1>4, <2>1 DEF N
  <2> QED
    BY <1>2, <1>3, <1>5, <2>1, <2>2, SeqEqual DEF N, d
<1>6. CASE x # << >>
  <2>1. Kept(d) = Kept(c) \cup {Len(c) + 1} /\ Len(c) + 1 \notin Kept(c)
    <3>1. Len(c) + 1 \notin Kept(c) /\ Len(c) + 1 \in Kept(d)
      BY <1>1, <1>3, <1>4, <1>6 DEF Kept, IsBlankCommand
    <3>2. \A k \in Kept(c) : k \in Kept(d)
      BY <1>1, <1>2, <1>3 DEF Kept
    <3>3. \A k \in Kept(d) : k \in Kept(c) \/ k = Len(c) + 1
      BY <1>1, <1>2, <1>3 DEF Kept
    <3>4. \A k : k \in Kept(d) <=> k \in Kept(c) \/ k = Len(c) + 1
      BY <3>1, <3>2, <3>3, Zenon
    <3>5. ASSUME NEW A, NEW B, NEW p, \A k : k \in A <=> k \in B \/ k = p
          PROVE  A = B \cup {p}
      BY <3>5, Zenon
    <3> QED
      BY <3>1, <3>4, <3>5, Zenon
  <2>2. Cardinality(Kept(d)) = N + 1
    <3>1. PICK p : p = Len(c) + 1
      OBVIOUS
    <3>2. Cardinality(Kept(c) \cup {p}) = Cardinality(Kept(c)) + 1
      BY <1>2, <2>1, <3>1, FS_AddElement
    <3> QED
      BY <2>1, <3>1, <3>2 DEF N
  <2>3. InOrder(Kept(d)) = Append(InOrder(Kept(c)), Len(c) + 1)
    <3>1. PICK m \in Nat : m = Len(c) + 1
      BY <1>1
    <3>2. \A k \in Kept(c) : k < m
      BY <1>1, <1>4, <3>1
    <3>3. InOrder(Kept(c) \cup {m}) = Append(InOrder(Kept(c)), m)
      BY <1>2, <3>2, InOrderAppend
    <3> QED
      BY <2>1, <3>1, <3>3
  <2>4. InOrder(Kept(c)) \in Seq(Nat) /\ Len(InOrder(Kept(c))) = N
    <3>1. InOrder(Kept(c)) \in Seq(Kept(c)) /\ Len(InOrder(Kept(c))) = N
      BY <1>2, InOrderRank DEF N
    <3> QED
      BY <1>2, <3>1, SeqMonotonic
  <2>5. /\ InOrder(Kept(d))[N + 1] = Len(c) + 1
        /\ \A m \in 1 .. N : InOrder(Kept(d))[m] = InOrder(Kept(c))[m]
    BY <1>1, <1>2, <2>3, <2>4
  <2>6. /\ NotBlank(d)[N + 1] = x
        /\ \A m \in 1 .. N : NotBlank(d)[m] = NotBlank(c)[m]
    <3>1. NotBlank(d)[N + 1] = x
      BY <1>1, <1>2, <1>3, <2>2, <2>5
    <3>2. ASSUME NEW m \in 1 .. N PROVE NotBlank(d)[m] = NotBlank(c)[m]
      <4>1. m \in 1 .. N + 1
        BY <1>2
      <4>2. PICK k \in 1 .. Len(c) : k = InOrder(Kept(c))[m]
        BY <1>2, <1>4
      <4> QED
        BY <1>1, <1>2, <1>3, <2>2, <2>5, <4>1, <4>2
    <3> QED
      BY <3>1, <3>2
  <2>7. /\ Append(NotBlank(c), x) \in Seq(X) /\ Len(Append(NotBlank(c), x)) = N + 1
        /\ Append(NotBlank(c), x)[N + 1] = x
        /\ \A m \in 1 .. N : Append(NotBlank(c), x)[m] = NotBlank(c)[m]
    BY <1>2
  <2>8. \A m \in 1 .. N + 1 : NotBlank(d)[m] = Append(NotBlank(c), x)[m]
    <3>1. \A m \in 1 .. N + 1 : m \in 1 .. N \/ m = N + 1
      BY <1>2
    <3> QED
      BY <2>6, <2>7, <3>1
  <2> QED
    BY <1>3, <1>6, <2>2, <2>7, <2>8, SeqEqual DEF d
<1> QED
  BY <1>5, <1>6

\* The place of a command among those that have words.
LEMMA NotBlankAt ==
  ASSUME NEW X, NEW c \in Seq(X), NEW n \in Nat, n + 1 \in 1 .. Len(c)
  PROVE  /\ KeptUpTo(c, n) \in Nat
         /\ c[n + 1] = << >> => KeptUpTo(c, n + 1) = KeptUpTo(c, n)
         /\ c[n + 1] # << >> =>
              /\ KeptUpTo(c, n + 1) = KeptUpTo(c, n) + 1
              /\ KeptUpTo(c, n) + 1 \in 1 .. Len(NotBlank(c))
              /\ NotBlank(c)[KeptUpTo(c, n) + 1] = c[n + 1]
<1> DEFINE before == { k \in Kept(c) : k <= n }
<1>1. /\ Kept(c) \in SUBSET Nat /\ IsFiniteSet(Kept(c)) /\ DOMAIN c = 1 .. Len(c)
      /\ Len(NotBlank(c)) = Cardinality(Kept(c))
      /\ \A m \in 1 .. Cardinality(Kept(c)) : NotBlank(c)[m] = c[InOrder(Kept(c))[m]]
  BY NotBlankType
<1>2. IsFiniteSet(before) /\ Cardinality(before) \in Nat
  BY <1>1, FS_Subset, FS_CardinalityType
<1>3. \A k \in Kept(c) : k <= n + 1 <=> k <= n \/ k = n + 1
  BY <1>1
<1>4. CASE c[n + 1] = << >>
  <2>1. n + 1 \notin Kept(c)
    BY <1>4 DEF Kept, IsBlankCommand
  <2>2. { k \in Kept(c) : k <= n + 1 } = before
    BY <1>3, <2>1
  <2> QED
    BY <1>2, <1>4, <2>2 DEF KeptUpTo
<1>5. CASE c[n + 1] # << >>
  <2>1. n + 1 \in Kept(c) /\ n + 1 \notin before
    BY <1>1, <1>5 DEF Kept, IsBlankCommand
  <2>2. UpTo(Kept(c), n + 1) = before \cup {n + 1}
    BY <1>3, <2>1 DEF UpTo
  <2>3. Cardinality(before \cup {n + 1}) = Cardinality(before) + 1
    BY <1>2, <2>1, FS_AddElement
  <2>4. /\ KeptUpTo(c, n + 1) = Cardinality(UpTo(Kept(c), n + 1))
        /\ KeptUpTo(c, n) = Cardinality(before)
    BY DEF KeptUpTo, UpTo
  <2>5. Cardinality(UpTo(Kept(c), n + 1)) = KeptUpTo(c, n) + 1
    BY <2>2, <2>3, <2>4
  <2>6. /\ Cardinality(UpTo(Kept(c), n + 1)) \in 1 .. Cardinality(Kept(c))
        /\ InOrder(Kept(c))[Cardinality(UpTo(Kept(c), n + 1))] = n + 1
    BY <1>1, <2>1, Rank, InOrderAt
  <2>7. /\ KeptUpTo(c, n) + 1 \in 1 .. Cardinality(Kept(c))
        /\ InOrder(Kept(c))[KeptUpTo(c, n) + 1] = n + 1
    BY <2>5, <2>6
  <2>8. KeptUpTo(c, n) \in Nat
    BY <1>2, <2>4
  <2> QED
    BY <1>1, <1>5, <2>4, <2>5, <2>7, <2>8
<1> QED
  BY <1>4, <1>5

-----------------------------------------------------------------------------
(* The starter's parser.                                                   *)

\* What has been read since the last separator is the beginning of the next
\* command of the line, and the commands with words before it were called.
StarterReads ==
  shell = "starter" =>
    (~returned =>
       /\ Scanned(line, commandStart, ix, w)
       /\ ix <= LineEnd(line) \/ (ix = LineEnd(line) + 1 /\ commandStart = ix)
       /\ Len(NotBlank(calls)) = KeptUpTo(chain, EndedBefore(line, commandStart)))

LEMMA NewlineLast ==
  ASSUME NEW l \in Lines
  PROVE  /\ l \in Seq(Characters) /\ Len(l) \in Nat
         /\ LineEnd(l) \in 1 .. Len(l) + 1 /\ LineEnd(l) >= Len(l)
<1>1. l \in Seq(Characters) /\ \A k \in 1 .. Len(l) - 1 : l[k] # Newline
  BY CommandLinesAssumption DEF Characters
<1>2. /\ Len(l) \in Nat /\ LineEnd(l) \in 1 .. Len(l) + 1
      /\ CharAt(l, LineEnd(l)) \in {Newline, NUL}
  BY <1>1, LineEndsAt, Buffer
<1>3. CASE CharAt(l, LineEnd(l)) = NUL
  BY <1>1, <1>2, <1>3, Buffer
<1>4. CASE CharAt(l, LineEnd(l)) = Newline /\ LineEnd(l) < Len(l)
  <2>1. l[LineEnd(l)] = Newline /\ LineEnd(l) \in 1 .. Len(l) - 1
    BY <1>2, <1>4 DEF CharAt
  <2> QED
    BY <1>1, <2>1
<1> QED
  BY <1>1, <1>2, <1>3, <1>4

\* The loop does not go beyond the end of the line: the newline is the last
\* character.
LEMMA StarterPosition ==
  ASSUME Parsing, StarterReads, shell = "starter", ~returned
  PROVE  /\ line \in Seq(Characters) /\ Len(line) \in Nat /\ ix \in Nat \ {0}
         /\ LineEnd(line) \in 1 .. Len(line) + 1
         /\ ix <= LineEnd(line) \/ (ix = LineEnd(line) + 1 /\ commandStart = ix)
         /\ CharAt(line, ix) # NUL => ix \in 1 .. LineEnd(line)
         /\ Scanned(line, commandStart, ix, w) /\ commandStart \in 1 .. ix
         /\ w \in Seq(Seq(Letters)) /\ calls \in Seq(Seq(Seq(Letters)))
         /\ chain = Chain(line) /\ chain \in Seq(Seq(Seq(Letters)))
         /\ Len(NotBlank(calls)) = KeptUpTo(chain, EndedBefore(line, commandStart))
<1>1. line \in Seq(Characters) /\ \A k \in 1 .. Len(line) - 1 : line[k] # Newline
  BY CommandLinesAssumption DEF Parsing, Characters
<1>2. /\ Len(line) \in Nat /\ LineEnd(line) \in 1 .. Len(line) + 1
      /\ CharAt(line, LineEnd(line)) \in {Newline, NUL}
  BY <1>1, LineEndsAt, Buffer
<1>3. /\ ix \in Nat \ {0} /\ commandStart \in 1 .. ix
      /\ w \in Seq(Seq(Letters)) /\ calls \in Seq(Seq(Seq(Letters)))
  BY <1>2 DEF Parsing, TypeOK, Starter!ParserTypeOK
<1>4. LineEnd(line) >= Len(line)
  BY NewlineLast DEF Parsing
<1>5. ix <= LineEnd(line) \/ (ix = LineEnd(line) + 1 /\ commandStart = ix)
  BY DEF StarterReads
<1>6. CharAt(line, ix) # NUL => ix \in 1 .. LineEnd(line)
  <2>1. CharAt(line, ix) # NUL => ix <= Len(line)
    BY <1>1, <1>2, <1>3, Buffer
  <2> QED
    BY <1>2, <1>3, <1>4, <1>5, <2>1
<1>7. chain = Chain(line) /\ chain \in Seq(Seq(Seq(Letters)))
  BY <1>1, ChainType DEF Parsing
<1> QED
  BY <1>1, <1>2, <1>3, <1>5, <1>6, <1>7 DEF StarterReads

\* What a step calls: nothing, a blank command, or the next one with words.
Called ==
  \/ calls' = calls
  \/ calls' = Append(calls, << >>)
  \/ \E n \in Nat :
       /\ n + 1 \in 1 .. Len(chain) /\ chain[n + 1] # << >>
       /\ calls' = Append(calls, chain[n + 1])
       /\ Len(NotBlank(calls)) = KeptUpTo(chain, n)
       /\ Len(NotBlank(calls')) = Len(NotBlank(calls)) + 1

\* A command with words is called when it ends, and is the next such one.
LEMMA StarterCallExecutes ==
  ASSUME shell = "starter", UNCHANGED <<chain, shell>>,
         chain \in Seq(Seq(Seq(Letters))), calls \in Seq(Seq(Seq(Letters))),
         NEW n \in Nat, n + 1 \in 1 .. Len(chain),
         Len(NotBlank(calls)) = KeptUpTo(chain, n),
         NotBlank(calls') = IF chain[n + 1] = << >> THEN NotBlank(calls)
                            ELSE Append(NotBlank(calls), chain[n + 1])
  PROVE  /\ Len(NotBlank(calls')) = KeptUpTo(chain, n + 1)
         /\ [StarterChain!Execute]_(StarterChain!vars)
<1> DEFINE X == Seq(Seq(Letters))
           kept == NotBlank(chain)
           m == KeptUpTo(chain, n)
<1>1. /\ m \in Nat
      /\ chain[n + 1] = << >> => KeptUpTo(chain, n + 1) = m
      /\ chain[n + 1] # << >> =>
           /\ KeptUpTo(chain, n + 1) = m + 1
           /\ m + 1 \in 1 .. Len(kept)
           /\ kept[m + 1] = chain[n + 1]
  BY NotBlankAt
<1>2. NotBlank(chain) \in Seq(Seq(Seq(Letters))) /\ NotBlank(calls) \in Seq(Seq(Seq(Letters)))
  BY NotBlankType
<1>3. chain[n + 1] \in Seq(Seq(Letters))
  OBVIOUS
<1>4. /\ Of("starter", NotBlank(calls)) = NotBlank(calls)
      /\ Of("starter", NotBlank(calls))' = NotBlank(calls')
      /\ Of("starter", Rest(NotBlank(chain), NotBlank(calls)))
           = SubSeq(NotBlank(chain), Len(NotBlank(calls)) + 1, Len(NotBlank(chain)))
      /\ Of("starter", Rest(NotBlank(chain), NotBlank(calls)))'
           = SubSeq(NotBlank(chain), Len(NotBlank(calls')) + 1, Len(NotBlank(chain)))
  BY DEF Of, Rest
<1>5. CASE chain[n + 1] = << >>
  <2>1. NotBlank(calls') = NotBlank(calls)
    BY <1>5
  <2>2. Len(NotBlank(calls')) = KeptUpTo(chain, n + 1)
    BY <1>1, <1>5, <2>1
  <2>3. UNCHANGED StarterChain!vars
    BY <1>4, <2>1 DEF StarterChain!vars
  <2> QED
    BY <2>2, <2>3
<1>6. CASE chain[n + 1] # << >>
  <2>1. NotBlank(calls') = Append(NotBlank(calls), chain[n + 1])
    BY <1>6
  <2>2. Len(NotBlank(calls)) = m /\ Len(NotBlank(calls')) = m + 1
    BY <1>2, <1>3, <2>1
  <2>3. /\ SubSeq(kept, m + 1, Len(kept)) # << >>
        /\ Head(SubSeq(kept, m + 1, Len(kept))) = kept[m + 1]
        /\ Tail(SubSeq(kept, m + 1, Len(kept))) = SubSeq(kept, (m + 1) + 1, Len(kept))
    BY <1>1, <1>2, <1>6, RestAfter
  <2>4. StarterChain!Execute
    BY <1>1, <1>4, <1>6, <2>1, <2>2, <2>3 DEF StarterChain!Execute
  <2> QED
    BY <1>1, <1>6, <2>2, <2>4
<1> QED
  BY <1>5, <1>6

LEMMA StarterTakes ==
  ASSUME Parsing, StarterReads, shell = "starter", Starter!TakeWord,
         UNCHANGED <<chain, shell>>
  PROVE  Parsing' /\ StarterReads' /\ Called /\ UNCHANGED StarterChain!vars
<1>1. /\ ~returned /\ CharAt(line, ix) # NUL
      /\ UNCHANGED <<line, commandStart, calls, returned>>
      /\ IsLetter(line, SkipBlanks(line, ix))
      /\ w' = Append(w, WordAt(line, SkipBlanks(line, ix)))
      /\ ix' = WordEnd(line, SkipBlanks(line, ix)) + 1
  BY StarterSyntax DEF Starter!TakeWord, Starter!InLoop
<1>2. /\ line \in Seq(Characters) /\ Len(line) \in Nat /\ ix \in 1 .. LineEnd(line)
      /\ LineEnd(line) \in 1 .. Len(line) + 1 /\ Scanned(line, commandStart, ix, w)
      /\ w \in Seq(Seq(Letters)) /\ calls \in Seq(Seq(Seq(Letters)))
      /\ Len(NotBlank(calls)) = KeptUpTo(chain, EndedBefore(line, commandStart))
  BY <1>1, StarterPosition
<1>3. /\ Scanned(line, commandStart, ix', w') /\ ix' \in 1 .. LineEnd(line)
      /\ WordAt(line, SkipBlanks(line, ix)) \in Seq(Letters)
  BY <1>1, <1>2, ScanWord
<1>4. w' \in Seq(Seq(Letters)) /\ ix' \in 1 .. Len(line) + 2 /\ commandStart \in 1 .. ix'
  BY <1>1, <1>2, <1>3 DEF Scanned
<1>5. Parsing'
  BY <1>1, <1>4 DEF Parsing, TypeOK, Starter!ParserTypeOK
<1>6. StarterReads'
  <2>1. Scanned(line', commandStart', ix', w')
    BY <1>1, <1>3
  <2>2. Len(NotBlank(calls')) = KeptUpTo(chain', EndedBefore(line', commandStart'))
    BY <1>1, <1>2
  <2>3. ix' <= LineEnd(line)
    BY <1>2, <1>3
  <2> QED
    BY <1>1, <2>1, <2>2, <2>3 DEF StarterReads
<1> QED
  BY <1>1, <1>5, <1>6 DEF Called, StarterChain!vars, Of, Rest

LEMMA StarterEnds ==
  ASSUME Parsing, StarterReads, shell = "starter", Starter!EndCommand,
         UNCHANGED <<chain, shell>>
  PROVE  /\ Parsing' /\ StarterReads' /\ Called
         /\ [StarterChain!Execute]_(StarterChain!vars)
<1> DEFINE e == SkipBlanks(line, ix)
           n == EndedBefore(line, commandStart)
<1>1. /\ ~returned /\ CharAt(line, ix) # NUL /\ UNCHANGED <<line, returned>>
      /\ CharAt(line, e) \in {Semicolon, Newline, NUL}
      /\ calls' = IF e = commandStart THEN Append(calls, << >>)
                  ELSE IF w # << >> THEN Append(calls, w) ELSE calls
      /\ w' = << >> /\ ix' = e + 1 /\ commandStart' = e + 1
  BY StarterSyntax DEF Starter!EndCommand, Starter!InLoop
<1>2. /\ line \in Seq(Characters) /\ Len(line) \in Nat /\ ix \in 1 .. LineEnd(line)
      /\ LineEnd(line) \in 1 .. Len(line) + 1 /\ Scanned(line, commandStart, ix, w)
      /\ w \in Seq(Seq(Letters)) /\ calls \in Seq(Seq(Seq(Letters)))
      /\ chain = Chain(line) /\ chain \in Seq(Seq(Seq(Letters)))
      /\ Len(NotBlank(calls)) = KeptUpTo(chain, n)
  BY <1>1, StarterPosition
<1>3. ~IsLetter(line, e)
  BY <1>1, LineSyntaxAssumption DEF IsLetter
<1>4. /\ Scanned(line, commandStart, e, w) /\ e \in CommandEnds(line)
      /\ e \in ix .. LineEnd(line) /\ e \in Nat \ {0}
  BY <1>2, <1>3, ScanBlanks
<1>5. /\ n \in Nat /\ n + 1 \in 1 .. Len(chain) /\ chain[n + 1] = w
      /\ EndedBefore(line, e + 1) = n + 1
      /\ Scanned(line, e + 1, e + 1, << >>)
  BY <1>2, <1>4, ScanEnd
<1>6. e = commandStart => w = << >>
  <2>1. w = Words(line, commandStart, e - 1)
    BY <1>4 DEF Scanned
  <2>2. e - 1 \in Nat /\ e - 1 < e /\ e \in Nat
    BY <1>4
  <2> HIDE DEF e
  <2> QED
    BY <1>2, <2>1, <2>2, NoWords
<1> HIDE DEF e, n
<1>7. << >> \in Seq(Seq(Letters))
  BY EmptySeq
<1>8. /\ calls' \in Seq(Seq(Seq(Letters)))
      /\ NotBlank(calls') = IF w = << >> THEN NotBlank(calls) ELSE Append(NotBlank(calls), w)
  <2>1. CASE w = << >>
    <3>1. calls' = calls \/ calls' = Append(calls, << >>)
      BY <1>1, <2>1
    <3>2. NotBlank(Append(calls, << >>)) = NotBlank(calls)
      BY <1>2, <1>7, NotBlankAppend
    <3>3. Append(calls, << >>) \in Seq(Seq(Seq(Letters)))
      BY <1>2, <1>7
    <3> QED
      BY <1>2, <2>1, <3>1, <3>2, <3>3
  <2>2. CASE w # << >>
    <3>1. calls' = Append(calls, w)
      BY <1>1, <1>6, <2>2
    <3>2. NotBlank(Append(calls, w)) = Append(NotBlank(calls), w)
      BY <1>2, <2>2, NotBlankAppend
    <3> QED
      BY <1>2, <2>2, <3>1, <3>2
  <2> QED
    BY <2>1, <2>2
<1>9. /\ Len(NotBlank(calls')) = KeptUpTo(chain, n + 1)
      /\ [StarterChain!Execute]_(StarterChain!vars)
  BY <1>2, <1>5, <1>8, StarterCallExecutes
<1>10. /\ ix' \in 1 .. Len(line) + 2 /\ commandStart' \in 1 .. ix' /\ commandStart' = ix'
       /\ ix' <= LineEnd(line) \/ ix' = LineEnd(line) + 1
  <2>1. PICK p \in Nat : p = e /\ p >= 1 /\ p <= LineEnd(line)
    BY <1>2, <1>4
  <2>2. ix' = p + 1 /\ commandStart' = p + 1
    BY <1>1, <2>1
  <2> QED
    BY <1>2, <2>1, <2>2
<1>11. Parsing'
  BY <1>1, <1>7, <1>8, <1>10 DEF Parsing, TypeOK, Starter!ParserTypeOK
<1>12. StarterReads'
  BY <1>1, <1>5, <1>9, <1>10 DEF StarterReads
<1>13. Called
  <2>1. CASE w = << >>
    BY <1>1, <2>1 DEF Called
  <2>2. CASE w # << >>
    <3>1. calls' = Append(calls, w)
      BY <1>1, <1>6, <2>2
    <3>2. NotBlank(calls') = Append(NotBlank(calls), w)
      BY <1>8, <2>2
    <3>3. Len(NotBlank(calls')) = Len(NotBlank(calls)) + 1
      BY <1>2, <3>2, NotBlankType
    <3> QED
      BY <1>2, <1>5, <2>2, <3>1, <3>3 DEF Called
  <2> QED
    BY <2>1, <2>2
<1> QED
  BY <1>9, <1>11, <1>12, <1>13

LEMMA StarterReturns ==
  ASSUME Parsing, StarterReads, shell = "starter", Starter!Return,
         UNCHANGED <<chain, shell>>
  PROVE  /\ Parsing' /\ StarterReads' /\ Called
         /\ [StarterChain!Execute]_(StarterChain!vars)
<1> DEFINE n == EndedBefore(line, commandStart)
<1>1. /\ ~returned /\ CharAt(line, ix) = NUL /\ returned' = TRUE
      /\ UNCHANGED <<line, ix, w, commandStart>>
      /\ calls' = IF w # << >> THEN Append(calls, w)
                  ELSE IF commandStart < ix THEN Append(calls, << >>) ELSE calls
  BY StarterSyntax DEF Starter!Return, Starter!InLoop
<1>2. /\ line \in Seq(Characters) /\ Len(line) \in Nat /\ ix \in Nat \ {0}
      /\ LineEnd(line) \in 1 .. Len(line) + 1 /\ Scanned(line, commandStart, ix, w)
      /\ ix <= LineEnd(line) \/ (ix = LineEnd(line) + 1 /\ commandStart = ix)
      /\ w \in Seq(Seq(Letters)) /\ calls \in Seq(Seq(Seq(Letters)))
      /\ chain = Chain(line) /\ chain \in Seq(Seq(Seq(Letters)))
      /\ Len(NotBlank(calls)) = KeptUpTo(chain, n)
  BY <1>1, StarterPosition
<1>3. << >> \in Seq(Seq(Letters))
  BY EmptySeq
<1>4. calls' \in Seq(Seq(Seq(Letters)))
  BY <1>1, <1>2, <1>3
<1>5. Parsing'
  BY <1>1, <1>4 DEF Parsing, TypeOK, Starter!ParserTypeOK
<1>6. StarterReads'
  BY <1>1 DEF StarterReads
<1>7. CASE w = << >>
  <2>1. calls' = calls \/ calls' = Append(calls, << >>)
    BY <1>1, <1>7
  <2>2. NotBlank(Append(calls, << >>)) = NotBlank(calls)
    BY <1>2, <1>3, NotBlankAppend
  <2>3. NotBlank(calls') = NotBlank(calls)
    BY <2>1, <2>2
  <2>4. UNCHANGED StarterChain!vars
    BY <2>3 DEF StarterChain!vars, Of, Rest
  <2> QED
    BY <1>5, <1>6, <2>1, <2>4 DEF Called
<1>8. CASE w # << >>
  <2>1. ix <= LineEnd(line)
    <3>1. ASSUME commandStart = ix PROVE FALSE
      <4>1. w = Words(line, ix, ix - 1) /\ ix \in Nat /\ ix - 1 \in Nat /\ ix - 1 < ix
        BY <1>2, <3>1 DEF Scanned
      <4> QED
        BY <1>2, <1>8, <4>1, NoWords
    <3> QED
      BY <1>2, <3>1
  <2>2. ix = LineEnd(line)
    <3>1. ix \notin 1 .. LineEnd(line) - 1
      BY <1>1, <1>2, LineEndsAt
    <3> QED
      BY <1>2, <2>1, <3>1
  <2>3. ix \in CommandEnds(line)
    BY <1>2, <2>2, StartsOf
  <2>4. n \in Nat /\ n + 1 \in 1 .. Len(chain) /\ chain[n + 1] = w
    BY <1>2, <2>3, ScanEnd
  <2>5. calls' = Append(calls, w)
    BY <1>1, <1>8
  <2>6. NotBlank(calls') = Append(NotBlank(calls), w)
    BY <1>2, <1>8, <2>5, NotBlankAppend
  <2> HIDE DEF n
  <2>7. [StarterChain!Execute]_(StarterChain!vars)
    BY <1>2, <1>8, <2>4, <2>6, StarterCallExecutes
  <2>8. Len(NotBlank(calls')) = Len(NotBlank(calls)) + 1
    BY <1>2, <2>6, NotBlankType
  <2>9. Called
    BY <1>2, <1>8, <2>4, <2>5, <2>8 DEF Called
  <2> QED
    BY <1>5, <1>6, <2>7, <2>9
<1> QED
  BY <1>7, <1>8

-----------------------------------------------------------------------------
(* Every step.                                                             *)

IInv == Parsing /\ SolutionReads /\ StarterReads

\* The parsers begin at the start of the line, with nothing read.
THEOREM InitInvariant == Init => IInv
<1> SUFFICES ASSUME Init PROVE IInv
  OBVIOUS
<1>1. /\ shell \in {"starter", "solution"} /\ line \in Lines /\ chain = Chain(line)
      /\ ix = 1 /\ w = << >> /\ calls = << >> /\ returned = FALSE
      /\ commandStart = 1 /\ leftLoop = FALSE
  BY DEF Init, Starter!InitInput, Starter!InitParser, Solution!InitParser
<1>2. line \in Seq(Characters)
  BY <1>1, CommandLinesAssumption DEF Characters
<1>3. Scanned(line, 1, 1, << >>) /\ EndedBefore(line, 1) = 0 /\ 1 \in 1 .. LineEnd(line)
  BY <1>2, ScanFirst
<1>4. /\ << >> \in Seq(Seq(Letters)) /\ << >> \in Seq(Seq(Seq(Letters)))
      /\ Len(line) \in Nat
  BY <1>2, EmptySeq
<1>5. TypeOK
  <2>1. ix \in 1 .. Len(line) + 2 /\ ix \in 1 .. Len(line) + 1 /\ commandStart \in 1 .. ix
    BY <1>1, <1>4
  <2>2. returned \in BOOLEAN /\ leftLoop \in BOOLEAN
    BY <1>1
  <2>3. w \in Seq(Seq(Letters)) /\ calls \in Seq(Seq(Seq(Letters)))
    BY <1>1, <1>4
  <2> QED
    BY <2>1, <2>2, <2>3 DEF TypeOK, Starter!ParserTypeOK, Solution!ParserTypeOK
<1>6. 1 <= LineEnd(line)
  BY <1>2, <1>3, LineEndsAt
<1>7. SolutionReads
  <2>1. Len(calls) = 0
    BY <1>1
  <2> QED
    BY <1>1, <1>3, <1>6, <2>1 DEF SolutionReads
<1>8. StarterReads
  <2>1. Len(NotBlank(calls)) = 0
    <3>1. Kept(calls) = {}
      BY <1>1 DEF Kept
    <3>2. Len(NotBlank(calls)) = Cardinality(Kept(calls))
      BY <1>1, <1>4, NotBlankType
    <3> QED
      BY <3>1, <3>2, FS_EmptySet
  <2>2. KeptUpTo(chain, 0) = 0
    <3>1. chain \in Seq(Seq(Seq(Letters)))
      BY <1>1, <1>2, ChainType
    <3>2. \A k \in Kept(chain) : k \in 1 .. Len(chain)
      BY <3>1 DEF Kept
    <3>3. { k \in Kept(chain) : k <= 0 } = {}
      BY <3>1, <3>2
    <3> QED
      BY <3>3, FS_EmptySet DEF KeptUpTo
  <2> QED
    BY <1>1, <1>3, <1>6, <2>1, <2>2 DEF StarterReads
<1> QED
  BY <1>1, <1>5, <1>7, <1>8 DEF IInv, Parsing

\* A step of either parser keeps to the line, and gives the interpreter nothing
\* but the next command.
THEOREM NextInvariant ==
  IInv /\ [Next]_vars => /\ IInv'
                         /\ [StarterChain!Execute]_(StarterChain!vars)
                         /\ [SolutionChain!Execute]_(SolutionChain!vars)
<1> SUFFICES ASSUME IInv, [Next]_vars
             PROVE  /\ IInv'
                    /\ [StarterChain!Execute]_(StarterChain!vars)
                    /\ [SolutionChain!Execute]_(SolutionChain!vars)
  OBVIOUS
<1>1. Parsing /\ SolutionReads /\ StarterReads
  BY DEF IInv
<1>2. CASE shell = "starter" /\ Starter!NextInput /\ UNCHANGED <<chain, shell, leftLoop>>
  <2>1. /\ shell = "starter" /\ UNCHANGED <<chain, shell>> /\ shell' # "solution"
        /\ Starter!EndCommand \/ Starter!TakeWord \/ Starter!Return
    BY <1>2 DEF Starter!NextInput, Starter!parseInput
  <2>2. Parsing' /\ StarterReads' /\ [StarterChain!Execute]_(StarterChain!vars)
    BY <1>1, <2>1, StarterEnds, StarterTakes, StarterReturns
  <2>3. SolutionReads'
    BY <2>1 DEF SolutionReads
  <2>4. UNCHANGED SolutionChain!vars
    BY <2>1 DEF SolutionChain!vars, Of
  <2> QED
    BY <2>2, <2>3, <2>4 DEF IInv
<1>3. CASE /\ shell = "solution" /\ Solution!parseInput
           /\ UNCHANGED <<chain, shell, commandStart, background_mode, mt_mode, execs>>
  <2>1. /\ shell = "solution" /\ UNCHANGED <<chain, shell>> /\ shell' # "starter"
        /\ Solution!TakeWord \/ Solution!LeaveLoop \/ Solution!CallInterpreter
    BY <1>3 DEF Solution!parseInput
  <2>2. UNCHANGED StarterChain!vars
    BY <2>1 DEF StarterChain!vars, Of
  <2>3. StarterReads'
    BY <2>1 DEF StarterReads
  <2>4. CASE Solution!TakeWord \/ Solution!LeaveLoop
    <3>1. Parsing' /\ SolutionReads' /\ UNCHANGED calls
      BY <1>1, <2>1, <2>4, SolutionTakes, SolutionLeaves
    <3>2. UNCHANGED SolutionChain!vars
      BY <2>1, <3>1 DEF SolutionChain!vars, Of, Rest
    <3> QED
      BY <2>2, <2>3, <3>1, <3>2 DEF IInv
  <2>5. CASE Solution!CallInterpreter
    <3>1. /\ Parsing' /\ SolutionReads'
          /\ calls' = Append(calls, chain[Len(calls) + 1])
          /\ Len(calls) \in Nat /\ Len(calls) + 1 \in 1 .. Len(chain)
          /\ calls \in Seq(Seq(Seq(Letters))) /\ chain \in Seq(Seq(Seq(Letters)))
      BY <1>1, <2>1, <2>5, SolutionCalls
    <3>2. SolutionChain!Execute
      BY <2>1, <3>1, SolutionCallExecutes
    <3> QED
      BY <2>2, <2>3, <3>1, <3>2 DEF IInv
  <2> QED
    BY <2>1, <2>4, <2>5
<1>4. CASE UNCHANGED vars
  <2>1. UNCHANGED <<chain, shell, line, ix, w, calls, returned, commandStart, leftLoop>>
    BY <1>4 DEF vars
  <2>2. Parsing'
    BY <1>1, <2>1 DEF Parsing, TypeOK, Starter!ParserTypeOK, Solution!ParserTypeOK
  <2>3. SolutionReads' /\ StarterReads'
    BY <1>1, <2>1 DEF SolutionReads, StarterReads
  <2>4. UNCHANGED StarterChain!vars /\ UNCHANGED SolutionChain!vars
    BY <2>1 DEF StarterChain!vars, SolutionChain!vars, Of, Rest
  <2> QED
    BY <2>2, <2>3, <2>4 DEF IInv
<1> QED
  BY <1>2, <1>3, <1>4 DEF Next

\* Both parsers keep to their line.
THEOREM Invariant == Spec => []IInv
<1> QED
  BY InitInvariant, NextInvariant, PTL DEF Spec

\* The indices stay in the buffer and what is handed on is made of words, for
\* every line that fgets may return.
THEOREM TypeCorrect == Spec => []TypeOK
<1>1. IInv => TypeOK
  BY DEF IInv, Parsing
<1> QED
  BY <1>1, Invariant, PTL

\* The starter's parser hands over the commands of the line that have words,
\* each with its own words, in their order.
THEOREM StarterCallsInOrder == Spec => StarterExecutesChain
<1>1. Init => StarterChain!Init
  <2> SUFFICES ASSUME Init PROVE Of("starter", NotBlank(calls)) = << >>
    BY DEF StarterChain!Init
  <2>1. calls = << >>
    BY DEF Init, Starter!InitInput, Starter!InitParser
  <2>2. << >> \in Seq(Seq(Seq(Letters))) /\ Kept(calls) = {}
    BY <2>1, EmptySeq DEF Kept
  <2>3. NotBlank(calls) \in Seq(Seq(Seq(Letters))) /\ Len(NotBlank(calls)) = 0
    BY <2>1, <2>2, NotBlankType, FS_EmptySet
  <2>4. NotBlank(calls) = << >>
    BY <2>3, EmptySeq
  <2> QED
    BY <2>4 DEF Of
<1> QED
  BY <1>1, InitInvariant, NextInvariant, PTL DEF Spec, StarterExecutesChain, StarterChain!Spec

\* The reference shells' parser hands over every command of the line, the blank
\* ones too, in their order.
THEOREM SolutionCallsInOrder == Spec => SolutionExecutesChain
<1>1. Init => SolutionChain!Init
  BY DEF Init, Solution!InitParser, SolutionChain!Init, Of
<1> QED
  BY <1>1, InitInvariant, NextInvariant, PTL DEF Spec, SolutionExecutesChain, SolutionChain!Spec

-----------------------------------------------------------------------------
(* The arguments of exec.                                                  *)

\* The words exec knows are not taken for one another.
LEMMA KnownWords ==
  /\ <<exec>> \in Seq(Letters) /\ <<Hash>> \in Seq(Letters) /\ <<MT>> \in Seq(Letters)
  /\ <<Hash>> # <<MT>> /\ <<exec>> # <<MT>> /\ <<exec>> # <<Hash>>
  /\ \A p \in Policies : <<p>> \in Seq(Letters) /\ <<p>> # <<Hash>> /\ <<p>> # <<MT>>
BY CommandLinesAssumption

LEMMA Few ==
  ASSUME NEW S, NEW x \in S, NEW y \in S, NEW z \in S
  PROVE  /\ <<x>> \o << >> \o << >> = <<x>>
         /\ <<x>> \o << >> \o <<y>> = <<x, y>>
         /\ <<x>> \o <<y>> \o <<z>> = <<x, y, z>>
<1>1. <<x>> \in Seq(S) /\ <<x>> \o << >> = <<x>>
  OBVIOUS
<1>2. /\ <<x>> \o <<y>> \in Seq(S) /\ <<x, y>> \in Seq(S)
      /\ Len(<<x>> \o <<y>>) = 2 /\ Len(<<x, y>>) = 2
      /\ (<<x>> \o <<y>>)[1] = x /\ (<<x>> \o <<y>>)[2] = y
  OBVIOUS
<1>3. <<x>> \o <<y>> = <<x, y>>
  <2>1. \A i \in 1 .. 2 : i = 1 \/ i = 2
    OBVIOUS
  <2>2. \A i \in 1 .. 2 : (<<x>> \o <<y>>)[i] = <<x, y>>[i]
    BY <1>2, <2>1
  <2> QED
    BY <1>2, <2>2, SeqEqual
<1>4. /\ <<x, y>> \o <<z>> \in Seq(S) /\ <<x, y, z>> \in Seq(S)
      /\ Len(<<x, y>> \o <<z>>) = 3 /\ Len(<<x, y, z>>) = 3
      /\ (<<x, y>> \o <<z>>)[1] = x /\ (<<x, y>> \o <<z>>)[2] = y
      /\ (<<x, y>> \o <<z>>)[3] = z
  BY <1>2
<1>5. <<x, y>> \o <<z>> = <<x, y, z>>
  <2>1. \A i \in 1 .. 3 : i = 1 \/ i = 2 \/ i = 3
    OBVIOUS
  <2>2. \A i \in 1 .. 3 : (<<x, y>> \o <<z>>)[i] = <<x, y, z>>[i]
    BY <1>4, <2>1
  <2> QED
    BY <1>4, <2>2, SeqEqual
<1> QED
  BY <1>1, <1>3, <1>5

\* Reading them from the right finds them again.
ReadAs(args, programs, policy, background) ==
  /\ Starter!ExecArguments(args).programs = programs
  /\ Starter!ExecArguments(args).policy = <<<<policy>>>>
  /\ (\E n \in 1 .. Len(args) : args[n] = <<Hash>>) <=> background = TRUE
  /\ args[1] = <<exec>>

LEMMA ArgumentsRead ==
  ASSUME NEW args, NEW programs \in Seq(Seq(Letters)), NEW policy \in Policies,
         NEW background \in BOOLEAN, NEW mt \in BOOLEAN,
         Starter!WrittenAs(args, programs, policy, background, mt)
  PROVE  ReadAs(args, programs, policy, background)
<1> DEFINE N == Len(programs)
           L == N + 2 + (IF background THEN 1 ELSE 0)
<1>1. /\ N \in 1 .. 3 /\ args \in Seq(Seq(Letters))
      /\ Len(args) = L + (IF mt THEN 1 ELSE 0)
      /\ args[1] = <<exec>> /\ args[N + 2] = <<policy>>
      /\ \A n \in 1 .. N :
           args[n + 1] = programs[n] /\ programs[n] # <<Hash>> /\ programs[n] # <<MT>>
      /\ background => args[N + 3] = <<Hash>>
      /\ mt => args[Len(args)] = <<MT>>
  <2> DEFINE W == Seq(Letters)
             b == IF background THEN <<<<Hash>>>> ELSE << >>
             m == IF mt THEN <<<<MT>>>> ELSE << >>
             x == <<<<exec>>>> \o programs
             y == x \o <<<<policy>>>>
             z == y \o b
  <2>1. N \in 1 .. 3 /\ args = z \o m
        /\ \A n \in 1 .. N : programs[n] # <<Hash>> /\ programs[n] # <<MT>>
    BY DEF Starter!WrittenAs, Starter!Word
  <2>2. /\ b \in Seq(W) /\ Len(b) = (IF background THEN 1 ELSE 0)
        /\ background => b[1] = <<Hash>>
    BY KnownWords
  <2>3. /\ m \in Seq(W) /\ Len(m) = (IF mt THEN 1 ELSE 0)
        /\ mt => m[1] = <<MT>>
    BY KnownWords
  <2>4. /\ <<<<exec>>>> \in Seq(W) /\ Len(<<<<exec>>>>) = 1
        /\ <<<<policy>>>> \in Seq(W) /\ Len(<<<<policy>>>>) = 1
    BY KnownWords
  <2>5. /\ x \in Seq(W) /\ Len(x) = N + 1 /\ x[1] = <<exec>>
        /\ \A n \in 1 .. N : x[n + 1] = programs[n]
    BY <2>1, <2>4
  <2> HIDE DEF N, b, m, x
  <2>6. /\ y \in Seq(W) /\ Len(y) = N + 2 /\ y[N + 2] = <<policy>>
        /\ \A n \in 1 .. N + 1 : y[n] = x[n]
    BY <2>1, <2>4, <2>5
  <2> HIDE DEF y
  <2>7. /\ z \in Seq(W) /\ Len(z) = N + 2 + Len(b)
        /\ \A n \in 1 .. N + 2 : z[n] = y[n]
        /\ \A n \in 1 .. Len(b) : z[N + 2 + n] = b[n]
    <3>1. /\ y \o b \in Seq(W) /\ Len(y \o b) = Len(y) + Len(b)
          /\ \A n \in 1 .. Len(y) : (y \o b)[n] = y[n]
          /\ \A n \in 1 .. Len(b) : (y \o b)[Len(y) + n] = b[n]
      <4>1. y \in Seq(W) /\ b \in Seq(W)
        BY <2>2, <2>6
      <4> HIDE DEF W
      <4> QED
        BY <4>1
    <3> QED
      BY <2>6, <3>1
  <2> HIDE DEF z
  <2>8. /\ args \in Seq(W) /\ Len(args) = N + 2 + Len(b) + Len(m)
        /\ \A n \in 1 .. N + 2 + Len(b) : args[n] = z[n]
        /\ \A n \in 1 .. Len(m) : args[N + 2 + Len(b) + n] = m[n]
    <3>1. /\ z \o m \in Seq(W) /\ Len(z \o m) = Len(z) + Len(m)
          /\ \A n \in 1 .. Len(z) : (z \o m)[n] = z[n]
          /\ \A n \in 1 .. Len(m) : (z \o m)[Len(z) + n] = m[n]
      <4>1. z \in Seq(W) /\ m \in Seq(W)
        BY <2>3, <2>7
      <4> HIDE DEF W
      <4> QED
        BY <4>1
    <3> QED
      BY <2>1, <2>7, <3>1
  <2>9. \A n \in 1 .. N + 2 : args[n] = y[n]
    <3>1. Len(b) \in Nat
      BY <2>2
    <3>2. \A n \in 1 .. N + 2 : n \in 1 .. N + 2 + Len(b)
      BY <2>1, <3>1
    <3> QED
      BY <2>7, <2>8, <3>2
  <2>10. /\ args[1] = <<exec>> /\ args[N + 2] = <<policy>>
         /\ \A n \in 1 .. N : args[n + 1] = programs[n]
    <3>1. 1 \in 1 .. N + 1 /\ 1 \in 1 .. N + 2 /\ N + 2 \in 1 .. N + 2
      BY <2>1
    <3>2. \A n \in 1 .. N : n + 1 \in 1 .. N + 1 /\ n + 1 \in 1 .. N + 2
      BY <2>1
    <3> QED
      BY <2>5, <2>6, <2>9, <3>1, <3>2
  <2>11. ASSUME background PROVE args[N + 3] = <<Hash>>
    <3>1. Len(b) = 1 /\ b[1] = <<Hash>>
      BY <2>2, <2>11
    <3>2. z[N + 2 + 1] = b[1]
      BY <2>7, <3>1
    <3>3. N + 2 + 1 \in 1 .. N + 2 + Len(b) /\ N + 2 + 1 = N + 3
      BY <2>1, <3>1
    <3>4. args[N + 2 + 1] = z[N + 2 + 1]
      BY <2>8, <3>3
    <3> QED
      BY <3>1, <3>2, <3>3, <3>4
  <2>12. ASSUME mt PROVE args[Len(args)] = <<MT>>
    <3>1. Len(m) = 1 /\ m[1] = <<MT>>
      BY <2>3, <2>12
    <3> QED
      BY <2>2, <2>8, <3>1
  <2> QED
    BY <2>1, <2>2, <2>3, <2>8, <2>10, <2>11, <2>12 DEF N
<1> HIDE DEF N
<1>2. L \in {N + 2, N + 3} /\ (L = N + 3 <=> background) /\ Len(args) \in {L, L + 1}
  BY <1>1
<1>3. args[Len(args)] = <<MT>> <=> mt
  <2>1. ASSUME ~mt PROVE args[Len(args)] # <<MT>>
    BY <1>1, <2>1, KnownWords
  <2> QED
    BY <1>1, <2>1
<1>4. (IF args[Len(args)] = <<MT>> THEN Len(args) - 1 ELSE Len(args)) = L
  BY <1>1, <1>3
<1>5. (IF L >= 4 /\ args[L] = <<Hash>> THEN L - 1 ELSE L) = N + 2
  <2>1. CASE background
    BY <1>1, <1>2, <2>1
  <2>2. CASE ~background
    BY <1>1, <1>2, <2>2, KnownWords
  <2> QED
    BY <2>1, <2>2
<1>6. (\E n \in 1 .. Len(args) : args[n] = <<Hash>>) <=> background
  <2>1. ASSUME background PROVE \E n \in 1 .. Len(args) : args[n] = <<Hash>>
    <3>1. N + 3 \in 1 .. Len(args) /\ args[N + 3] = <<Hash>>
      BY <1>1, <2>1
    <3> QED
      BY <3>1
  <2>2. ASSUME ~background, NEW n \in 1 .. Len(args), args[n] = <<Hash>> PROVE FALSE
    <3>1. n = 1 \/ n - 1 \in 1 .. N \/ n = N + 2 \/ (mt /\ n = Len(args))
      BY <1>1, <2>2
    <3>2. ASSUME n - 1 \in 1 .. N PROVE args[n] # <<Hash>>
      <4>1. PICK k \in 1 .. N : k = n - 1
        BY <3>2
      <4>2. args[k + 1] # <<Hash>>
        <5>1. args[k + 1] = programs[k] /\ programs[k] # <<Hash>>
          BY <1>1, Zenon
        <5> QED
          BY <5>1
      <4>3. k + 1 = n
        <5>1. n \in Nat
          BY <1>1
        <5>2. k \in Nat /\ k = n - 1
          <6>1. N \in 1 .. 3
            BY <1>1
          <6> QED
            BY <4>1, <6>1
        <5> QED
          BY <5>1, <5>2
      <4> QED
        BY <4>2, <4>3
    <3> QED
      BY <1>1, <2>2, <3>1, <3>2, KnownWords
  <2> QED
    BY <2>1, <2>2
<1> HIDE DEF L
<1>7. /\ Starter!ExecArguments(args).policy = Starter!ArgumentAt(args, N + 2)
      /\ Starter!ExecArguments(args).programs =
           <<args[2]>> \o Starter!ArgumentAt(args, Starter!Left(Starter!Left(N + 2)))
                       \o Starter!ArgumentAt(args, Starter!Left(N + 2))
  BY <1>4, <1>5 DEF Starter!ExecArguments, Starter!Word
<1>8. Starter!ArgumentAt(args, N + 2) = <<<<policy>>>>
  BY <1>1 DEF Starter!ArgumentAt
<1>9. Starter!Left(N + 2) = N + 1 /\ Starter!Left(N + 1) = IF N + 1 >= 3 THEN N ELSE N + 1
  BY <1>1 DEF Starter!Left
<1>10. /\ programs[1] = args[2] /\ (N >= 2 => programs[2] = args[3])
       /\ (N >= 3 => programs[3] = args[4])
  <2>1. 1 \in 1 .. N /\ (N >= 2 => 2 \in 1 .. N) /\ (N >= 3 => 3 \in 1 .. N)
    BY <1>1
  <2> QED
    BY <1>1, <2>1
<1>11. Starter!ExecArguments(args).programs = programs
  <2>1. args[2] \in Seq(Letters) /\ (N >= 2 => args[3] \in Seq(Letters))
        /\ (N >= 3 => args[4] \in Seq(Letters))
    <3>1. Len(args) \in Nat /\ Len(args) >= N + 2 /\ N \in 1 .. 3
      BY <1>1, <1>2
    <3>2. /\ 2 \in 1 .. Len(args) /\ (N >= 2 => 3 \in 1 .. Len(args))
          /\ (N >= 3 => 4 \in 1 .. Len(args))
      BY <3>1
    <3>3. \A n \in 1 .. Len(args) : args[n] \in Seq(Letters)
      BY <1>1
    <3> QED
      BY <3>2, <3>3
  <2>2. CASE N = 1
    <3>1. /\ Starter!ArgumentAt(args, Starter!Left(N + 2)) = << >>
          /\ Starter!ArgumentAt(args, Starter!Left(Starter!Left(N + 2))) = << >>
      BY <1>9, <2>2 DEF Starter!ArgumentAt
    <3>2. programs = <<args[2]>>
      BY <1>10, <2>2 DEF N
    <3>3. <<args[2]>> \o << >> \o << >> = <<args[2]>>
      BY <2>1, Few
    <3> QED
      BY <1>7, <3>1, <3>2, <3>3
  <2>3. CASE N = 2
    <3>1. /\ Starter!ArgumentAt(args, Starter!Left(N + 2)) = <<args[3]>>
          /\ Starter!ArgumentAt(args, Starter!Left(Starter!Left(N + 2))) = << >>
      BY <1>9, <2>3 DEF Starter!ArgumentAt
    <3>2. programs = <<args[2], args[3]>>
      BY <1>10, <2>3 DEF N
    <3>3. <<args[2]>> \o << >> \o <<args[3]>> = <<args[2], args[3]>>
      <4>1. args[2] \in Seq(Letters) /\ args[3] \in Seq(Letters)
        BY <2>1, <2>3
      <4> QED
        BY <4>1, Few
    <3> QED
      BY <1>7, <3>1, <3>2, <3>3
  <2>4. CASE N = 3
    <3>1. /\ Starter!ArgumentAt(args, Starter!Left(N + 2)) = <<args[4]>>
          /\ Starter!ArgumentAt(args, Starter!Left(Starter!Left(N + 2))) = <<args[3]>>
      BY <1>9, <2>4 DEF Starter!ArgumentAt
    <3>2. programs = <<args[2], args[3], args[4]>>
      BY <1>10, <2>4 DEF N
    <3>3. <<args[2]>> \o <<args[3]>> \o <<args[4]>> = <<args[2], args[3], args[4]>>
      <4>1. /\ args[2] \in Seq(Letters) /\ args[3] \in Seq(Letters)
            /\ args[4] \in Seq(Letters)
        BY <2>1, <2>4
      <4> QED
        BY <4>1, Few
    <3> QED
      BY <1>7, <3>1, <3>2, <3>3
  <2> QED
    BY <1>1, <2>2, <2>3, <2>4
<1> QED
  BY <1>1, <1>6, <1>7, <1>8, <1>11, Zenon DEF ReadAs

-----------------------------------------------------------------------------
(* The calls of exec.                                                      *)

Execs == [args : Seq(Seq(Letters)), programs : Seq(Seq(Letters)),
          policy : Seq(Seq(Letters)), background : BOOLEAN, mt : BOOLEAN]

\* What exec gets depends on its words alone, but for the two modes.
Recorded(e) ==
  /\ e.programs = Starter!ExecArguments(e.args).programs
  /\ e.policy = Starter!ExecArguments(e.args).policy

AskedForMT(es, n) == \E m \in 1 .. n : Last(es[m].args) = <<MT>>

BackgroundLine(l) == Contains(l, exec) /\ Contains(l, Hash)

LEMMA ArgumentsType ==
  ASSUME NEW args \in Seq(Seq(Letters)), Len(args) >= 3
  PROVE  /\ Starter!ExecArguments(args).programs \in Seq(Seq(Letters))
         /\ Starter!ExecArguments(args).policy \in Seq(Seq(Letters))
         /\ Starter!ExecArguments(args).mt \in BOOLEAN
         /\ Starter!ExecArguments(args).mt = TRUE <=> Last(args) = <<MT>>
<1> DEFINE W == Seq(Letters)
           L == IF args[Len(args)] = <<MT>> THEN Len(args) - 1 ELSE Len(args)
           k == IF L >= 4 /\ args[L] = <<Hash>> THEN L - 1 ELSE L
<1>1. /\ k \in 2 .. Len(args) /\ Len(args) \in Nat
      /\ args \in Seq(W) /\ args[2] \in W
  <2>1. Len(args) \in Nat /\ args \in Seq(W) /\ args[2] \in W
    OBVIOUS
  <2>2. L \in 2 .. Len(args)
    BY <2>1
  <2> HIDE DEF L
  <2>3. L >= 4 => L - 1 \in 2 .. Len(args)
    BY <2>1, <2>2
  <2> QED
    BY <2>1, <2>2, <2>3
<1>2. /\ Starter!ExecArguments(args).policy = Starter!ArgumentAt(args, k)
      /\ Starter!ExecArguments(args).programs =
           <<args[2]>> \o Starter!ArgumentAt(args, Starter!Left(Starter!Left(k)))
                       \o Starter!ArgumentAt(args, Starter!Left(k))
      /\ Starter!ExecArguments(args).mt = (args[Len(args)] = <<MT>>)
  BY DEF Starter!ExecArguments, Starter!Word
<1> HIDE DEF k, W
<1>3. ASSUME NEW j \in 2 .. Len(args)
      PROVE  Starter!ArgumentAt(args, j) \in Seq(W) /\ Starter!Left(j) \in 2 .. Len(args)
  BY <1>1 DEF Starter!ArgumentAt, Starter!Left
<1>4. /\ Starter!ArgumentAt(args, k) \in Seq(W)
      /\ Starter!ArgumentAt(args, Starter!Left(k)) \in Seq(W)
      /\ Starter!ArgumentAt(args, Starter!Left(Starter!Left(k))) \in Seq(W)
  BY <1>1, <1>3
<1>5. <<args[2]>> \in Seq(W)
  BY <1>1
<1>6. Starter!ExecArguments(args).programs \in Seq(W)
  BY <1>2, <1>4, <1>5
<1>7. Starter!ExecArguments(args).policy \in Seq(W)
  BY <1>2, <1>4
<1>8. /\ Starter!ExecArguments(args).mt \in BOOLEAN
      /\ Starter!ExecArguments(args).mt = TRUE <=> Last(args) = <<MT>>
  BY <1>2 DEF Last
<1> QED
  BY <1>6, <1>7, <1>8 DEF W

\* A call of interpreter is a call of exec or leaves the modes alone.
LEMMA Interpreted ==
  ASSUME NEW args \in Seq(Seq(Letters)), Starter!interpreter(args),
         mt_mode \in BOOLEAN, background_mode \in BOOLEAN
  PROVE  \/ UNCHANGED <<execs, mt_mode, background_mode>>
         \/ /\ args # << >>
            /\ mt_mode' \in BOOLEAN /\ background_mode' \in BOOLEAN
            /\ mt_mode' = TRUE <=> mt_mode = TRUE \/ Last(args) = <<MT>>
            /\ \E e \in Execs :
                 /\ execs' = Append(execs, e) /\ e.args = args /\ Recorded(e)
                 /\ e.background = background_mode /\ e.mt = mt_mode'
<1>1. CASE UNCHANGED Starter!inputVars
  BY <1>1 DEF Starter!inputVars
<1>2. CASE Len(args) \in 3 .. Starter!MAX_ARGS_SIZE /\ ~UNCHANGED Starter!inputVars
  <2> DEFINE a == Starter!ExecArguments(args)
             e == [args |-> args, programs |-> a.programs, policy |-> a.policy,
                   background |-> background_mode, mt |-> mt_mode']
  <2>1. /\ mt_mode' = (mt_mode \/ a.mt) /\ execs' = Append(execs, e)
        /\ \E b \in BOOLEAN : background_mode' = b
    BY <1>2 DEF Starter!interpreter
  <2>2. Len(args) >= 3 /\ args # << >>
    <3>1. Len(args) >= 3
      <4>1. Len(args) \in 3 .. 7
        BY <1>2 DEF Starter!MAX_ARGS_SIZE
      <4>2. \A k \in 3 .. 7 : k >= 3
        OBVIOUS
      <4> QED
        BY <4>1, <4>2
    <3>2. Len(<< >>) = 0
      OBVIOUS
    <3> QED
      BY <3>1, <3>2
  <2>3. /\ a.programs \in Seq(Seq(Letters)) /\ a.policy \in Seq(Seq(Letters))
        /\ a.mt \in BOOLEAN /\ (a.mt = TRUE <=> Last(args) = <<MT>>)
    BY <2>2, ArgumentsType
  <2> HIDE DEF a
  <2>4. mt_mode' \in BOOLEAN /\ (mt_mode' = TRUE <=> mt_mode = TRUE \/ a.mt = TRUE)
    BY <2>1, <2>3, Zenon
  <2>5. e \in Execs
    BY <2>3, <2>4 DEF Execs
  <2>6. Recorded(e) /\ e.args = args /\ e.background = background_mode /\ e.mt = mt_mode'
    BY DEF Recorded, a
  <2>7. background_mode' \in BOOLEAN
    BY <2>1
  <2> HIDE DEF e
  <2> QED
    BY <2>1, <2>2, <2>3, <2>4, <2>5, <2>6, <2>7
<1> QED
  BY <1>1, <1>2 DEF Starter!interpreter

\* The execs so far are recorded; mt_mode is on for good after an MT; and of a
\* line with one command there is at most one exec, which has the background
\* mode main has set.
ExecsRecorded ==
  /\ shell # "starter" => execs = << >>
  /\ shell = "starter" =>
       /\ execs \in Seq(Execs) /\ mt_mode \in BOOLEAN /\ background_mode \in BOOLEAN
       /\ mt_mode = TRUE <=> AskedForMT(execs, Len(execs))
       /\ \A n \in 1 .. Len(execs) :
            Recorded(execs[n]) /\ (execs[n].mt = TRUE <=> AskedForMT(execs, n))
       /\ Len(chain) = 1 =>
            /\ execs = << >> => background_mode = BackgroundLine(line)
            /\ execs # << >> => Len(NotBlank(calls)) > 0
            /\ \A n \in 1 .. Len(execs) :
                 execs[n].args = chain[1] /\ execs[n].background = BackgroundLine(line)

\* Of a chain of one command the first one with words is the command.
LEMMA OnlyCommand ==
  ASSUME chain \in Seq(Seq(Seq(Letters))), Len(chain) = 1,
         NEW n \in Nat, n + 1 \in 1 .. Len(chain)
  PROVE  n = 0 /\ KeptUpTo(chain, n) = 0
<1>1. n = 0
  OBVIOUS
<1>2. \A k \in Kept(chain) : k \in 1 .. Len(chain)
  BY DEF Kept
<1>3. { k \in Kept(chain) : k <= 0 } = {}
  BY <1>2
<1> QED
  BY <1>1, <1>3, FS_EmptySet DEF KeptUpTo

\* One more exec.
LEMMA ExecsNext ==
  ASSUME Parsing, ExecsRecorded, shell = "starter", UNCHANGED <<chain, shell, line>>,
         calls \in Seq(Seq(Seq(Letters))), chain \in Seq(Seq(Seq(Letters))), Called,
         IF calls' # calls THEN Starter!interpreter(Last(calls'))
         ELSE UNCHANGED Starter!inputVars
  PROVE  ExecsRecorded'
<1>1. /\ execs \in Seq(Execs) /\ mt_mode \in BOOLEAN /\ background_mode \in BOOLEAN
      /\ mt_mode = TRUE <=> AskedForMT(execs, Len(execs))
      /\ \A n \in 1 .. Len(execs) :
           Recorded(execs[n]) /\ (execs[n].mt = TRUE <=> AskedForMT(execs, n))
      /\ Len(chain) = 1 =>
           /\ execs = << >> => background_mode = BackgroundLine(line)
           /\ execs # << >> => Len(NotBlank(calls)) > 0
           /\ \A n \in 1 .. Len(execs) :
                execs[n].args = chain[1] /\ execs[n].background = BackgroundLine(line)
  BY DEF ExecsRecorded
<1>2. << >> \in Seq(Seq(Letters)) /\ Len(NotBlank(calls)) \in Nat
  BY EmptySeq, NotBlankType
<1>3. Len(NotBlank(calls')) >= Len(NotBlank(calls))
  <2>1. NotBlank(Append(calls, << >>)) = NotBlank(calls)
    BY <1>2, NotBlankAppend
  <2>2. CASE calls' = calls \/ calls' = Append(calls, << >>)
    <3>1. NotBlank(calls') = NotBlank(calls)
      BY <2>1, <2>2
    <3> QED
      BY <1>2, <3>1
  <2>3. CASE Len(NotBlank(calls')) = Len(NotBlank(calls)) + 1
    BY <1>2, <2>3
  <2> QED
    BY <2>2, <2>3 DEF Called
<1>4. ASSUME UNCHANGED <<execs, mt_mode, background_mode>> PROVE ExecsRecorded'
  <2>1. Len(NotBlank(calls)) > 0 => Len(NotBlank(calls')) > 0
    BY <1>2, <1>3
  <2> QED
    BY <1>1, <1>4, <2>1 DEF ExecsRecorded, Recorded, AskedForMT
<1>5. ASSUME NEW args \in Seq(Seq(Letters)), args # << >>, calls' = Append(calls, args),
             mt_mode' \in BOOLEAN, background_mode' \in BOOLEAN,
             mt_mode' = TRUE <=> mt_mode = TRUE \/ Last(args) = <<MT>>,
             NEW e \in Execs, execs' = Append(execs, e), e.args = args, Recorded(e),
             e.background = background_mode, e.mt = mt_mode'
      PROVE  ExecsRecorded'
  <2> DEFINE N == Len(execs)
  <2>1. /\ N \in Nat /\ execs' \in Seq(Execs) /\ Len(execs') = N + 1
        /\ execs'[N + 1] = e /\ execs' # << >>
        /\ \A n \in 1 .. N : execs'[n] = execs[n]
        /\ \A n \in 1 .. N + 1 : n \in 1 .. N \/ n = N + 1
    <3>1. /\ N \in Nat /\ Append(execs, e) \in Seq(Execs) /\ Len(Append(execs, e)) = N + 1
          /\ Append(execs, e)[N + 1] = e
          /\ \A n \in 1 .. N : Append(execs, e)[n] = execs[n]
      BY <1>1
    <3>2. \A n \in 1 .. N + 1 : n \in 1 .. N \/ n = N + 1
      BY <3>1
    <3>3. execs' = << >> => Len(execs') = 0
      OBVIOUS
    <3> HIDE DEF N
    <3> QED
      BY <1>5, <3>1, <3>2, <3>3
  <2> HIDE DEF N
  <2>2. ASSUME NEW n \in 1 .. N PROVE AskedForMT(execs', n) <=> AskedForMT(execs, n)
    <3>1. \A m \in 1 .. n : m \in 1 .. N
      BY <2>1
    <3>2. \A m \in 1 .. n : execs'[m] = execs[m]
      BY <2>1, <3>1
    <3> QED
      BY <3>2 DEF AskedForMT
  <2>3. AskedForMT(execs', N + 1) <=> AskedForMT(execs, N) \/ Last(args) = <<MT>>
    <3>1. \A m \in 1 .. N : m \in 1 .. N + 1
      BY <2>1
    <3>2. N + 1 \in 1 .. N + 1
      BY <2>1
    <3> QED
      BY <1>5, <2>1, <3>1, <3>2 DEF AskedForMT
  <2>4. mt_mode' = TRUE <=> AskedForMT(execs', N + 1)
    BY <1>1, <1>5, <2>3 DEF N
  <2>5. \A n \in 1 .. N + 1 :
          Recorded(execs'[n]) /\ (execs'[n].mt = TRUE <=> AskedForMT(execs', n))
    <3>1. ASSUME NEW n \in 1 .. N
          PROVE  Recorded(execs'[n]) /\ (execs'[n].mt = TRUE <=> AskedForMT(execs', n))
      BY <1>1, <2>1, <2>2 DEF N
    <3>2. Recorded(execs'[N + 1]) /\ (execs'[N + 1].mt = TRUE <=> AskedForMT(execs', N + 1))
      BY <1>5, <2>1, <2>4
    <3> QED
      BY <2>1, <3>1, <3>2
  <2>6. PICK n \in Nat : /\ n + 1 \in 1 .. Len(chain)
                         /\ calls' = Append(calls, chain[n + 1])
                         /\ Len(NotBlank(calls)) = KeptUpTo(chain, n)
                         /\ Len(NotBlank(calls')) = Len(NotBlank(calls)) + 1
    <3>1. calls' # calls /\ calls' # Append(calls, << >>)
      BY <1>2, <1>5
    <3> QED
      BY <3>1 DEF Called
  <2>7. args = chain[n + 1]
    <3>1. Append(calls, args)[Len(calls) + 1] = args
      BY <1>5
    <3>2. Append(calls, chain[n + 1])[Len(calls) + 1] = chain[n + 1]
      BY <2>6
    <3> QED
      BY <1>5, <2>6, <3>1, <3>2
  <2>8. ASSUME Len(chain) = 1
        PROVE  /\ Len(NotBlank(calls')) > 0
               /\ \A k \in 1 .. N + 1 : /\ execs'[k].args = chain[1]
                                        /\ execs'[k].background = BackgroundLine(line)
    <3>1. n = 0 /\ KeptUpTo(chain, n) = 0
      BY <2>6, <2>8, OnlyCommand
    <3>2. Len(NotBlank(calls)) = 0 /\ Len(NotBlank(calls')) = 1
      BY <1>2, <2>6, <3>1
    <3>3. execs = << >> /\ background_mode = BackgroundLine(line)
      BY <1>1, <2>8, <3>2
    <3>4. N = 0
      BY <3>3 DEF N
    <3>5. e.args = chain[1] /\ e.background = BackgroundLine(line)
      BY <1>5, <2>7, <3>1, <3>3
    <3> QED
      BY <2>1, <3>2, <3>4, <3>5
  <2> QED
    BY <1>5, <2>1, <2>4, <2>5, <2>8 DEF ExecsRecorded, Recorded, AskedForMT
<1>6. CASE calls' = calls
  BY <1>4, <1>6 DEF Starter!inputVars
<1>7. CASE calls' # calls
  <2>1. PICK args \in Seq(Seq(Letters)) : calls' = Append(calls, args)
    <3>1. \A n \in 1 .. Len(chain) : chain[n] \in Seq(Seq(Letters))
      OBVIOUS
    <3> QED
      BY <1>2, <1>7, <3>1 DEF Called
  <2>2. Last(calls') = args
    BY <2>1 DEF Last
  <2>3. Starter!interpreter(args)
    BY <1>7, <2>2
  <2> QED
    BY <1>1, <1>4, <1>5, <2>1, <2>3, Interpreted
<1> QED
  BY <1>6, <1>7

\* The words of a chain of one command are those of its line.
LEMMA OnlyChain ==
  ASSUME NEW l \in Seq(Characters), Len(Chain(l)) = 1
  PROVE  Chain(l)[1] = Words(l, 1, LineEnd(l) - 1)
<1> DEFINE S == CommandEnds(l)
<1>1. /\ S \in SUBSET Nat /\ IsFiniteSet(S) /\ LineEnd(l) \in S
      /\ Cardinality(S) = 1
  BY StartsOf, ChainType
<1>2. InOrder(S)[1] = LineEnd(l)
  <2> HIDE DEF S
  <2>1. Cardinality(UpTo(S, LineEnd(l))) = 1
    <3>1. Cardinality(UpTo(S, LineEnd(l))) \in 1 .. Cardinality(S)
      BY <1>1, Rank
    <3> QED
      BY <1>1, <3>1
  <2> QED
    BY <1>1, <2>1, InOrderAt
<1>3. Chain(l)[1] = Words(l, 1, InOrder(S)[1] - 1)
  BY ChainType
<1> QED
  BY <1>2, <1>3

\* A word of one letter has its letter in the line.
LEMMA LetterOfWord ==
  ASSUME NEW l \in Seq(Characters), NEW a, NEW b, NEW x,
         NEW n \in 1 .. Len(Words(l, a, b)), Words(l, a, b)[n] = <<x>>
  PROVE  Contains(l, x)
<1> DEFINE S == WordStarts(l) \cap a .. b
<1>1. S \in SUBSET Nat /\ IsFiniteSet(S) /\ S \in SUBSET WordStarts(l)
  BY StartsOf, FS_Subset
<1>2. n \in 1 .. Cardinality(S) /\ Words(l, a, b)[n] = WordAt(l, InOrder(S)[n])
  <2>1. /\ Len(Words(l, a, b)) = Cardinality(S)
        /\ \A m \in 1 .. Cardinality(S) : Words(l, a, b)[m] = WordAt(l, InOrder(S)[m])
    BY WordsType
  <2> HIDE DEF S
  <2> QED
    BY <2>1
<1> HIDE DEF S
<1>3. PICK s \in WordStarts(l) : s = InOrder(S)[n]
  BY <1>1, <1>2, InOrderRank
<1>4. s \in Nat \ {0} /\ IsLetter(l, s) /\ s \in 1 .. Len(l) /\ Len(l) \in Nat
  BY <1>3, StartsOf, Buffer DEF WordStarts
<1>5. PICK e \in s .. Len(l) : e = WordEnd(l, s)
  BY <1>4, WordEndsAt
<1>6. SubSeq(l, s, e)[1] = l[s]
  BY <1>4, <1>5
<1>7. SubSeq(l, s, e) = <<x>>
  BY <1>2, <1>3, <1>5 DEF WordAt
<1> QED
  BY <1>4, <1>6, <1>7 DEF Contains

\* A letter that stands alone is a word.
LEMMA WordOfLetter ==
  ASSUME NEW l \in Lines, NEW k \in 1 .. Len(l), l[k] \in Letters,
         ~IsLetter(l, k + 1), k > 1 => ~IsLetter(l, k - 1)
  PROVE  \E n \in 1 .. Len(Words(l, 1, LineEnd(l) - 1)) :
           Words(l, 1, LineEnd(l) - 1)[n] = <<l[k]>>
<1> DEFINE b == LineEnd(l) - 1
           S == WordStarts(l) \cap 1 .. b
<1>1. l \in Seq(Characters) /\ Len(l) \in Nat /\ LineEnd(l) \in Len(l) .. Len(l) + 1
  BY NewlineLast
<1>2. IsLetter(l, k) /\ k \in WordStarts(l)
  BY <1>1 DEF IsLetter, CharAt, WordStarts
<1>3. k # LineEnd(l)
  <2>1. CharAt(l, LineEnd(l)) \in {Newline, NUL}
    BY <1>1, LineEndsAt
  <2> QED
    BY <1>2, <2>1, LineSyntaxAssumption DEF IsLetter
<1>4. k \in S
  BY <1>1, <1>2, <1>3
<1>5. WordAt(l, k) = <<l[k]>>
  <2>1. WordEnd(l, k) \in k .. Len(l) /\ \A m \in k .. WordEnd(l, k) : IsLetter(l, m)
    BY <1>1, <1>2, WordEndsAt
  <2>2. WordEnd(l, k) = k
    <3>1. WordEnd(l, k) > k => k + 1 \in k .. WordEnd(l, k)
      BY <2>1
    <3> QED
      BY <2>1, <3>1
  <2>3. SubSeq(l, k, k) \in Seq(Characters) /\ Len(SubSeq(l, k, k)) = 1
        /\ SubSeq(l, k, k)[1] = l[k]
    BY <1>1
  <2>4. l[k] \in Characters
    BY <1>1
  <2>5. SubSeq(l, k, k) = <<l[k]>>
    <3>1. /\ <<l[k]>> \in Seq(Characters) /\ Len(<<l[k]>>) = 1
          /\ \A i \in 1 .. 1 : SubSeq(l, k, k)[i] = <<l[k]>>[i]
      BY <2>3, <2>4
    <3> QED
      BY <2>3, <3>1, SeqEqual
  <2> QED
    BY <2>2, <2>5 DEF WordAt
<1>6. S \in SUBSET Nat /\ IsFiniteSet(S)
  BY <1>1, StartsOf, FS_Subset
<1>7. /\ Len(Words(l, 1, b)) = Cardinality(S)
      /\ \A n \in 1 .. Cardinality(S) : Words(l, 1, b)[n] = WordAt(l, InOrder(S)[n])
  <2>1. ASSUME NEW a, NEW c
        PROVE  /\ Len(Words(l, a, c)) = Cardinality(WordStarts(l) \cap a .. c)
               /\ \A n \in 1 .. Cardinality(WordStarts(l) \cap a .. c) :
                    Words(l, a, c)[n] = WordAt(l, InOrder(WordStarts(l) \cap a .. c)[n])
    <3>1. l \in Seq(Characters)
      BY <1>1
    <3> QED
      BY <3>1, WordsType, Zenon
  <2> HIDE DEF b
  <2> QED
    BY <2>1
<1> HIDE DEF S, b
<1>8. /\ Cardinality(UpTo(S, k)) \in 1 .. Cardinality(S)
      /\ InOrder(S)[Cardinality(UpTo(S, k))] = k
  BY <1>4, <1>6, Rank, InOrderAt
<1>9. \E n \in 1 .. Len(Words(l, 1, b)) : Words(l, 1, b)[n] = <<l[k]>>
  BY <1>5, <1>7, <1>8
<1> QED
  BY <1>9 DEF b

\* main turns background mode on exactly for the lines that ask for it, if exec
\* is the only command.
LEMMA BackgroundAsked ==
  ASSUME HashStandsAlone, NEW l \in Lines, Len(Chain(l)) = 1,
         Len(Chain(l)[1]) >= 1, Chain(l)[1][1] = <<exec>>
  PROVE  BackgroundLine(l) <=> \E n \in 1 .. Len(Chain(l)[1]) : Chain(l)[1][n] = <<Hash>>
<1> DEFINE b == LineEnd(l) - 1
<1>1. l \in Seq(Characters)
  BY NewlineLast
<1>2. Chain(l)[1] = Words(l, 1, b) /\ Len(Words(l, 1, b)) \in Nat
  BY <1>1, OnlyChain, WordsType
<1>3. Contains(l, exec)
  <2>1. 1 \in 1 .. Len(Words(l, 1, b)) /\ Words(l, 1, b)[1] = <<exec>>
    BY <1>2
  <2> HIDE DEF b
  <2> QED
    BY <1>1, <2>1, LetterOfWord
<1>4. ASSUME NEW n \in 1 .. Len(Words(l, 1, b)), Words(l, 1, b)[n] = <<Hash>>
      PROVE  Contains(l, Hash)
  <2> HIDE DEF b
  <2> QED
    BY <1>1, <1>4, LetterOfWord
<1>5. ASSUME Contains(l, Hash)
      PROVE  \E n \in 1 .. Len(Words(l, 1, b)) : Words(l, 1, b)[n] = <<Hash>>
  <2>1. PICK k \in 1 .. Len(l) : l[k] = Hash
    BY <1>5 DEF Contains
  <2>2. /\ l[k] \in Letters
        /\ ~IsLetter(l, k + 1) /\ (k > 1 => ~IsLetter(l, k - 1))
    BY <2>1, CommandLinesAssumption DEF HashStandsAlone
  <2> QED
    BY <2>1, <2>2, WordOfLetter
<1> HIDE DEF b
<1> QED
  BY <1>2, <1>3, <1>4, <1>5 DEF BackgroundLine

-----------------------------------------------------------------------------
(* Exec reads its arguments.                                               *)

LEMMA StarterChainSyntax == \A l : Starter!Chain(l) = Chain(l)
<1>1. \A l : Starter!WordStarts(l) = WordStarts(l)
  BY StarterSyntax DEF Starter!WordStarts, WordStarts
<1>2. \A l : Starter!LineEnd(l) = LineEnd(l)
  BY StarterSyntax DEF Starter!LineEnd, LineEnd
<1>3. \A l : Starter!CommandEnds(l) = CommandEnds(l)
  BY <1>2, StarterSyntax DEF Starter!CommandEnds, CommandEnds
<1>4. \A S : Starter!InOrder(S) = InOrder(S)
  BY Zenon DEF Starter!InOrder, InOrder, Starter!Cardinality, Cardinality
<1>5. \A l, a, b : Starter!Words(l, a, b) = Words(l, a, b)
  BY <1>1, <1>4, StarterSyntax DEF Starter!Words, Words
<1> QED
  BY <1>3, <1>4, <1>5 DEF Starter!Chain, Chain

LEMMA ExecsInit == Init => ExecsRecorded
<1> SUFFICES ASSUME Init PROVE ExecsRecorded
  OBVIOUS
<1>1. /\ execs = << >> /\ mt_mode = FALSE
      /\ background_mode = (Contains(line, exec) /\ Contains(line, Hash))
  BY DEF Init, Starter!InitInput, Starter!Contains, Contains
<1>2. background_mode \in BOOLEAN /\ background_mode = BackgroundLine(line)
  BY <1>1 DEF BackgroundLine
<1>3. execs \in Seq(Execs) /\ Len(execs) = 0 /\ ~AskedForMT(execs, Len(execs))
  BY <1>1 DEF AskedForMT
<1>4. mt_mode \in BOOLEAN /\ ~(mt_mode = TRUE) /\ ~(execs # << >>)
      /\ \A n \in 1 .. Len(execs) : FALSE
  <2>1. \A n \in 1 .. Len(execs) : FALSE
    BY <1>3
  <2> QED
    BY <1>1, <2>1, Zenon
<1>5. Len(chain) = 1 =>
        /\ execs = << >> => background_mode = BackgroundLine(line)
        /\ execs # << >> => Len(NotBlank(calls)) > 0
        /\ \A n \in 1 .. Len(execs) :
             execs[n].args = chain[1] /\ execs[n].background = BackgroundLine(line)
  BY <1>2, <1>4, Zenon
<1>6. \A n \in 1 .. Len(execs) :
        Recorded(execs[n]) /\ (execs[n].mt = TRUE <=> AskedForMT(execs, n))
  BY <1>4, Zenon
<1>7. mt_mode = TRUE <=> AskedForMT(execs, Len(execs))
  BY <1>3, <1>4, Zenon
<1> QED
  BY <1>1, <1>2, <1>3, <1>4, <1>5, <1>6, <1>7 DEF ExecsRecorded

LEMMA ExecsStep == IInv /\ ExecsRecorded /\ [Next]_vars => ExecsRecorded'
<1> SUFFICES ASSUME IInv, ExecsRecorded, [Next]_vars PROVE ExecsRecorded'
  OBVIOUS
<1>1. CASE shell = "starter" /\ Starter!NextInput /\ UNCHANGED <<chain, shell, leftLoop>>
  <2>1. /\ Parsing /\ StarterReads /\ shell = "starter" /\ UNCHANGED <<chain, shell>>
        /\ Starter!EndCommand \/ Starter!TakeWord \/ Starter!Return
    BY <1>1 DEF IInv, Starter!NextInput, Starter!parseInput
  <2>2. Called
    BY <2>1, StarterEnds, StarterTakes, StarterReturns
  <2>3. UNCHANGED line
    BY <2>1 DEF Starter!EndCommand, Starter!TakeWord, Starter!Return
  <2>4. calls \in Seq(Seq(Seq(Letters))) /\ chain \in Seq(Seq(Seq(Letters)))
    <3>1. line \in Lines /\ chain = Chain(line)
      BY <2>1 DEF Parsing
    <3> QED
      BY <2>1, <3>1, NewlineLast, ChainType DEF Parsing, TypeOK, Starter!ParserTypeOK
  <2>5. IF calls' # calls THEN Starter!interpreter(Last(calls'))
        ELSE UNCHANGED Starter!inputVars
    BY <1>1 DEF Starter!NextInput, Starter!Last, Last
  <2> QED
    BY <2>1, <2>2, <2>3, <2>4, <2>5, ExecsNext
<1>2. CASE shell = "solution" /\ UNCHANGED <<shell, execs>>
  BY <1>2 DEF ExecsRecorded
<1>3. CASE UNCHANGED vars
  BY <1>3 DEF vars, ExecsRecorded, Recorded, AskedForMT
<1> QED
  BY <1>1, <1>2, <1>3 DEF Next

LEMMA ExecReads ==
  ASSUME HashStandsAlone, Parsing, shell = "starter", ExecsRecorded
  PROVE  ExecReadsItsArguments
<1> DEFINE W == Seq(Letters)
<1> SUFFICES ASSUME NEW n \in DOMAIN execs, NEW programs \in Starter!ProgramsOf(execs[n].args),
                    NEW policy \in Policies, NEW background \in BOOLEAN, NEW mt \in BOOLEAN,
                    Starter!WrittenAs(execs[n].args, programs, policy, background, mt)
             PROVE  /\ execs[n].programs = programs
                    /\ execs[n].policy = <<Starter!Word(policy)>>
                    /\ execs[n].mt =
                         \E m \in 1 .. n : Starter!Last(execs[m].args) = Starter!Word(MT)
                    /\ Len(Starter!Chain(line)) = 1 => execs[n].background = background
  BY Zenon DEF ExecReadsItsArguments, Starter!ExecReadsItsArguments
<1>1. /\ n \in 1 .. Len(execs) /\ execs[n] \in Execs /\ Recorded(execs[n])
      /\ execs[n].mt = TRUE <=> AskedForMT(execs, n)
  BY DEF ExecsRecorded
<1>2. /\ execs[n].args \in Seq(W)
      /\ execs[n].mt \in BOOLEAN /\ execs[n].background \in BOOLEAN
  BY <1>1 DEF Execs
<1>3. programs \in Seq(W)
  <2>1. PICK k \in 2 .. Len(execs[n].args) : programs = SubSeq(execs[n].args, 2, k)
    BY <1>2 DEF Starter!ProgramsOf
  <2> HIDE DEF W
  <2> QED
    BY <1>2, <2>1, SubSeqProperties
<1>4. /\ Starter!ExecArguments(execs[n].args).programs = programs
      /\ Starter!ExecArguments(execs[n].args).policy = <<<<policy>>>>
      /\ (\E k \in 1 .. Len(execs[n].args) : execs[n].args[k] = <<Hash>>)
           <=> background = TRUE
      /\ execs[n].args[1] = <<exec>>
  <2> DEFINE a == execs[n].args
  <2>1. Starter!WrittenAs(a, programs, policy, background, mt)
    OBVIOUS
  <2> HIDE DEF a
  <2>2. programs \in Seq(Seq(Letters))
    BY <1>3
  <2>3. ReadAs(a, programs, policy, background)
    BY <2>1, <2>2, ArgumentsRead, Zenon
  <2> QED
    BY <2>3, Zenon DEF a, ReadAs
<1>5. execs[n].programs = programs /\ execs[n].policy = <<Starter!Word(policy)>>
  BY <1>1, <1>4 DEF Recorded, Starter!Word
<1>6. execs[n].mt = \E m \in 1 .. n : Starter!Last(execs[m].args) = Starter!Word(MT)
  <2>1. execs[n].mt <=> AskedForMT(execs, n)
    BY <1>1, <1>2, Zenon
  <2> QED
    BY <1>2, <2>1, Zenon DEF AskedForMT, Starter!Word, Starter!Last, Last
<1>7. ASSUME Len(Starter!Chain(line)) = 1 PROVE execs[n].background = background
  <2>1. line \in Lines /\ chain = Chain(line) /\ Len(Chain(line)) = 1
    BY <1>7, StarterChainSyntax DEF Parsing
  <2>2. execs[n].args = Chain(line)[1] /\ execs[n].background = BackgroundLine(line)
    BY <1>1, <1>7, <2>1 DEF ExecsRecorded
  <2>3. Len(Chain(line)[1]) >= 1
    BY <1>2, <1>4, <2>2 DEF Starter!WrittenAs, Starter!Word
  <2>4. BackgroundLine(line) <=> background
    BY <1>4, <2>1, <2>2, <2>3, BackgroundAsked, Zenon
  <2> QED
    BY <1>2, <2>2, <2>4, Zenon
<1> QED
  BY <1>5, <1>6, <1>7

\* An exec that is written as interpreter.c says gets the programs, the policy
\* and the modes that stand in it.
THEOREM ArgumentsReadAsWritten ==
  HashStandsAlone => (Spec => []ExecReadsItsArguments)
<1> SUFFICES ASSUME HashStandsAlone PROVE Spec => []ExecReadsItsArguments
  OBVIOUS
<1>1. IInv /\ ExecsRecorded => ExecReadsItsArguments
  <2>1. CASE shell = "starter"
    BY <2>1, ExecReads DEF IInv
  <2>2. CASE shell # "starter"
    BY <2>2 DEF ExecsRecorded, ExecReadsItsArguments, Starter!ExecReadsItsArguments
  <2> QED
    BY <2>1, <2>2
<1> QED
  BY <1>1, ExecsInit, ExecsStep, Invariant, PTL DEF Spec

=============================================================================
