------------------------ MODULE BatchScheduler_proofs ------------------------
(***************************************************************************)
(* For any scripts, inputs and size of linememory: a process keeps the     *)
(* lines it was loaded with, whoever comes and goes, and stays until it    *)
(* has executed them; linememory is empty at the prompt; no script is live *)
(* twice; a batch never prompts; the queue of a session with one policy is *)
(* in its order, and AGING preempts a process only for a shorter one;      *)
(* whatever mixture of FCFS, RR and RR30 the execs ask for, no script is   *)
(* ahead of one given before it.                                           *)
(***************************************************************************)
EXTENDS BatchScheduler, WellFoundedInduction, TLAPS

PCBs == [pid : Nat, name : Programs \union {Shell}, line_base : Nat,
         line_count : Nat, duration : Nat, pc : Nat]

\* The types of the variables, those of TypeOK that are not about live
\* processes among them.
Types ==
  /\ input \in Inputs
  /\ read \in 0 .. Len(input)
  /\ status \in {"prompt", "loading", "running", "exited", "crashed"}
  /\ call \in [progs : Seq(Programs), shell : BOOLEAN, nested : BOOLEAN]
  /\ background \in BOOLEAN
  /\ hasQueue \in BOOLEAN
  /\ policy \in Policies \union {NoPolicy}
  /\ schedule \in Policies \union {NoPolicy}
  /\ queue \in Seq(PCBs)
  /\ current \in PCBs
  /\ steps \in Nat
  /\ next_free_line \in 0 .. MEM_SIZE
  /\ fresh_pid \in Nat \ {0}
  /\ DOMAIN linememory = 0 .. MEM_SIZE - 1

WellFormed(p) ==
  /\ p \in PCBs
  /\ p.pid \in 1 .. fresh_pid - 1
  /\ p.pc \in 0 .. p.line_count
  /\ p.duration \in 0 .. p.line_count
  /\ p.line_base + p.line_count <= next_free_line

\* Two processes have different pids and names.
Apart(p, q) == p.pid # q.pid /\ p.name # q.name

ProcessesApart ==
  /\ \A i, j \in DOMAIN queue : i # j => Apart(queue[i], queue[j])
  /\ current # NoPCB => \A i \in DOMAIN queue : Apart(queue[i], current)

\* Where the one thread is, and what it may find there.
Phases ==
  /\ status \in {"prompt", "running"} => call = NoCall
  /\ status = "prompt" => queue = <<>> /\ current = NoPCB /\ ~hasQueue
  /\ status = "loading" =>
       current.name = Shell /\ (~call.nested => current = NoPCB)
  /\ call.shell =>
       background /\ ~call.nested /\ \A p \in Live : p.name # Shell
  /\ \A p \in Live : p.name = Shell => background /\ p.line_count <= Len(input)

IInv ==
  /\ Types
  /\ \A p \in Live : WellFormed(p)
  /\ ProcessesApart
  /\ Phases
  /\ OwnsItsLines

\* The queue r is the queue q with p put in at position k, or at some position.
AddedAt(r, q, p, k) ==
  /\ Len(r) = Len(q) + 1
  /\ r[k] = p
  /\ \A i \in 1 .. k - 1 : r[i] = q[i]
  /\ \A i \in k + 1 .. Len(q) + 1 : r[i] = q[i - 1]

Added(r, q, p) == \E k \in 1 .. Len(q) + 1 : AddedAt(r, q, p, k)

\* In order from the first Ranked process on.
Sorted(q) ==
  \A i, j \in DOMAIN q : i < j /\ Ranked(q[i]) => Precedes(q[i], q[j])

\* While a schedule is loaded or runs, it has the policy of every exec, and
\* the policies that rank jobs have them in order.
Agreed(pol) ==
  /\ status \in {"loading", "running"} => policy = pol /\ pol \in Policies
  /\ status = "running" \/ (status = "loading" /\ call.nested) => schedule = pol
  /\ pol \in {"SJF", "AGING"} => Sorted(queue)

\* A shell that has not run waits at the head only, until the first dequeue;
\* a process that has not run has lines to execute before it is put back.
Order ==
  /\ \A i \in DOMAIN queue :
       ~Ranked(queue[i]) => i = 1 /\ current = NoPCB /\ call.progs = <<>>
  /\ current # NoPCB /\ current.pc = 0 /\ current.line_count > 0 => steps > 0
  /\ \A pol \in Policies \union {NoPolicy} : AllAskFor(pol) => Agreed(pol)

-----------------------------------------------------------------------------
(* The queue.                                                              *)

LEMMA MinIsMember ==
  ASSUME NEW S \in SUBSET Nat, S # {}
  PROVE  Min(S) \in S /\ \A n \in S : Min(S) <= n
<1>1. PICK m \in S : \A n \in S : ~(<<n, m>> \in OpToRel(<, Nat))
  BY NatLessThanWellFounded, WFMin
<1>2. ASSUME NEW n \in S PROVE m =< n
  <2>1. m \in Nat /\ n \in Nat
    OBVIOUS
  <2>2. n < m => <<n, m>> \in OpToRel(<, Nat)
    BY <2>1 DEF OpToRel
  <2>3. ~(<<n, m>> \in OpToRel(<, Nat))
    BY <1>1
  <2>4. ~(n < m)
    BY <2>2, <2>3
  <2> QED
    BY <2>1, <2>4
<1> QED
  BY <1>2 DEF Min

LEMMA Concatenation ==
  ASSUME NEW S, NEW x \in Seq(S), NEW y \in Seq(S)
  PROVE  /\ x \o y \in Seq(S)
         /\ Len(x \o y) = Len(x) + Len(y)
         /\ \A i \in 1 .. Len(x) : (x \o y)[i] = x[i]
         /\ \A i \in Len(x) + 1 .. Len(x) + Len(y) : (x \o y)[i] = y[i - Len(x)]
  OBVIOUS

LEMMA InsertAtAdds ==
  ASSUME NEW q \in Seq(PCBs), NEW p \in PCBs, NEW k \in 1 .. Len(q)
  PROVE  InsertAt(q, k, p) \in Seq(PCBs) /\ AddedAt(InsertAt(q, k, p), q, p, k)
<1> DEFINE a == SubSeq(q, 1, k - 1)
           b == <<p>>
           c == SubSeq(q, k, Len(q))
           ab == a \o b
           r == InsertAt(q, k, p)
<1>1. k \in Nat /\ Len(q) \in Nat /\ k >= 1 /\ k <= Len(q)
  OBVIOUS
<1>2. /\ a \in Seq(PCBs) /\ Len(a) = k - 1
      /\ \A i \in 1 .. k - 1 : a[i] = q[i]
  BY <1>1
<1>3. /\ c \in Seq(PCBs) /\ Len(c) = Len(q) - k + 1
      /\ \A i \in 1 .. Len(c) : c[i] = q[k + i - 1]
  BY <1>1
<1>4. b \in Seq(PCBs) /\ Len(b) = 1 /\ b[1] = p
  OBVIOUS
<1>5. r = ab \o c
  BY DEF InsertAt
<1> HIDE DEF a, b, c, r
<1>6. /\ ab \in Seq(PCBs) /\ Len(ab) = k
      /\ \A i \in 1 .. k - 1 : ab[i] = q[i]
      /\ ab[k] = p
  <2>1. /\ ab \in Seq(PCBs) /\ Len(ab) = (k - 1) + 1
        /\ \A i \in 1 .. k - 1 : ab[i] = a[i]
        /\ \A i \in (k - 1) + 1 .. (k - 1) + 1 : ab[i] = b[i - (k - 1)]
    <3>1. a \in Seq(PCBs) /\ b \in Seq(PCBs)
      BY <1>2, <1>4
    <3>2. /\ ab \in Seq(PCBs) /\ Len(ab) = Len(a) + Len(b)
          /\ \A i \in 1 .. Len(a) : ab[i] = a[i]
          /\ \A i \in Len(a) + 1 .. Len(a) + Len(b) : ab[i] = b[i - Len(a)]
      BY <3>1, Concatenation
    <3>3. Len(a) = k - 1 /\ Len(b) = 1
      BY <1>2, <1>4
    <3> QED
      BY <3>2, <3>3
  <2>2. /\ (k - 1) + 1 = k /\ k \in (k - 1) + 1 .. (k - 1) + 1
        /\ k - (k - 1) = 1
    BY <1>1
  <2> QED
    BY <1>2, <1>4, <2>1, <2>2
<1> HIDE DEF ab
<1>7. /\ r \in Seq(PCBs) /\ Len(r) = Len(q) + 1
      /\ \A i \in 1 .. k : r[i] = ab[i]
      /\ \A i \in k + 1 .. Len(q) + 1 : r[i] = c[i - k]
  <2>1. /\ r \in Seq(PCBs) /\ Len(r) = k + (Len(q) - k + 1)
        /\ \A i \in 1 .. k : r[i] = ab[i]
        /\ \A i \in k + 1 .. k + (Len(q) - k + 1) : r[i] = c[i - k]
    <3>1. ab \in Seq(PCBs) /\ c \in Seq(PCBs)
      BY <1>3, <1>6
    <3>2. /\ r \in Seq(PCBs) /\ Len(r) = Len(ab) + Len(c)
          /\ \A i \in 1 .. Len(ab) : r[i] = ab[i]
          /\ \A i \in Len(ab) + 1 .. Len(ab) + Len(c) : r[i] = c[i - Len(ab)]
      BY <1>5, <3>1, Concatenation
    <3>3. Len(ab) = k /\ Len(c) = Len(q) - k + 1
      BY <1>3, <1>6
    <3> QED
      BY <3>2, <3>3
  <2>2. k + (Len(q) - k + 1) = Len(q) + 1
    BY <1>1
  <2> QED
    BY <2>1, <2>2
<1>8. \A i \in 1 .. k - 1 : r[i] = q[i]
  BY <1>1, <1>6, <1>7
<1>9. r[k] = p
  BY <1>1, <1>6, <1>7
<1>10. ASSUME NEW i \in k + 1 .. Len(q) + 1
       PROVE  r[i] = q[i - 1]
  <2>1. i - k \in 1 .. Len(c) /\ k + (i - k) - 1 = i - 1
    BY <1>1, <1>3
  <2> QED
    BY <1>3, <1>7, <2>1
<1>11. AddedAt(r, q, p, k)
  BY <1>7, <1>8, <1>9, <1>10 DEF AddedAt
<1> QED
  BY <1>7, <1>11 DEF r

LEMMA EnqueueFcfsAdds ==
  ASSUME NEW q \in Seq(PCBs), NEW p \in PCBs
  PROVE  /\ enqueue_fcfs(q, p) \in Seq(PCBs)
         /\ AddedAt(enqueue_fcfs(q, p), q, p, Len(q) + 1)
<1>1. Len(q) \in Nat /\ Len(q) + 1 \in 1 .. Len(q) + 1
  OBVIOUS
<1>2. /\ Append(q, p) \in Seq(PCBs) /\ Len(Append(q, p)) = Len(q) + 1
      /\ Append(q, p)[Len(q) + 1] = p
      /\ \A i \in 1 .. (Len(q) + 1) - 1 : Append(q, p)[i] = q[i]
      /\ \A i \in (Len(q) + 1) + 1 .. Len(q) + 1 : FALSE
  BY <1>1
<1> QED
  BY <1>1, <1>2 DEF AddedAt, enqueue_fcfs

LEMMA EnqueueFirstAdds ==
  ASSUME NEW q \in Seq(PCBs), NEW p \in PCBs
  PROVE  /\ enqueue_ignoring_priority(q, p) \in Seq(PCBs)
         /\ AddedAt(enqueue_ignoring_priority(q, p), q, p, 1)
<1> DEFINE r == <<p>> \o q
<1>1. Len(q) \in Nat /\ 1 \in 1 .. Len(q) + 1
  OBVIOUS
<1>2. /\ r \in Seq(PCBs) /\ Len(r) = Len(q) + 1
      /\ r[1] = p
      /\ \A i \in 1 .. 1 - 1 : FALSE
      /\ \A i \in 1 + 1 .. Len(q) + 1 : r[i] = q[i - 1]
  BY <1>1
<1> HIDE DEF r
<1>3. AddedAt(r, q, p, 1)
  BY <1>1, <1>2 DEF AddedAt
<1> QED
  BY <1>2, <1>3 DEF enqueue_ignoring_priority, r

\* Behind every job that is no longer, in front of one that is.
LEMMA EnqueueSjfAdds ==
  ASSUME NEW q \in Seq(PCBs), NEW p \in PCBs
  PROVE  /\ enqueue_sjf(q, p) \in Seq(PCBs)
         /\ \E k \in 1 .. Len(q) + 1 :
              /\ AddedAt(enqueue_sjf(q, p), q, p, k)
              /\ \A i \in 1 .. k - 1 : q[i].duration <= p.duration
              /\ k <= Len(q) => q[k].duration > p.duration
<1> DEFINE longer == { i \in DOMAIN q : q[i].duration > p.duration }
<1>1. /\ longer \in SUBSET Nat /\ longer \subseteq 1 .. Len(q)
      /\ Len(q) \in Nat /\ DOMAIN q = 1 .. Len(q)
  OBVIOUS
<1>2. \A i \in DOMAIN q : q[i].duration \in Nat /\ p.duration \in Nat
  <2>1. \A i \in DOMAIN q : q[i] \in PCBs
    OBVIOUS
  <2> HIDE DEF longer
  <2> QED
    BY <2>1 DEF PCBs
<1>3. CASE longer = {}
  <2>1. \A i \in DOMAIN q : q[i].duration <= p.duration
    BY <1>2, <1>3
  <2>2. enqueue_sjf(q, p) = enqueue_fcfs(q, p)
    BY <1>3 DEF enqueue_sjf, enqueue_fcfs
  <2>3. /\ Len(q) + 1 \in 1 .. Len(q) + 1 /\ ~(Len(q) + 1 <= Len(q))
        /\ 1 .. (Len(q) + 1) - 1 = DOMAIN q
    BY <1>1
  <2> QED
    BY <2>1, <2>2, <2>3, EnqueueFcfsAdds
<1>4. CASE longer # {}
  <2>1. \A i \in longer : q[i].duration > p.duration
    OBVIOUS
  <2>2. \A i \in 1 .. Len(q) : i \in longer \/ q[i].duration <= p.duration
    BY <1>1, <1>2
  <2>3. enqueue_sjf(q, p) = InsertAt(q, Min(longer), p)
    BY <1>4 DEF enqueue_sjf
  <2> HIDE DEF longer
  <2>4. PICK k \in longer : k = Min(longer) /\ \A i \in longer : k <= i
    BY <1>1, <1>4, MinIsMember
  <2>5. k \in 1 .. Len(q) /\ k \in 1 .. Len(q) + 1
    BY <1>1, <2>4
  <2>6. \A i \in 1 .. k - 1 : q[i].duration <= p.duration
    <3>1. \A i \in 1 .. k - 1 : i \in 1 .. Len(q) /\ ~(k <= i)
      BY <1>1, <2>5
    <3> QED
      BY <2>2, <2>4, <3>1
  <2>7. InsertAt(q, k, p) \in Seq(PCBs) /\ AddedAt(InsertAt(q, k, p), q, p, k)
    BY <2>5, InsertAtAdds
  <2> QED
    BY <2>1, <2>3, <2>4, <2>5, <2>6, <2>7
<1> QED
  BY <1>3, <1>4

\* Whatever the policy, enqueue adds the process and loses none.
LEMMA EnqueueAdds ==
  ASSUME NEW q \in Seq(PCBs), NEW p \in PCBs, NEW pol
  PROVE  Enqueue(pol, q, p) \in Seq(PCBs) /\ Added(Enqueue(pol, q, p), q, p)
<1>0. Len(q) \in Nat /\ 1 \in 1 .. Len(q) + 1 /\ Len(q) + 1 \in 1 .. Len(q) + 1
  OBVIOUS
<1>1. enqueue_fcfs(q, p) \in Seq(PCBs) /\ Added(enqueue_fcfs(q, p), q, p)
  BY <1>0, EnqueueFcfsAdds DEF Added
<1>2. enqueue_sjf(q, p) \in Seq(PCBs) /\ Added(enqueue_sjf(q, p), q, p)
  BY EnqueueSjfAdds DEF Added
<1>3. enqueue_aging(q, p) \in Seq(PCBs) /\ Added(enqueue_aging(q, p), q, p)
  <2>1. /\ enqueue_ignoring_priority(q, p) \in Seq(PCBs)
        /\ Added(enqueue_ignoring_priority(q, p), q, p)
    BY <1>0, EnqueueFirstAdds DEF Added
  <2> QED
    BY <1>2, <2>1 DEF enqueue_aging
<1>4. CASE pol = "SJF"
  BY <1>2, <1>4 DEF Enqueue
<1>5. CASE pol = "AGING"
  BY <1>3, <1>5 DEF Enqueue
<1>6. CASE pol # "SJF" /\ pol # "AGING"
  BY <1>1, <1>6 DEF Enqueue
<1> QED
  BY <1>4, <1>5, <1>6

LEMMA AddedRange ==
  ASSUME NEW q \in Seq(PCBs), NEW r \in Seq(PCBs), NEW p \in PCBs, Added(r, q, p)
  PROVE  Range(r) = Range(q) \union {p}
<1>0. Len(q) \in Nat /\ DOMAIN q = 1 .. Len(q) /\ DOMAIN r = 1 .. Len(r)
  OBVIOUS
<1>1. PICK k \in 1 .. Len(q) + 1 :
        /\ Len(r) = Len(q) + 1
        /\ r[k] = p
        /\ \A i \in 1 .. k - 1 : r[i] = q[i]
        /\ \A i \in k + 1 .. Len(q) + 1 : r[i] = q[i - 1]
  BY DEF Added, AddedAt
<1>2. ASSUME NEW i \in DOMAIN r PROVE r[i] \in Range(q) \union {p}
  <2>1. i \in 1 .. k - 1 \/ i = k \/ i \in k + 1 .. Len(q) + 1
    BY <1>0, <1>1
  <2>2. CASE i \in 1 .. k - 1
    BY <1>0, <1>1, <2>2 DEF Range
  <2>3. CASE i \in k + 1 .. Len(q) + 1
    <3>1. i - 1 \in DOMAIN q
      BY <1>0, <2>3
    <3> QED
      BY <1>1, <2>3, <3>1 DEF Range
  <2> QED
    BY <1>1, <2>1, <2>2, <2>3
<1>3. ASSUME NEW i \in DOMAIN q PROVE q[i] \in Range(r)
  <2>1. CASE i < k
    <3>1. i \in 1 .. k - 1 /\ i \in DOMAIN r
      BY <1>0, <1>1, <2>1
    <3> QED
      BY <1>1, <3>1 DEF Range
  <2>2. CASE i >= k
    <3>1. i + 1 \in k + 1 .. Len(q) + 1 /\ i + 1 \in DOMAIN r /\ (i + 1) - 1 = i
      BY <1>0, <1>1, <2>2
    <3> QED
      BY <1>1, <3>1 DEF Range
  <2> QED
    BY <1>0, <2>1, <2>2
<1>4. p \in Range(r)
  BY <1>0, <1>1 DEF Range
<1> QED
  BY <1>2, <1>3, <1>4 DEF Range

LEMMA AddedApart ==
  ASSUME NEW q \in Seq(PCBs), NEW r \in Seq(PCBs), NEW p \in PCBs, Added(r, q, p),
         \A i, j \in DOMAIN q : i # j => Apart(q[i], q[j]),
         \A i \in DOMAIN q : Apart(q[i], p)
  PROVE  \A i, j \in DOMAIN r : i # j => Apart(r[i], r[j])
<1>0. Len(q) \in Nat /\ DOMAIN q = 1 .. Len(q) /\ DOMAIN r = 1 .. Len(r)
  OBVIOUS
<1>1. PICK k \in 1 .. Len(q) + 1 :
        /\ Len(r) = Len(q) + 1
        /\ r[k] = p
        /\ \A i \in 1 .. k - 1 : r[i] = q[i]
        /\ \A i \in k + 1 .. Len(q) + 1 : r[i] = q[i - 1]
  BY DEF Added, AddedAt
<1> DEFINE Old(i) == IF i < k THEN i ELSE i - 1
<1>2. ASSUME NEW i \in DOMAIN r, i # k
      PROVE  Old(i) \in DOMAIN q /\ r[i] = q[Old(i)]
  <2>1. CASE i < k
    <3>1. i \in 1 .. k - 1 /\ i \in DOMAIN q
      BY <1>0, <1>1, <2>1
    <3> QED
      BY <1>1, <2>1, <3>1
  <2>2. CASE i > k
    <3>1. i \in k + 1 .. Len(q) + 1 /\ i - 1 \in DOMAIN q /\ ~(i < k)
      BY <1>0, <1>1, <2>2
    <3> QED
      BY <1>1, <3>1
  <2> QED
    BY <1>0, <1>2, <2>1, <2>2
<1>3. \A i, j \in DOMAIN r : i # j /\ i # k /\ j # k => Old(i) # Old(j)
  BY <1>0, <1>1
<1> HIDE DEF Old
<1>4. \A i \in DOMAIN r : i # k => Apart(r[i], p)
  BY <1>2
<1>5. \A i, j \in DOMAIN r : i # j /\ i # k /\ j # k => Apart(r[i], r[j])
  BY <1>2, <1>3
<1> QED
  BY <1>1, <1>4, <1>5 DEF Apart

-----------------------------------------------------------------------------
(* Live processes and their lines.                                         *)

LEMMA LiveProcesses ==
  ASSUME IInv
  PROVE  /\ \A p : p \in Live <=> \/ \E i \in DOMAIN queue : queue[i] = p
                                  \/ p = current /\ current # NoPCB
         /\ \A i \in DOMAIN queue : queue[i] \in PCBs /\ queue[i] # NoPCB
         /\ \A p, q \in Live : p # q => Apart(p, q)
<1>1. \A p : p \in Live <=> \/ \E i \in DOMAIN queue : queue[i] = p
                            \/ p = current /\ current # NoPCB
  BY DEF Live, Range
<1>2. \A i \in DOMAIN queue : queue[i] \in PCBs
  BY DEF IInv, Types
<1>3. \A p \in Live : p.pid # 0
  BY DEF IInv, WellFormed, Types
<1>4. \A i \in DOMAIN queue : queue[i] # NoPCB
  BY <1>1, <1>3 DEF NoPCB
<1>5. \A p, q \in Live : p # q => Apart(p, q)
  BY <1>1 DEF IInv, ProcessesApart, Apart
<1> QED
  BY <1>1, <1>2, <1>4, <1>5

LEMMA InitIInv == Init => IInv
<1> SUFFICES ASSUME Init PROVE IInv
  OBVIOUS
<1> USE DEF Init
<1>1. Live = {}
  BY DEF Live, Range
<1>2. Types
  <2>1. input \in Inputs /\ input \in Seq(Range(input)) /\ read \in 0 .. Len(input)
    BY InputsAssumption
  <2>2. current \in PCBs
    BY DEF PCBs, NoPCB
  <2>3. call \in [progs : Seq(Programs), shell : BOOLEAN, nested : BOOLEAN]
    BY DEF NoCall
  <2>4. queue \in Seq(PCBs) /\ DOMAIN linememory = 0 .. MEM_SIZE - 1
    OBVIOUS
  <2>5. next_free_line \in 0 .. MEM_SIZE /\ fresh_pid \in Nat \ {0} /\ steps \in Nat
    BY MemoryAssumption
  <2>6. background \in BOOLEAN /\ hasQueue \in BOOLEAN
    BY Zenon
  <2>7. policy \in Policies \union {NoPolicy} /\ schedule \in Policies \union {NoPolicy}
    OBVIOUS
  <2> QED
    BY <2>1, <2>2, <2>3, <2>4, <2>5, <2>6, <2>7 DEF Types
<1>3. ProcessesApart
  BY DEF ProcessesApart
<1>4. Phases
  BY <1>1 DEF Phases, NoCall
<1>5. OwnsItsLines
  BY <1>1 DEF OwnsItsLines
<1> QED
  BY <1>1, <1>2, <1>3, <1>4, <1>5 DEF IInv

\* A step at which processes change neither their lines nor their names.
SameProcess(o, p) ==
  /\ p.pid = o.pid
  /\ p.name = o.name
  /\ p.line_base = o.line_base
  /\ p.line_count = o.line_count

LEMMA OwnersUnchanged ==
  ASSUME OwnsItsLines, UNCHANGED <<linememory, input>>,
         \A p \in Live' : \E o \in Live : SameProcess(o, p),
         \A o \in Live : \E p \in Live' : SameProcess(o, p)
  PROVE  OwnsItsLines'
<1>1. \A o, p : SameProcess(o, p) =>
        LinesOf(p) = LinesOf(o) /\ SourceOf(p)' = SourceOf(o)
  BY DEF SameProcess, LinesOf, SourceOf
<1>2. ASSUME NEW p \in Live'
      PROVE  /\ Len(SourceOf(p)') = p.line_count
             /\ \A i \in LinesOf(p) :
                  linememory'[i] = [pid |-> p.pid,
                                    cmd |-> SourceOf(p)'[i - p.line_base + 1]]
  <2>1. PICK o \in Live : SameProcess(o, p)
    OBVIOUS
  <2>2. /\ Len(SourceOf(o)) = o.line_count
        /\ \A i \in LinesOf(o) :
             linememory[i] = [pid |-> o.pid,
                              cmd |-> SourceOf(o)[i - o.line_base + 1]]
    BY DEF OwnsItsLines
  <2>3. LinesOf(p) = LinesOf(o) /\ SourceOf(p)' = SourceOf(o)
    BY <1>1, <2>1
  <2>4. /\ p.pid = o.pid /\ p.line_base = o.line_base
        /\ p.line_count = o.line_count
    BY <2>1 DEF SameProcess
  <2>5. Len(SourceOf(p)') = p.line_count
    BY <2>2, <2>3, <2>4
  <2>6. ASSUME NEW i \in LinesOf(p)
        PROVE  linememory'[i] = [pid |-> p.pid,
                                 cmd |-> SourceOf(p)'[i - p.line_base + 1]]
    <3>1. linememory[i] = [pid |-> o.pid,
                           cmd |-> SourceOf(o)[i - o.line_base + 1]]
      BY <2>2, <2>3
    <3> QED
      BY <2>3, <2>4, <3>1
  <2> QED
    BY <2>5, <2>6
<1>3. ASSUME NEW i \in DOMAIN linememory, linememory[i] # NoLine
      PROVE  \E p \in Live' : i \in LinesOf(p)
  <2>1. PICK o \in Live : i \in LinesOf(o)
    BY <1>3 DEF OwnsItsLines
  <2>2. PICK p \in Live' : SameProcess(o, p)
    OBVIOUS
  <2> QED
    BY <1>1, <2>1, <2>2
<1> QED
  BY <1>2, <1>3 DEF OwnsItsLines, LinesOf

LEMMA OwnLines ==
  ASSUME IInv, NEW o \in Live, NEW i \in LinesOf(o)
  PROVE  /\ i \in 0 .. MEM_SIZE - 1
         /\ i < next_free_line
         /\ linememory[i].pid = o.pid
<1>1. /\ o.line_base \in Nat /\ o.line_count \in Nat
      /\ o.line_base + o.line_count <= next_free_line
      /\ next_free_line \in Nat /\ next_free_line <= MEM_SIZE
      /\ MEM_SIZE \in Nat
  BY MemoryAssumption DEF IInv, WellFormed, PCBs, Types
<1>2. i \in 0 .. MEM_SIZE - 1 /\ i < next_free_line
  BY <1>1 DEF LinesOf
<1>3. linememory[i] = [pid |-> o.pid, cmd |-> SourceOf(o)[i - o.line_base + 1]]
  BY DEF IInv, OwnsItsLines
<1> QED
  BY <1>2, <1>3

\* A process is given lines that were nobody's.
LEMMA LoadProcess ==
  ASSUME IInv, NEW S, NEW text \in Seq(S), NEW name \in Programs \union {Shell},
         StoreLines(text), ~OutOfMemory(Len(text)),
         UNCHANGED input,
         SourceOf(NewPCB(name, text)) = text,
         Live' = Live \union {NewPCB(name, text)}
  PROVE  /\ next_free_line' \in 0 .. MEM_SIZE
         /\ fresh_pid' \in Nat \ {0}
         /\ DOMAIN linememory' = 0 .. MEM_SIZE - 1
         /\ \A o \in Live' : WellFormed(o)'
         /\ OwnsItsLines'
<1> DEFINE nf == next_free_line
<1>p. PICK p : p = NewPCB(name, text)
  OBVIOUS
<1>0. /\ nf \in Nat /\ nf <= MEM_SIZE /\ fresh_pid \in Nat \ {0}
      /\ DOMAIN linememory = 0 .. MEM_SIZE - 1 /\ MEM_SIZE \in Nat
      /\ Len(text) \in Nat /\ DOMAIN text = 1 .. Len(text)
  BY MemoryAssumption DEF IInv, Types
<1>1. /\ next_free_line' = nf + Len(text) /\ fresh_pid' = fresh_pid + 1
      /\ nf + Len(text) <= MEM_SIZE
  BY <1>0 DEF StoreLines, OutOfMemory
<1>2. \A i \in 0 .. MEM_SIZE - 1 :
        linememory'[i] = IF i - nf + 1 \in DOMAIN text
                           THEN [pid |-> fresh_pid, cmd |-> text[i - nf + 1]]
                           ELSE linememory[i]
  BY <1>0 DEF StoreLines
<1>3. DOMAIN linememory' = 0 .. MEM_SIZE - 1
  BY <1>0 DEF StoreLines
<1>4. /\ p \in PCBs /\ p.pid = fresh_pid /\ p.pc = 0
      /\ p.line_count = Len(text) /\ p.duration = Len(text)
      /\ p.line_base = IF text = <<>> THEN 0 ELSE nf
  BY <1>0, <1>p DEF NewPCB, PCBs
<1>5. WellFormed(p)'
  BY <1>0, <1>1, <1>4 DEF WellFormed
<1>6. ASSUME NEW o \in Live PROVE WellFormed(o)'
  <2>1. WellFormed(o)
    BY DEF IInv
  <2> QED
    BY <1>0, <1>1, <2>1 DEF WellFormed, PCBs
<1>7. ASSUME NEW o \in Live, NEW i \in LinesOf(o)
      PROVE  i \in 0 .. MEM_SIZE - 1 /\ linememory'[i] = linememory[i]
  <2>2. i \in 0 .. MEM_SIZE - 1 /\ i < nf
    BY OwnLines
  <2>3. i \in 0 .. MEM_SIZE - 1 /\ i - nf + 1 \notin DOMAIN text
    BY <1>0, <2>2
  <2> QED
    BY <1>2, <2>3
<1>8. LinesOf(p) = { i \in 0 .. MEM_SIZE - 1 : i - nf + 1 \in DOMAIN text }
  <2>1. CASE text = <<>>
    BY <1>0, <1>4, <2>1 DEF LinesOf
  <2>2. CASE text # <<>>
    BY <1>0, <1>1, <1>4, <2>2 DEF LinesOf
  <2> QED
    BY <2>1, <2>2
<1>9. \A i \in LinesOf(p) :
        i \in 0 .. MEM_SIZE - 1 /\ i - nf + 1 \in DOMAIN text /\ i - p.line_base + 1 = i - nf + 1
  BY <1>0, <1>4, <1>8
<1>10. \A o : SourceOf(o)' = SourceOf(o)
  BY DEF SourceOf
<1>11. ASSUME NEW o \in Live'
       PROVE  /\ Len(SourceOf(o)') = o.line_count
              /\ \A i \in LinesOf(o) :
                   linememory'[i] = [pid |-> o.pid,
                                     cmd |-> SourceOf(o)'[i - o.line_base + 1]]
  <2>1. CASE o \in Live
    BY <1>7, <1>10, <2>1 DEF IInv, OwnsItsLines
  <2>2. CASE o = p
    BY <1>p, <1>2, <1>4, <1>9, <1>10, <2>2
  <2> QED
    BY <1>p, <2>1, <2>2
<1>12. ASSUME NEW i \in DOMAIN linememory', linememory'[i] # NoLine
       PROVE  \E o \in Live' : i \in LinesOf(o)
  <2>1. CASE i - nf + 1 \in DOMAIN text
    <3>1. i \in LinesOf(p)
      BY <1>3, <1>8, <2>1
    <3> QED
      BY <1>p, <3>1
  <2>2. CASE i - nf + 1 \notin DOMAIN text
    <3>1. linememory[i] # NoLine
      BY <1>2, <1>3, <1>12, <2>2
    <3> QED
      BY <1>0, <1>3, <3>1 DEF IInv, OwnsItsLines
  <2> QED
    BY <2>1, <2>2
<1>13. OwnsItsLines'
  BY <1>11, <1>12 DEF OwnsItsLines, LinesOf
<1> QED
  BY <1>p, <1>0, <1>1, <1>3, <1>5, <1>6, <1>13

\* A process that ends takes its own lines with it and no others.
LEMMA FreeProcess ==
  ASSUME IInv, NEW ps \in SUBSET Live,
         linememory' = free_pcbs(ps), UNCHANGED input,
         Live' = Live \ ps
  PROVE  OwnsItsLines' /\ DOMAIN linememory' = 0 .. MEM_SIZE - 1
<1>0. DOMAIN linememory = 0 .. MEM_SIZE - 1 /\ MEM_SIZE \in Nat
  BY MemoryAssumption DEF IInv, Types
<1>1. /\ DOMAIN linememory' = 0 .. MEM_SIZE - 1
      /\ \A i \in 0 .. MEM_SIZE - 1 :
           linememory'[i] = IF \E p \in ps : i \in LinesOf(p)
                              THEN NoLine ELSE linememory[i]
  BY <1>0 DEF free_pcbs
<1>2. ASSUME NEW o \in Live', NEW i \in LinesOf(o)
      PROVE  linememory'[i] = linememory[i]
  <2>1. o \in Live /\ o \notin ps
    OBVIOUS
  <2>2. i \in 0 .. MEM_SIZE - 1 /\ linememory[i].pid = o.pid
    BY <2>1, OwnLines
  <2>3. ASSUME NEW p \in ps PROVE i \notin LinesOf(p)
    <3>1. p \in Live /\ p.pid # o.pid
      BY <2>1, LiveProcesses DEF Apart
    <3>2. i \in LinesOf(p) => linememory[i].pid = p.pid
      BY <3>1, OwnLines
    <3> QED
      BY <2>2, <3>1, <3>2
  <2> QED
    BY <1>1, <2>2, <2>3
<1>3. \A o : SourceOf(o)' = SourceOf(o)
  BY DEF SourceOf
<1>4. ASSUME NEW o \in Live'
      PROVE  /\ Len(SourceOf(o)') = o.line_count
             /\ \A i \in LinesOf(o) :
                  linememory'[i] = [pid |-> o.pid,
                                    cmd |-> SourceOf(o)'[i - o.line_base + 1]]
  <2>1. o \in Live
    OBVIOUS
  <2> QED
    BY <1>2, <1>3, <2>1 DEF IInv, OwnsItsLines
<1>5. ASSUME NEW i \in DOMAIN linememory', linememory'[i] # NoLine
      PROVE  \E o \in Live' : i \in LinesOf(o)
  <2>1. ~(\E p \in ps : i \in LinesOf(p)) /\ linememory[i] # NoLine
    BY <1>1, <1>5
  <2>2. PICK o \in Live : i \in LinesOf(o)
    BY <1>0, <1>1, <2>1 DEF IInv, OwnsItsLines
  <2> QED
    BY <2>1, <2>2
<1> QED
  BY <1>1, <1>4, <1>5 DEF OwnsItsLines, LinesOf

-----------------------------------------------------------------------------
(* What a command does to the state of exec.                               *)

IsCommand(c) ==
  \/ c \in {Other, QuitCmd}
  \/ c.op = "exec" /\ c.progs \in Seq(Programs) /\ c.hash \in BOOLEAN

\* Not an exec, or one that is refused.
PlainCommand ==
  /\ status' \in {status, "exited", "crashed"}
  /\ background' \in BOOLEAN /\ (background => background')
  /\ policy' \in Policies \union {NoPolicy}
  /\ UNCHANGED <<call, hasQueue, queue, linememory, next_free_line, fresh_pid>>

LEMMA ExecuteEffect ==
  ASSUME IInv, NEW c, IsCommand(c), Execute(c)
  PROVE  \/ PlainCommand
         \/ c.op = "exec" /\ OpenQueue(c)
         \/ c.op = "exec" /\ JoinQueue(c)
<1>0. background \in BOOLEAN /\ policy \in Policies \union {NoPolicy}
  BY DEF IInv, Types
<1>1. CASE c.op = "other" /\ UNCHANGED <<status, call, background, policy, hasQueue, queue, store>>
  BY <1>0, <1>1 DEF PlainCommand, store
<1>2. CASE c.op = "quit" /\ status' = "exited"
             /\ UNCHANGED <<call, background, policy, hasQueue, queue, store>>
  BY <1>0, <1>2 DEF PlainCommand, store
<1>3. CASE c.op = "exec" /\ RejectExec(c)
  <2>1. c.hash \in BOOLEAN
    BY <1>3 DEF IsCommand, Other, QuitCmd
  <2>2. background' = (background \/ c.hash)
    BY <1>3 DEF RejectExec
  <2>3. background' \in BOOLEAN /\ (background => background')
    BY <1>0, <2>1, <2>2, Zenon
  <2>4. policy' \in Policies \union {NoPolicy}
    BY <1>0, <1>3 DEF RejectExec
  <2> QED
    BY <1>3, <2>3, <2>4 DEF RejectExec, PlainCommand, store
<1>4. CASE c.op = "exec" /\ ExecWithoutQueue(c)
  <2>1. c.hash \in BOOLEAN
    BY <1>4 DEF IsCommand, Other, QuitCmd
  <2>2. background' = (background \/ c.hash)
    BY <1>4 DEF ExecWithoutQueue, AcceptExec
  <2>3. background' \in BOOLEAN /\ (background => background')
    BY <1>0, <2>1, <2>2, Zenon
  <2>4. policy' \in Policies
    BY <1>4 DEF ExecWithoutQueue, AcceptExec
  <2> QED
    BY <1>4, <2>3, <2>4 DEF ExecWithoutQueue, PlainCommand, store
<1> QED
  BY <1>1, <1>2, <1>3, <1>4 DEF Execute

LEMMA InputCommands ==
  ASSUME IInv
  PROVE  /\ Len(input) \in Nat /\ DOMAIN input = 1 .. Len(input)
         /\ input \in Seq(Range(input))
         /\ \A i \in 1 .. Len(input) : IsCommand(input[i])
<1>1. input \in Inputs /\ input \in Seq(Range(input))
  BY InputsAssumption DEF IInv, Types
<1>2. Len(input) \in Nat /\ DOMAIN input = 1 .. Len(input)
  BY <1>1
<1>3. \A i \in DOMAIN input : IsCommand(input[i])
  BY <1>1, InputsAssumption DEF IsCommand
<1> QED
  BY <1>1, <1>2, <1>3

\* Only the shell's process has execs to run.
LEMMA NextCommand ==
  ASSUME IInv, pcb_has_next_instruction(current)
  PROVE  LET c == linememory[current.line_base + current.pc].cmd
         IN  /\ current \in Live /\ current # NoPCB
             /\ IsCommand(c)
             /\ c.op = "exec" => /\ current.name = Shell /\ background
                                /\ \E i \in DOMAIN input : c = input[i]
<1> DEFINE n == current.line_base + current.pc
           c == linememory[n].cmd
           k == current.pc + 1
<1>1. current # NoPCB /\ current \in Live
  BY LiveProcesses DEF pcb_has_next_instruction, NoPCB
<1>2. /\ current.line_base \in Nat /\ current.pc \in Nat
      /\ current.line_count \in Nat /\ current.pc < current.line_count
      /\ current.name \in Programs \union {Shell}
  BY DEF pcb_has_next_instruction, IInv, Types, PCBs
<1>3. n \in LinesOf(current) /\ n - current.line_base + 1 = k
      /\ k \in 1 .. current.line_count
  BY <1>2 DEF LinesOf
<1> HIDE DEF n, k
<1>4. c = SourceOf(current)[k] /\ Len(SourceOf(current)) = current.line_count
  <2>1. /\ Len(SourceOf(current)) = current.line_count
        /\ linememory[n] = [pid |-> current.pid,
                            cmd |-> SourceOf(current)[n - current.line_base + 1]]
    BY <1>1, <1>3 DEF IInv, OwnsItsLines
  <2> QED
    BY <1>3, <2>1
<1> HIDE DEF c
<1>5. CASE current.name = Shell
  <2> DEFINE lc == current.line_count
             N == Len(input)
  <2>1. background /\ lc <= N /\ N \in Nat
    BY <1>1, <1>5, InputCommands DEF IInv, Phases
  <2>2. SourceOf(current) = SubSeq(input, N - lc + 1, N)
    BY <1>5 DEF SourceOf
  <2>3. SubSeq(input, N - lc + 1, N)[k] = input[N - lc + k] /\ N - lc + k \in 1 .. N
    <3>1. k \in Int /\ 1 <= k /\ k <= lc /\ lc \in Nat
      BY <1>2, <1>3
    <3>2. k \in 1 .. (N - (N - lc + 1) + 1) /\ (N - lc + 1) + k - 1 = N - lc + k
      BY <2>1, <3>1
    <3>3. input \in Seq(Range(input))
      BY InputCommands
    <3> HIDE DEF N, lc
    <3> QED
      BY <2>1, <3>1, <3>2, <3>3
  <2>4. IsCommand(c) /\ \E i \in DOMAIN input : c = input[i]
    BY <1>4, <2>2, <2>3, InputCommands
  <2> QED
    BY <1>1, <1>5, <2>1, <2>4 DEF n, c
<1>6. CASE current.name \in Programs
  <2>1. SourceOf(current) = Text[current.name]
    BY <1>6, ShellAssumption DEF SourceOf
  <2>2. Text[current.name] \in Seq({Other, QuitCmd})
    BY <1>6, ScriptsAssumption
  <2>3. c \in {Other, QuitCmd}
    BY <1>3, <1>4, <2>1, <2>2
  <2> QED
    BY <1>1, <2>3 DEF n, c, IsCommand, Other, QuitCmd
<1> QED
  BY <1>2, <1>5, <1>6

\* An exec at the prompt, with nothing alive.
LEMMA OpenIInv ==
  ASSUME IInv, NEW c, IsCommand(c), c.op = "exec", OpenQueue(c),
         status = "prompt", read' \in 0 .. Len(input),
         UNCHANGED <<input, schedule, current, steps>>
  PROVE  IInv'
<1>1. c.progs \in Seq(Programs) /\ c.hash \in BOOLEAN
  BY DEF IsCommand, Other, QuitCmd
<1>2. current = NoPCB /\ queue = <<>>
  BY DEF IInv, Phases
<1>3. /\ status' = "loading" /\ queue' = <<>> /\ hasQueue' = TRUE
      /\ call' = [progs |-> c.progs, shell |-> c.hash, nested |-> FALSE]
      /\ background' = (background \/ c.hash) /\ ~background
      /\ policy' \in Policies /\ next_free_line' = 0
      /\ UNCHANGED <<linememory, fresh_pid>>
  BY DEF OpenQueue, AcceptExec
<1>4. Live = {} /\ Live' = {}
  BY <1>2, <1>3 DEF Live, Range
<1>5. background' \in BOOLEAN /\ (c.hash => background')
  BY <1>1, <1>3, Zenon DEF IInv, Types
<1>6. Types'
  <2>1. hasQueue' \in BOOLEAN
    BY <1>3, Zenon
  <2>2. call' \in [progs : Seq(Programs), shell : BOOLEAN, nested : BOOLEAN]
    BY <1>1, <1>3
  <2>3. next_free_line' \in 0 .. MEM_SIZE
    BY <1>3, MemoryAssumption
  <2>4. queue' \in Seq(PCBs)
    BY <1>3
  <2> QED
    BY <1>3, <1>5, <2>1, <2>2, <2>3, <2>4 DEF IInv, Types
<1>7. ProcessesApart'
  BY <1>2, <1>3 DEF ProcessesApart
<1>8. Phases'
  BY <1>2, <1>3, <1>4, <1>5 DEF Phases, NoPCB
<1>9. OwnsItsLines'
  BY <1>3, <1>4 DEF IInv, OwnsItsLines
<1> QED
  BY <1>4, <1>6, <1>7, <1>8, <1>9 DEF IInv

LEMMA ReadLineIInv ==
  ASSUME IInv, ReadLine
  PROVE  IInv'
<1>1. /\ status = "prompt" /\ read \in 0 .. Len(input) /\ Len(input) \in Nat
      /\ read' \in 0 .. Len(input) /\ read + 1 \in 1 .. Len(input)
      /\ Execute(input[read + 1])
      /\ UNCHANGED <<input, schedule, current, steps>>
  BY InputCommands DEF ReadLine, IInv, Types
<1>2. IsCommand(input[read + 1])
  BY <1>1, InputCommands
<1>3. CASE PlainCommand
  <2>1. Live' = Live
    BY <1>1, <1>3 DEF PlainCommand, Live
  <2>2. Types'
    BY <1>1, <1>3 DEF PlainCommand, IInv, Types
  <2>3. \A p \in Live' : WellFormed(p)'
    BY <1>3, <2>1 DEF PlainCommand, IInv, WellFormed
  <2>4. ProcessesApart'
    BY <1>1, <1>3 DEF PlainCommand, IInv, ProcessesApart
  <2>5. Phases'
    BY <1>1, <1>3, <2>1 DEF PlainCommand, IInv, Phases
  <2>6. OwnsItsLines'
    BY <1>1, <1>3, <2>1, OwnersUnchanged DEF PlainCommand, IInv, SameProcess
  <2> QED
    BY <2>2, <2>3, <2>4, <2>5, <2>6 DEF IInv
<1>4. CASE OpenQueue(input[read + 1]) /\ input[read + 1].op = "exec"
  BY <1>1, <1>2, <1>4, OpenIInv
<1>5. CASE JoinQueue(input[read + 1])
  BY <1>1, <1>5 DEF JoinQueue, IInv, Phases
<1> QED
  BY <1>1, <1>2, <1>3, <1>4, <1>5, ExecuteEffect

LEMMA RunLineIInv ==
  ASSUME IInv, RunLine
  PROVE  IInv'
<1> DEFINE cmd == linememory[current.line_base + current.pc].cmd
<1>1. /\ status = "running" /\ steps > 0 /\ pcb_has_next_instruction(current)
      /\ steps' = steps - 1
      /\ current' = [current EXCEPT !.pc = current.pc + 1]
      /\ Execute(cmd)
      /\ UNCHANGED <<input, read, schedule>>
  BY DEF RunLine
<1>2. /\ current \in Live /\ current # NoPCB /\ IsCommand(cmd)
      /\ cmd.op = "exec" => current.name = Shell /\ background
  BY <1>1, NextCommand
<1> HIDE DEF cmd
<1>3. /\ current \in PCBs /\ current.pc \in Nat /\ current.line_count \in Nat
      /\ current.pc < current.line_count /\ steps' \in Nat
      /\ current.pid # 0
  BY <1>1, <1>2 DEF pcb_has_next_instruction, IInv, Types, PCBs, WellFormed
<1>4. /\ current' \in PCBs /\ current' # NoPCB
      /\ SameProcess(current, current')
      /\ current'.pc = current.pc + 1 /\ current'.duration = current.duration
  BY <1>1, <1>3 DEF PCBs, SameProcess, NoPCB
<1>5. ASSUME UNCHANGED <<queue, linememory, next_free_line, fresh_pid>>
      PROVE  /\ \A p \in Live' : WellFormed(p)' /\ \E o \in Live : SameProcess(o, p)
             /\ ProcessesApart'
             /\ OwnsItsLines'
  <2>1. \A p \in Live' : p \in Live \/ p = current'
    BY <1>4, <1>5 DEF Live
  <2>2. \A p \in Live : p \in Live' \/ p = current
    BY <1>5 DEF Live
  <2>3. current' \in Live'
    BY <1>4 DEF Live
  <2>4. ASSUME NEW p \in Live' PROVE WellFormed(p)'
    <3>1. WellFormed(current)
      BY <1>2 DEF IInv
    <3>2. ASSUME NEW o, o = current' PROVE WellFormed(o)'
      BY <1>3, <1>4, <1>5, <3>1, <3>2 DEF WellFormed, SameProcess
    <3>3. ASSUME p \in Live PROVE WellFormed(p)'
      BY <1>5, <3>3 DEF WellFormed, IInv
    <3> QED
      BY <2>1, <3>2, <3>3
  <2>5. \A o : SameProcess(o, o)
    BY DEF SameProcess
  <2>6. \A p \in Live' : \E o \in Live : SameProcess(o, p)
    BY <1>2, <1>4, <2>1, <2>5
  <2>7. \A o \in Live : \E p \in Live' : SameProcess(o, p)
    BY <1>4, <2>2, <2>3, <2>5
  <2>8. ProcessesApart'
    BY <1>2, <1>4, <1>5 DEF IInv, ProcessesApart, Apart, SameProcess
  <2>9. OwnsItsLines'
    BY <1>1, <1>5, <2>6, <2>7, OwnersUnchanged DEF IInv
  <2> QED
    BY <2>4, <2>6, <2>8, <2>9
<1>6. CASE PlainCommand
  <2>1. Types'
    BY <1>1, <1>3, <1>4, <1>6 DEF PlainCommand, IInv, Types
  <2>2. Phases'
    <3>1. /\ status' \in {"running", "exited", "crashed"} /\ UNCHANGED <<call, input>>
          /\ call = NoCall /\ (background => background')
      BY <1>1, <1>6 DEF PlainCommand, IInv, Phases
    <3>2. ~call.shell
      BY <3>1 DEF NoCall
    <3>3. \A p \in Live' : p.name = Shell => background' /\ p.line_count <= Len(input)'
      BY <1>5, <1>6, <3>1 DEF PlainCommand, IInv, Phases, SameProcess
    <3> QED
      BY <3>1, <3>2, <3>3 DEF Phases
  <2> QED
    BY <1>5, <1>6, <2>1, <2>2 DEF PlainCommand, IInv
<1>7. CASE cmd.op = "exec" /\ JoinQueue(cmd)
  <2>1. /\ cmd.progs \in Seq(Programs) /\ cmd.hash \in BOOLEAN
    BY <1>2, <1>7 DEF IsCommand, Other, QuitCmd
  <2>2. /\ status' = "loading" /\ background /\ policy' \in Policies
        /\ call' = [progs |-> cmd.progs, shell |-> FALSE, nested |-> TRUE]
        /\ background' = (background \/ cmd.hash)
        /\ UNCHANGED <<hasQueue, queue, linememory, next_free_line, fresh_pid>>
    BY <1>7 DEF JoinQueue, AcceptExec, store
  <2>3. background' = TRUE
    BY <2>1, <2>2, Zenon DEF IInv, Types
  <2>4. call' \in [progs : Seq(Programs), shell : BOOLEAN, nested : BOOLEAN]
    BY <2>1, <2>2
  <2>5. background' \in BOOLEAN
    BY <2>3, Zenon
  <2>6. Types'
    BY <1>1, <1>3, <1>4, <2>2, <2>4, <2>5 DEF IInv, Types
  <2>7. Phases'
    <3>1. current'.name = Shell
      BY <1>2, <1>4, <1>7 DEF SameProcess
    <3>2. \A p \in Live' : p.name = Shell => p.line_count <= Len(input)'
      BY <1>1, <1>5, <2>2 DEF IInv, Phases, SameProcess
    <3> QED
      BY <2>2, <2>3, <3>1, <3>2 DEF Phases
  <2> QED
    BY <1>5, <2>2, <2>6, <2>7 DEF IInv
<1>8. CASE cmd.op = "exec" /\ OpenQueue(cmd)
  BY <1>2, <1>8 DEF OpenQueue
<1> QED
  BY <1>1, <1>2, <1>6, <1>7, <1>8, ExecuteEffect

-----------------------------------------------------------------------------
(* The loading of scripts, and of the shell's process.                     *)

LEMMA ReleaseIInv ==
  ASSUME IInv, ReleaseQueue, current = NoPCB,
         UNCHANGED <<input, read, background, schedule, current, next_free_line,
                     fresh_pid>>,
         steps' \in Nat
  PROVE  IInv'
<1>1. /\ status' = "prompt" /\ call' = NoCall /\ queue' = <<>>
      /\ hasQueue' = FALSE /\ policy' = NoPolicy
      /\ linememory' = free_pcbs(Range(queue))
  BY DEF ReleaseQueue
<1>2. Live = Range(queue) /\ Live' = {}
  <2>1. Live = Range(queue)
    BY DEF Live
  <2>2. Live' = {}
    BY <1>1 DEF Live, Range
  <2> QED
    BY <2>1, <2>2
<1>3. OwnsItsLines' /\ DOMAIN linememory' = 0 .. MEM_SIZE - 1
  <2>1. Live' = Live \ Range(queue)
    BY <1>2
  <2> QED
    BY <1>1, <1>2, <2>1, FreeProcess
<1>4. Types'
  <2>1. hasQueue' \in BOOLEAN
    BY <1>1, Zenon
  <2>2. call' \in [progs : Seq(Programs), shell : BOOLEAN, nested : BOOLEAN]
    BY <1>1 DEF NoCall
  <2>3. queue' \in Seq(PCBs)
    BY <1>1
  <2> QED
    BY <1>1, <1>3, <2>1, <2>2, <2>3 DEF IInv, Types
<1>5. ProcessesApart' /\ Phases'
  BY <1>1, <1>2 DEF ProcessesApart, Phases, NoCall
<1> QED
  BY <1>2, <1>3, <1>4, <1>5 DEF IInv

\* A process enters the queue under a name and a pid of its own.
LEMMA EnqueueNew ==
  ASSUME IInv, NEW r \in Seq(PCBs), NEW p \in PCBs, Added(r, queue, p),
         \A o \in Live : Apart(o, p),
         queue' = r, UNCHANGED current
  PROVE  ProcessesApart' /\ Live' = Live \union {p}
<1>1. queue \in Seq(PCBs)
  BY DEF IInv, Types
<1>2. Range(r) = Range(queue) \union {p}
  BY <1>1, AddedRange
<1>3. Live' = Live \union {p}
  BY <1>2 DEF Live
<1>4. \A i \in DOMAIN queue : Apart(queue[i], p)
  BY LiveProcesses
<1>5. \A i, j \in DOMAIN r : i # j => Apart(r[i], r[j])
  BY <1>1, <1>4, AddedApart DEF IInv, ProcessesApart
<1>6. ASSUME current # NoPCB, NEW i \in DOMAIN r PROVE Apart(r[i], current)
  <2>1. r[i] \in Range(queue) \union {p}
    BY <1>2 DEF Range
  <2>2. Apart(current, p)
    BY <1>6, LiveProcesses
  <2>3. \A o \in Range(queue) : Apart(o, current)
    BY <1>6 DEF Range, IInv, ProcessesApart
  <2> QED
    BY <2>1, <2>2, <2>3 DEF Apart
<1> QED
  BY <1>3, <1>5, <1>6 DEF ProcessesApart

LEMMA FreshPid ==
  ASSUME IInv, NEW name \in Programs \union {Shell}, NEW S, NEW text \in Seq(S)
  PROVE  /\ NewPCB(name, text) \in PCBs
         /\ NewPCB(name, text).name = name
         /\ NewPCB(name, text).line_count = Len(text)
         /\ \A o \in Live : o.pid # NewPCB(name, text).pid
<1>1. fresh_pid \in Nat \ {0} /\ next_free_line \in Nat /\ Len(text) \in Nat
  BY MemoryAssumption DEF IInv, Types
<1>2. \A o \in Live : o.pid # fresh_pid
  BY <1>1 DEF IInv, WellFormed
<1> QED
  BY <1>1, <1>2 DEF NewPCB, PCBs

LEMMA LoadProgramIInv ==
  ASSUME IInv, LoadProgram
  PROVE  IInv'
<1> DEFINE name == Head(call.progs)
           text == Text[name]
<1>1. /\ status = "loading" /\ call.progs # <<>>
      /\ ~Scheduled(name) /\ ~OutOfMemory(Len(text))
      /\ StoreLines(text)
      /\ queue' = Enqueue(policy, queue, NewPCB(name, text))
      /\ call' = [call EXCEPT !.progs = Tail(call.progs)]
      /\ UNCHANGED <<input, read, status, background, policy, schedule,
                     hasQueue, current, steps>>
  BY DEF LoadProgram, NextText
<1>2. call.progs \in Seq(Programs) /\ queue \in Seq(PCBs)
  BY DEF IInv, Types
<1>3. name \in Programs /\ Tail(call.progs) \in Seq(Programs)
  BY <1>1, <1>2
<1>4. text \in Seq({Other, QuitCmd}) /\ name # Shell
  BY <1>3, ScriptsAssumption, ShellAssumption
<1> HIDE DEF name
<1>5. PICK p : p = NewPCB(name, text)
  OBVIOUS
<1>6. /\ p \in PCBs /\ p.name = name /\ p.line_count = Len(text)
      /\ \A o \in Live : o.pid # p.pid
  BY <1>3, <1>4, <1>5, FreshPid
<1>7. \A o \in Live : o.name # name
  <2>1. current.name = Shell
    BY <1>1 DEF IInv, Phases
  <2> QED
    BY <1>1, <1>4, <2>1, LiveProcesses DEF Scheduled
<1>8. PICK r \in Seq(PCBs) : r = Enqueue(policy, queue, p) /\ Added(r, queue, p)
  BY <1>2, <1>6, EnqueueAdds
<1>9. ProcessesApart' /\ Live' = Live \union {p}
  <2>1. \A o \in Live : Apart(o, p)
    BY <1>6, <1>7 DEF Apart
  <2>2. queue' = r
    BY <1>1, <1>5, <1>8
  <2> QED
    BY <1>1, <1>6, <1>8, <2>1, <2>2, EnqueueNew
<1>10. SourceOf(p) = text
  BY <1>4, <1>6 DEF SourceOf
<1>11. /\ next_free_line' \in 0 .. MEM_SIZE
       /\ fresh_pid' \in Nat \ {0}
       /\ DOMAIN linememory' = 0 .. MEM_SIZE - 1
       /\ \A o \in Live' : WellFormed(o)'
       /\ OwnsItsLines'
  <2>1. SourceOf(NewPCB(name, text)) = text /\ Live' = Live \union {NewPCB(name, text)}
    BY <1>5, <1>9, <1>10
  <2> QED
    BY <1>1, <1>3, <1>4, <2>1, LoadProcess
<1>12. Types'
  <2>1. call' \in [progs : Seq(Programs), shell : BOOLEAN, nested : BOOLEAN]
    BY <1>1, <1>3 DEF IInv, Types
  <2>2. queue' \in Seq(PCBs)
    BY <1>1, <1>5, <1>8
  <2> QED
    BY <1>1, <1>11, <2>1, <2>2 DEF IInv, Types
<1>13. Phases'
  <2>1. call'.shell = call.shell /\ call'.nested = call.nested
    BY <1>1 DEF IInv, Types
  <2>2. p.name # Shell
    BY <1>4, <1>6
  <2> QED
    BY <1>1, <1>9, <2>1, <2>2 DEF IInv, Phases
<1> QED
  BY <1>9, <1>11, <1>12, <1>13 DEF IInv

LEMMA LoadShellIInv ==
  ASSUME IInv, LoadShell
  PROVE  IInv'
<1> DEFINE text == RestOfInput
<1>1. /\ status = "loading" /\ call.shell
      /\ ~OutOfMemory(Len(text))
      /\ StoreLines(text)
      /\ queue' = enqueue_ignoring_priority(queue, NewPCB(Shell, text))
      /\ read' = Len(input)
      /\ call' = [call EXCEPT !.shell = FALSE]
      /\ UNCHANGED <<input, status, background, policy, schedule, hasQueue,
                     current, steps>>
  BY DEF LoadShell
<1>2. /\ queue \in Seq(PCBs) /\ read \in 0 .. Len(input) /\ Len(input) \in Nat
      /\ input \in Seq(Range(input))
  BY InputCommands DEF IInv, Types
<1>3. /\ text \in Seq(Range(input))
      /\ Len(text) = Len(input) - read
      /\ text = SubSeq(input, Len(input) - Len(text) + 1, Len(input))
  <2>1. /\ text \in Seq(Range(input)) /\ Len(text) = Len(input) - read
    BY <1>2 DEF RestOfInput
  <2>2. Len(input) - (Len(input) - read) + 1 = read + 1
    BY <1>2
  <2> QED
    BY <2>1, <2>2 DEF RestOfInput
<1> HIDE DEF text
<1>5. PICK p : p = NewPCB(Shell, text)
  OBVIOUS
<1>6. /\ p \in PCBs /\ p.name = Shell /\ p.line_count = Len(text)
      /\ \A o \in Live : o.pid # p.pid
  BY <1>3, <1>5, FreshPid
<1>7. background /\ \A o \in Live : o.name # Shell
  BY <1>1 DEF IInv, Phases
<1>8. PICK r \in Seq(PCBs) :
        r = enqueue_ignoring_priority(queue, p) /\ Added(r, queue, p)
  <2>1. Len(queue) \in Nat /\ 1 \in 1 .. Len(queue) + 1
    BY <1>2
  <2> QED
    BY <1>2, <1>6, <2>1, EnqueueFirstAdds DEF Added
<1>9. ProcessesApart' /\ Live' = Live \union {p}
  <2>1. \A o \in Live : Apart(o, p)
    BY <1>6, <1>7 DEF Apart
  <2>2. queue' = r
    BY <1>1, <1>5, <1>8
  <2> QED
    BY <1>1, <1>6, <1>8, <2>1, <2>2, EnqueueNew
<1>10. SourceOf(p) = text
  BY <1>3, <1>6 DEF SourceOf
<1>11. /\ next_free_line' \in 0 .. MEM_SIZE
       /\ fresh_pid' \in Nat \ {0}
       /\ DOMAIN linememory' = 0 .. MEM_SIZE - 1
       /\ \A o \in Live' : WellFormed(o)'
       /\ OwnsItsLines'
  <2>1. SourceOf(NewPCB(Shell, text)) = text /\ Live' = Live \union {NewPCB(Shell, text)}
    BY <1>5, <1>9, <1>10
  <2> QED
    BY <1>1, <1>3, <2>1, LoadProcess
<1>12. Types'
  <2>1. call' \in [progs : Seq(Programs), shell : BOOLEAN, nested : BOOLEAN]
    BY <1>1 DEF IInv, Types
  <2>2. queue' \in Seq(PCBs)
    BY <1>1, <1>5, <1>8
  <2>3. read' \in 0 .. Len(input)
    BY <1>1, <1>2
  <2> QED
    BY <1>1, <1>11, <2>1, <2>2, <2>3 DEF IInv, Types
<1>13. Phases'
  <2>1. call'.shell = FALSE /\ call'.nested = call.nested
    BY <1>1 DEF IInv, Types
  <2>2. p.line_count <= Len(input)
    BY <1>2, <1>3, <1>6
  <2> QED
    BY <1>1, <1>7, <1>9, <2>1, <2>2 DEF IInv, Phases
<1> QED
  BY <1>9, <1>11, <1>12, <1>13 DEF IInv

\* A step that moves the thread and nothing else.
LEMMA NothingMoves ==
  ASSUME IInv, UNCHANGED <<input, queue, current, linememory, next_free_line,
                           fresh_pid>>,
         Types', Phases'
  PROVE  IInv'
<1>1. Live' = Live
  BY DEF Live
<1>2. \A p \in Live' : WellFormed(p)'
  BY <1>1 DEF IInv, WellFormed
<1>3. ProcessesApart'
  BY DEF IInv, ProcessesApart
<1>4. OwnsItsLines'
  BY <1>1, OwnersUnchanged DEF IInv, SameProcess
<1> QED
  BY <1>2, <1>3, <1>4 DEF IInv

LEMMA LoadingEndsIInv ==
  ASSUME IInv, LoadProgramOutOfMemory \/ LoadShellOutOfMemory \/ EndOfLoading
  PROVE  IInv'
<1>1. /\ status = "loading" /\ status' \in {"crashed", "running"}
      /\ UNCHANGED <<input, read, background, policy, hasQueue, queue, current,
                     steps, linememory, next_free_line, fresh_pid>>
      /\ \/ status' = "crashed" /\ UNCHANGED <<call, schedule>>
         \/ status' = "running" /\ call' = NoCall /\ schedule' \in {schedule, policy}
  BY DEF LoadProgramOutOfMemory, LoadShellOutOfMemory, EndOfLoading, store
<1>2. Live' = Live
  BY <1>1 DEF Live
<1>3. NoCall \in [progs : Seq(Programs), shell : BOOLEAN, nested : BOOLEAN]
      /\ ~NoCall.shell
  BY DEF NoCall
<1>4. Types'
  BY <1>1, <1>3 DEF IInv, Types
<1>5. Phases'
  BY <1>1, <1>2, <1>3 DEF IInv, Phases
<1> QED
  BY <1>1, <1>4, <1>5, NothingMoves

LEMMA CleanupIInv ==
  ASSUME IInv, Cleanup
  PROVE  IInv'
<1>1. /\ status = "loading"
      /\ UNCHANGED <<input, read, background, schedule, current, steps,
                     next_free_line, fresh_pid>>
  BY DEF Cleanup
<1>2. CASE call.nested
  <2>1. /\ status' = "running" /\ call' = NoCall
        /\ UNCHANGED <<linememory, queue, hasQueue, policy>>
    BY <1>2 DEF Cleanup
  <2>2. Live' = Live
    BY <1>1, <2>1 DEF Live
  <2>3. NoCall \in [progs : Seq(Programs), shell : BOOLEAN, nested : BOOLEAN]
        /\ ~NoCall.shell
    BY DEF NoCall
  <2>4. Types'
    BY <1>1, <2>1, <2>3 DEF IInv, Types
  <2>5. Phases'
    BY <1>1, <2>1, <2>2, <2>3 DEF IInv, Phases
  <2> QED
    BY <1>1, <2>1, <2>4, <2>5, NothingMoves
<1>3. CASE ~call.nested
  <2>1. ReleaseQueue
    BY <1>3 DEF Cleanup
  <2>2. current = NoPCB
    BY <1>1, <1>3 DEF IInv, Phases
  <2>3. steps' \in Nat
    BY <1>1 DEF IInv, Types
  <2> QED
    BY <1>1, <2>1, <2>2, <2>3, ReleaseIInv
<1> QED
  BY <1>2, <1>3

-----------------------------------------------------------------------------
(* runSchedule.                                                            *)

\* p is o, perhaps aged.
Survives(o, p) ==
  /\ SameProcess(o, p)
  /\ p.pc = o.pc
  /\ p.duration \in Nat /\ p.duration <= o.duration

LEMMA DequeueKeeps ==
  ASSUME NEW q \in Seq(PCBs), q # <<>>, NEW pol
  PROVE  /\ AfterDequeue(pol, q) \in Seq(PCBs)
         /\ DOMAIN AfterDequeue(pol, q) = 1 .. Len(q) - 1
         /\ \A i \in 1 .. Len(q) - 1 : Survives(q[i + 1], AfterDequeue(pol, q)[i])
<1>1. /\ Len(q) \in Nat /\ Tail(q) \in Seq(PCBs) /\ Len(Tail(q)) = Len(q) - 1
      /\ DOMAIN Tail(q) = 1 .. Len(q) - 1
      /\ \A i \in 1 .. Len(q) - 1 : Tail(q)[i] = q[i + 1] /\ q[i + 1] \in PCBs
  OBVIOUS
<1>2. \A o \in PCBs : Survives(o, o)
  BY DEF Survives, SameProcess, PCBs
<1>3. \A o \in PCBs : Aged(o) \in PCBs /\ Survives(o, Aged(o))
  <2> SUFFICES ASSUME NEW o \in PCBs
               PROVE  Aged(o) \in PCBs /\ Survives(o, Aged(o))
    OBVIOUS
  <2> DEFINE d == IF o.duration > 0 THEN o.duration - 1 ELSE 0
  <2>1. o.duration \in Nat /\ d \in Nat /\ d <= o.duration
    <3>1. o.duration \in Nat
      BY DEF PCBs
    <3>2. \A n \in Nat : LET m == IF n > 0 THEN n - 1 ELSE 0
                        IN  m \in Nat /\ m <= n
      OBVIOUS
    <3> QED
      BY <3>1, <3>2
  <2>2. Aged(o) = [o EXCEPT !.duration = d]
    BY DEF Aged
  <2> HIDE DEF d
  <2> QED
    BY <2>1, <2>2 DEF Survives, SameProcess, PCBs
<1>4. CASE pol = "AGING"
  <2> DEFINE t == Tail(q)
             r == [i \in DOMAIN t |-> Aged(t[i])]
  <2>1. AfterDequeue(pol, q) = r
    BY <1>4 DEF AfterDequeue
  <2>2. DOMAIN r = 1 .. Len(q) - 1 /\ \A i \in 1 .. Len(q) - 1 : r[i] = Aged(q[i + 1])
    BY <1>1
  <2>3. r \in Seq(PCBs)
    <3>1. \A i \in DOMAIN t : t[i] \in PCBs
      BY <1>1
    <3>2. DOMAIN t = 1 .. Len(t) /\ Len(t) \in Nat
      BY <1>1
    <3> HIDE DEF t
    <3>3. r \in [1 .. Len(t) -> PCBs]
      BY <1>3, <3>1, <3>2
    <3> QED
      BY <3>2, <3>3
  <2> HIDE DEF r
  <2> QED
    BY <1>1, <1>3, <2>1, <2>2, <2>3
<1>5. CASE pol # "AGING"
  BY <1>1, <1>2, <1>5 DEF AfterDequeue
<1> QED
  BY <1>4, <1>5

LEMMA DispatchIInv ==
  ASSUME IInv, Dispatch
  PROVE  IInv'
<1> DEFINE r == AfterDequeue(schedule, queue)
<1>1. /\ status = "running" /\ current = NoPCB /\ queue # <<>>
      /\ current' = Head(queue) /\ queue' = r
      /\ steps' = Slice(schedule, Head(queue))
      /\ UNCHANGED <<input, read, status, call, background, policy, schedule,
                     hasQueue, linememory, next_free_line, fresh_pid>>
  BY DEF Dispatch, store
<1>2. /\ queue \in Seq(PCBs) /\ Len(queue) \in Nat /\ Len(queue) >= 1
      /\ DOMAIN queue = 1 .. Len(queue) /\ Head(queue) = queue[1]
  BY <1>1 DEF IInv, Types
<1>3. /\ r \in Seq(PCBs) /\ DOMAIN r = 1 .. Len(queue) - 1
      /\ \A i \in 1 .. Len(queue) - 1 : Survives(queue[i + 1], r[i])
  BY <1>1, <1>2, DequeueKeeps
<1> HIDE DEF r
<1>4. /\ queue[1] \in PCBs /\ queue[1] # NoPCB
      /\ Survives(queue[1], queue[1])
  BY <1>2, LiveProcesses DEF Survives, SameProcess, PCBs
<1>5. \A i \in DOMAIN r : i + 1 \in DOMAIN queue /\ i + 1 # 1
  BY <1>2, <1>3
<1>6. \A i \in DOMAIN queue : i = 1 \/ i - 1 \in DOMAIN r
  BY <1>2, <1>3
<1>7. \A p \in Live' : \E o \in Live : Survives(o, p)
  <2>1. ASSUME NEW p \in Live'
        PROVE  p = queue[1] \/ \E i \in DOMAIN r : p = r[i]
    BY <1>1, <1>2 DEF Live, Range
  <2>2. \A i \in DOMAIN queue : queue[i] \in Live
    BY LiveProcesses
  <2> QED
    BY <1>2, <1>3, <1>4, <1>5, <2>1, <2>2
<1>8. \A o \in Live : \E p \in Live' : SameProcess(o, p)
  <2>1. ASSUME NEW o \in Live PROVE \E i \in DOMAIN queue : queue[i] = o
    BY <1>1, LiveProcesses
  <2>2. queue[1] \in Live'
    BY <1>1, <1>2, <1>4 DEF Live
  <2>3. \A i \in DOMAIN r : r[i] \in Live'
    BY <1>1 DEF Live, Range
  <2>4. \A i \in DOMAIN queue : i # 1 => SameProcess(queue[i], r[i - 1])
    <3>1. \A i \in DOMAIN queue : (i - 1) + 1 = i
      BY <1>2
    <3> QED
      BY <1>3, <1>6, <3>1 DEF Survives
  <2> QED
    BY <1>4, <1>6, <2>1, <2>2, <2>3, <2>4 DEF Survives
<1>9. \A p \in Live' : WellFormed(p)'
  <2>1. ASSUME NEW p \in Live' PROVE WellFormed(p)'
    <3>1. PICK o \in Live : Survives(o, p)
      BY <1>7
    <3>2. WellFormed(o)
      BY DEF IInv
    <3>3. p \in PCBs
      BY <1>1, <1>2, <1>3, <1>4 DEF Live, Range
    <3> QED
      BY <1>1, <3>1, <3>2, <3>3 DEF WellFormed, Survives, SameProcess, PCBs
  <2> QED
    BY <2>1
<1>10. ProcessesApart'
  <2>1. \A i, j \in DOMAIN queue : i # j => Apart(queue[i], queue[j])
    BY DEF IInv, ProcessesApart
  <2>2. \A i \in DOMAIN r : r[i].pid = queue[i + 1].pid /\ r[i].name = queue[i + 1].name
    BY <1>3 DEF Survives, SameProcess
  <2>3. \A i, j \in DOMAIN r : i # j => i + 1 # j + 1
    BY <1>3
  <2>4. \A i, j \in DOMAIN r : i # j => Apart(r[i], r[j])
    BY <1>5, <2>1, <2>2, <2>3 DEF Apart
  <2>5. \A i \in DOMAIN r : Apart(r[i], queue[1])
    BY <1>2, <1>5, <2>1, <2>2 DEF Apart
  <2> QED
    BY <1>1, <1>2, <2>4, <2>5 DEF ProcessesApart
<1>11. OwnsItsLines'
  BY <1>1, <1>7, <1>8, OwnersUnchanged DEF IInv, Survives
<1>12. Types'
  <2>1. current' \in PCBs /\ queue' \in Seq(PCBs)
    BY <1>1, <1>2, <1>3, <1>4
  <2>2. steps' \in Nat
    BY <1>1, <1>2, <1>4 DEF Slice, PCBs
  <2> QED
    BY <1>1, <2>1, <2>2 DEF IInv, Types
<1>13. Phases'
  <2>1. \A p \in Live' : p.name = Shell => background' /\ p.line_count <= Len(input)'
    BY <1>1, <1>7 DEF IInv, Phases, Survives, SameProcess
  <2>2. ~call.shell /\ call = NoCall
    BY <1>1 DEF IInv, Phases, NoCall
  <2> QED
    BY <1>1, <2>1, <2>2 DEF Phases
<1> QED
  BY <1>9, <1>10, <1>11, <1>12, <1>13 DEF IInv

LEMMA PutBackIInv ==
  ASSUME IInv, PutBack
  PROVE  IInv'
<1>1. /\ status = "running" /\ current # NoPCB
      /\ queue' = Enqueue(schedule, queue, current)
      /\ current' = NoPCB
      /\ UNCHANGED <<input, read, status, call, background, policy, schedule,
                     hasQueue, steps, linememory, next_free_line, fresh_pid>>
  BY DEF PutBack, store
<1>2. queue \in Seq(PCBs) /\ current \in PCBs
  BY DEF IInv, Types
<1>3. PICK r \in Seq(PCBs) :
        r = Enqueue(schedule, queue, current) /\ Added(r, queue, current)
  BY <1>2, EnqueueAdds
<1>4. Live' = Live
  <2>1. Range(r) = Range(queue) \union {current}
    BY <1>2, <1>3, AddedRange
  <2> QED
    BY <1>1, <1>3, <2>1 DEF Live
<1>5. ProcessesApart'
  <2>1. \A i \in DOMAIN queue : Apart(queue[i], current)
    BY <1>1 DEF IInv, ProcessesApart
  <2>2. \A i, j \in DOMAIN r : i # j => Apart(r[i], r[j])
    BY <1>2, <1>3, <2>1, AddedApart DEF IInv, ProcessesApart
  <2> QED
    BY <1>1, <1>3, <2>2 DEF ProcessesApart
<1>6. Types'
  <2>1. NoPCB \in PCBs
    BY DEF NoPCB, PCBs
  <2> QED
    BY <1>1, <1>3, <2>1 DEF IInv, Types
<1>7. Phases'
  BY <1>1, <1>4 DEF IInv, Phases
<1>8. OwnsItsLines'
  BY <1>1, <1>4, OwnersUnchanged DEF IInv, SameProcess
<1>9. \A p \in Live' : WellFormed(p)'
  BY <1>1, <1>4 DEF IInv, WellFormed
<1> QED
  BY <1>5, <1>6, <1>7, <1>8, <1>9 DEF IInv

LEMMA FinishProcessIInv ==
  ASSUME IInv, FinishProcess
  PROVE  IInv'
<1>1. /\ status = "running" /\ current # NoPCB
      /\ linememory' = free_pcbs({current})
      /\ current' = NoPCB /\ steps' = 0
      /\ UNCHANGED <<input, read, status, call, background, policy, schedule,
                     hasQueue, queue, next_free_line, fresh_pid>>
  BY DEF FinishProcess
<1>2. current \in Live /\ \A i \in DOMAIN queue : queue[i] # current
  BY <1>1, LiveProcesses DEF IInv, ProcessesApart, Apart
<1>3. Live' = Live \ {current}
  BY <1>1, <1>2 DEF Live, Range
<1>4. OwnsItsLines' /\ DOMAIN linememory' = 0 .. MEM_SIZE - 1
  <2>1. {current} \in SUBSET Live
    BY <1>2
  <2> QED
    BY <1>1, <1>3, <2>1, FreeProcess
<1>5. Types'
  <2>1. NoPCB \in PCBs
    BY DEF NoPCB, PCBs
  <2> QED
    BY <1>1, <1>4, <2>1 DEF IInv, Types
<1>6. ProcessesApart'
  BY <1>1 DEF IInv, ProcessesApart
<1>7. Phases'
  BY <1>1, <1>3 DEF IInv, Phases
<1>8. \A p \in Live' : WellFormed(p)'
  BY <1>1, <1>3 DEF IInv, WellFormed
<1> QED
  BY <1>4, <1>5, <1>6, <1>7, <1>8 DEF IInv

LEMMA ScheduleDoneIInv ==
  ASSUME IInv, ScheduleDone
  PROVE  IInv'
<1>1. /\ status = "running" /\ current = NoPCB
      /\ UNCHANGED <<input, read, background, schedule, current, steps,
                     next_free_line, fresh_pid>>
  BY DEF ScheduleDone
<1>2. CASE background
  <2>1. /\ status' = "exited"
        /\ UNCHANGED <<call, linememory, queue, hasQueue, policy>>
    BY <1>2 DEF ScheduleDone
  <2>2. Live' = Live
    BY <1>1, <2>1 DEF Live
  <2>3. Types'
    BY <1>1, <2>1 DEF IInv, Types
  <2>4. Phases'
    BY <1>1, <2>1, <2>2 DEF IInv, Phases
  <2> QED
    BY <1>1, <2>1, <2>3, <2>4, NothingMoves
<1>3. CASE ~background
  <2>1. ReleaseQueue
    BY <1>3 DEF ScheduleDone
  <2>2. steps' \in Nat
    BY <1>1 DEF IInv, Types
  <2> QED
    BY <1>1, <2>1, <2>2, ReleaseIInv
<1> QED
  BY <1>2, <1>3

-----------------------------------------------------------------------------
(* The order of the queue.                                                 *)

AllRanked(q) == \A i \in DOMAIN q : Ranked(q[i])

LEMMA AddedSorted ==
  ASSUME NEW q \in Seq(PCBs), NEW r \in Seq(PCBs), NEW p \in PCBs,
         NEW k \in 1 .. Len(q) + 1, AddedAt(r, q, p, k),
         Sorted(q), AllRanked(q),
         \A i \in 1 .. k - 1 : Precedes(q[i], p),
         \A i \in k .. Len(q) : Precedes(p, q[i])
  PROVE  Sorted(r)
<1>0. /\ Len(q) \in Nat /\ DOMAIN q = 1 .. Len(q) /\ DOMAIN r = 1 .. Len(r)
      /\ k \in Nat /\ k >= 1 /\ k <= Len(q) + 1
  OBVIOUS
<1>1. /\ Len(r) = Len(q) + 1
      /\ r[k] = p
      /\ \A i \in 1 .. k - 1 : r[i] = q[i]
      /\ \A i \in k + 1 .. Len(q) + 1 : r[i] = q[i - 1]
  BY DEF AddedAt
<1>2. \A i, j \in 1 .. Len(q) : i < j => Precedes(q[i], q[j])
  BY <1>0 DEF Sorted, AllRanked
<1>3. SUFFICES ASSUME NEW i \in 1 .. Len(q) + 1, NEW j \in 1 .. Len(q) + 1, i < j
               PROVE  Precedes(r[i], r[j])
  BY <1>0, <1>1 DEF Sorted
<1>4. CASE j < k
  <2>1. i \in 1 .. k - 1 /\ j \in 1 .. k - 1 /\ i \in 1 .. Len(q) /\ j \in 1 .. Len(q)
    BY <1>0, <1>3, <1>4
  <2> QED
    BY <1>1, <1>2, <1>3, <2>1
<1>5. CASE j = k
  <2>1. i \in 1 .. k - 1
    BY <1>0, <1>3, <1>5
  <2> QED
    BY <1>1, <1>5, <2>1
<1>6. CASE j > k
  <2>1. j \in k + 1 .. Len(q) + 1 /\ j - 1 \in k .. Len(q) /\ j - 1 \in 1 .. Len(q)
    BY <1>0, <1>3, <1>6
  <2>2. r[j] = q[j - 1]
    BY <1>1, <2>1
  <2>3. CASE i < k
    <3>1. i \in 1 .. k - 1 /\ i \in 1 .. Len(q) /\ i < j - 1
      BY <1>0, <1>3, <1>6, <2>3
    <3> QED
      BY <1>1, <1>2, <2>1, <2>2, <3>1
  <2>4. CASE i = k
    BY <1>1, <2>1, <2>2, <2>4
  <2>5. CASE i > k
    <3>1. i \in k + 1 .. Len(q) + 1 /\ i - 1 \in 1 .. Len(q) /\ i - 1 < j - 1
      BY <1>0, <1>3, <2>5
    <3> QED
      BY <1>1, <1>2, <2>1, <2>2, <3>1
  <2> QED
    BY <1>0, <1>3, <2>3, <2>4, <2>5
<1> QED
  BY <1>0, <1>3, <1>4, <1>5, <1>6

\* What a process that is enqueued by its duration must be like: one that has
\* run, or the youngest of all and not aged.
Enters(q, p) ==
  \/ p.pc # 0
  \/ /\ p.duration = p.line_count
     /\ \A i \in DOMAIN q : q[i].pid < p.pid /\ q[i].duration <= q[i].line_count

LEMMA SjfKeepsOrder ==
  ASSUME NEW q \in Seq(PCBs), NEW p \in PCBs, Sorted(q), AllRanked(q), Enters(q, p)
  PROVE  Sorted(enqueue_sjf(q, p))
<1>0. Len(q) \in Nat /\ DOMAIN q = 1 .. Len(q)
  OBVIOUS
<1>1. PICK k \in 1 .. Len(q) + 1 :
        /\ AddedAt(enqueue_sjf(q, p), q, p, k)
        /\ \A i \in 1 .. k - 1 : q[i].duration <= p.duration
        /\ k <= Len(q) => q[k].duration > p.duration
  BY EnqueueSjfAdds
<1>2. \A i \in DOMAIN q : /\ q[i].duration \in Nat /\ q[i].line_count \in Nat
                         /\ p.duration \in Nat
  <2>1. \A i \in DOMAIN q : q[i] \in PCBs
    OBVIOUS
  <2> QED
    BY <2>1 DEF PCBs
<1>3. ASSUME NEW i \in 1 .. k - 1 PROVE Precedes(q[i], p)
  <2>1. i \in DOMAIN q
    BY <1>0
  <2> QED
    BY <1>1, <2>1 DEF Precedes, Enters
<1>4. ASSUME NEW i \in k .. Len(q) PROVE Precedes(p, q[i])
  <2>1. i \in DOMAIN q /\ k \in DOMAIN q /\ k <= Len(q) /\ (k < i \/ k = i)
    BY <1>0
  <2>2. q[k].duration <= q[i].duration
    BY <1>2, <2>1 DEF Sorted, AllRanked, Precedes
  <2>3. p.duration < q[i].duration
    BY <1>1, <1>2, <2>1, <2>2
  <2>4. p.pc = 0 => q[i].line_count # p.line_count
    BY <1>2, <2>1, <2>3 DEF Enters
  <2> QED
    BY <1>2, <2>1, <2>3, <2>4 DEF Precedes
<1>5. enqueue_sjf(q, p) \in Seq(PCBs)
  BY EnqueueSjfAdds
<1> QED
  BY <1>1, <1>3, <1>4, <1>5, AddedSorted

LEMMA AgingKeepsOrder ==
  ASSUME NEW q \in Seq(PCBs), NEW p \in PCBs, Sorted(q), AllRanked(q), Enters(q, p)
  PROVE  Sorted(enqueue_aging(q, p))
<1>0. Len(q) \in Nat /\ DOMAIN q = 1 .. Len(q)
  OBVIOUS
<1>1. CASE q # <<>> /\ q[1].duration = p.duration /\ p.pc # 0
  <2> DEFINE r == enqueue_ignoring_priority(q, p)
  <2>1. r \in Seq(PCBs) /\ AddedAt(r, q, p, 1)
    BY EnqueueFirstAdds
  <2>2. \A i \in 1 .. 1 - 1 : FALSE
    OBVIOUS
  <2>3. ASSUME NEW i \in 1 .. Len(q) PROVE Precedes(p, q[i])
    <3>1. i \in DOMAIN q /\ 1 \in DOMAIN q /\ (i = 1 \/ 1 < i)
      BY <1>0
    <3>2. q[1].duration = p.duration /\ p.duration \in Nat /\ p.pc # 0
      BY <1>1 DEF PCBs
    <3>3. p.duration <= q[i].duration
      BY <3>1, <3>2 DEF Sorted, AllRanked, Precedes
    <3> QED
      BY <3>2, <3>3 DEF Precedes
  <2>4. 1 \in 1 .. Len(q) + 1
    BY <1>0
  <2> HIDE DEF r
  <2>5. Sorted(r)
    BY <2>1, <2>2, <2>3, <2>4, AddedSorted
  <2> QED
    BY <1>1, <2>5 DEF enqueue_aging, r
<1>2. CASE ~(q # <<>> /\ q[1].duration = p.duration /\ p.pc # 0)
  BY <1>2, SjfKeepsOrder DEF enqueue_aging
<1> QED
  BY <1>1, <1>2

LEMMA EnqueueKeepsOrder ==
  ASSUME NEW q \in Seq(PCBs), NEW p \in PCBs, Sorted(q), AllRanked(q), Enters(q, p),
         NEW pol \in {"SJF", "AGING"}
  PROVE  Sorted(Enqueue(pol, q, p))
BY SjfKeepsOrder, AgingKeepsOrder DEF Enqueue

\* The exec of a session that agrees on one policy keeps it.
LEMMA ExecPolicy ==
  ASSUME IInv, NEW c, IsCommand(c), Execute(c),
         c.op = "exec" => \E i \in DOMAIN input : c = input[i],
         NEW pol, AllAskFor(pol), Agreed(pol)
  PROVE  /\ c.op = "exec" /\ (OpenQueue(c) \/ JoinQueue(c)) =>
              policy' = pol /\ pol \in Policies
         /\ PlainCommand => /\ status' \in {status, "exited", "crashed"}
                            /\ status' = "running" => policy' = pol /\ pol \in Policies
<1>1. c.op = "exec" => c.policy = pol
  BY DEF AllAskFor
<1>2. c.op = "exec" /\ (OpenQueue(c) \/ JoinQueue(c)) => policy' = pol /\ pol \in Policies
  BY <1>1 DEF OpenQueue, JoinQueue, AcceptExec
<1>3. ASSUME PlainCommand, status' = "running"
      PROVE  policy' = pol /\ pol \in Policies
  <2>1. status = "running" /\ policy = pol /\ pol \in Policies
    BY <1>3 DEF PlainCommand, Agreed
  <2>2. CASE c.op = "exec" /\ RejectExec(c)
    BY <1>1, <2>1, <2>2 DEF RejectExec
  <2>3. CASE UNCHANGED policy
    BY <2>1, <2>3
  <2>4. CASE c.op = "exec" /\ (OpenQueue(c) \/ JoinQueue(c))
    BY <1>3, <2>4 DEF OpenQueue, JoinQueue
  <2>5. CASE ExecWithoutQueue(c)
    BY <1>3, <2>5 DEF ExecWithoutQueue
  <2> QED
    BY <2>2, <2>3, <2>4, <2>5 DEF Execute
<1> QED
  BY <1>2, <1>3 DEF PlainCommand

\* The policies over which Order quantifies, and what input they see.
LEMMA SameExecs ==
  ASSUME UNCHANGED input, NEW pol
  PROVE  AllAskFor(pol)' = AllAskFor(pol)
BY DEF AllAskFor

LEMMA ReadLineOrder ==
  ASSUME IInv, Order, ReadLine
  PROVE  Order'
<1> DEFINE c == input[read + 1]
<1>1. /\ status = "prompt" /\ read + 1 \in DOMAIN input /\ Execute(c) /\ IsCommand(c)
      /\ UNCHANGED <<input, schedule, current, steps>>
  BY InputCommands DEF ReadLine, IInv, Types
<1>2. queue = <<>> /\ current = NoPCB /\ ~hasQueue
  BY <1>1 DEF IInv, Phases
<1> HIDE DEF c
<1>3. PlainCommand \/ (c.op = "exec" /\ OpenQueue(c))
  BY <1>1, <1>2, ExecuteEffect DEF JoinQueue
<1>4. queue' = <<>> /\ current' = NoPCB
  BY <1>1, <1>2, <1>3 DEF PlainCommand, OpenQueue
<1>5. ASSUME NEW pol \in Policies \union {NoPolicy}, AllAskFor(pol)' PROVE Agreed(pol)'
  <2>1. AllAskFor(pol) /\ Agreed(pol)
    BY <1>1, <1>5, SameExecs DEF Order
  <2>2. c.op = "exec" => \E i \in DOMAIN input : c = input[i]
    BY <1>1 DEF c
  <2>3. /\ c.op = "exec" /\ OpenQueue(c) => policy' = pol /\ pol \in Policies
        /\ PlainCommand => status' \in {"prompt", "exited", "crashed"}
    BY <1>1, <2>1, <2>2, ExecPolicy
  <2>4. CASE PlainCommand
    BY <1>4, <2>3, <2>4 DEF Agreed, Sorted
  <2>5. CASE c.op = "exec" /\ OpenQueue(c)
    BY <1>4, <2>3, <2>5 DEF Agreed, Sorted, OpenQueue
  <2> QED
    BY <1>3, <2>4, <2>5
<1> QED
  BY <1>4, <1>5 DEF Order

LEMMA RunLineOrder ==
  ASSUME IInv, Order, RunLine
  PROVE  Order'
<1> DEFINE c == linememory[current.line_base + current.pc].cmd
<1>1. /\ status = "running" /\ pcb_has_next_instruction(current)
      /\ current' = [current EXCEPT !.pc = current.pc + 1]
      /\ Execute(c)
      /\ UNCHANGED <<input, read, schedule>>
  BY DEF RunLine
<1>2. /\ current # NoPCB /\ IsCommand(c)
      /\ c.op = "exec" => background /\ \E i \in DOMAIN input : c = input[i]
  BY <1>1, NextCommand
<1> HIDE DEF c
<1>3. current \in PCBs /\ current.pc \in Nat
  BY DEF IInv, Types, PCBs
<1>4. current'.pc # 0
  BY <1>1, <1>3 DEF PCBs
<1>5. PlainCommand \/ (c.op = "exec" /\ JoinQueue(c))
  BY <1>1, <1>2, ExecuteEffect DEF OpenQueue
<1>6. queue' = queue
  BY <1>5 DEF PlainCommand, JoinQueue
<1>7. AllRanked(queue)
  BY <1>2 DEF Order, AllRanked
<1>8. ASSUME NEW pol \in Policies \union {NoPolicy}, AllAskFor(pol)' PROVE Agreed(pol)'
  <2>1. AllAskFor(pol) /\ Agreed(pol)
    BY <1>1, <1>8, SameExecs DEF Order
  <2>2. schedule' = pol
    BY <1>1, <2>1 DEF Agreed
  <2>3. /\ c.op = "exec" /\ JoinQueue(c) => policy' = pol /\ pol \in Policies
        /\ PlainCommand => /\ status' \in {"running", "exited", "crashed"}
                           /\ status' = "running" => policy' = pol /\ pol \in Policies
    BY <1>1, <1>2, <2>1, ExecPolicy
  <2>4. pol \in {"SJF", "AGING"} => Sorted(queue)'
    BY <1>6, <2>1 DEF Agreed, Sorted
  <2>5. status' = "loading" => policy' = pol /\ pol \in Policies
    BY <1>5, <2>3
  <2>6. status' = "running" => policy' = pol /\ pol \in Policies
    BY <1>5, <2>3 DEF JoinQueue
  <2> QED
    BY <2>2, <2>4, <2>5, <2>6 DEF Agreed
<1> QED
  BY <1>4, <1>6, <1>7, <1>8 DEF Order, AllRanked, Ranked

LEMMA LoadProgramOrder ==
  ASSUME IInv, Order, LoadProgram
  PROVE  Order'
<1> DEFINE text == NextText
           p == NewPCB(Head(call.progs), text)
<1>1. /\ status = "loading" /\ call.progs # <<>>
      /\ queue' = Enqueue(policy, queue, p)
      /\ call' = [call EXCEPT !.progs = Tail(@)]
      /\ UNCHANGED <<input, status, policy, schedule, current, steps>>
  BY DEF LoadProgram
<1>2. call.progs \in Seq(Programs) /\ queue \in Seq(PCBs) /\ call'.nested = call.nested
  BY <1>1 DEF IInv, Types
<1>3. Head(call.progs) \in Programs
  BY <1>1, <1>2
<1>4. text \in Seq({Other, QuitCmd}) /\ Head(call.progs) # Shell
  BY <1>3, ScriptsAssumption, ShellAssumption DEF NextText
<1>5. p \in PCBs /\ p.name # Shell
  BY <1>3, <1>4, FreshPid
<1>6. AllRanked(queue)
  BY <1>1 DEF Order, AllRanked
<1>7. Enters(queue, p)
  <2>1. p.pid = fresh_pid /\ p.duration = p.line_count
    BY DEF NewPCB
  <2>2. \A i \in DOMAIN queue : queue[i] \in Live
    BY LiveProcesses
  <2>3. fresh_pid \in Nat
    BY DEF IInv, Types
  <2>4. \A o \in Live : o.pid < fresh_pid /\ o.duration <= o.line_count
    BY <2>3 DEF IInv, WellFormed, PCBs
  <2> QED
    BY <2>1, <2>2, <2>4 DEF Enters
<1> HIDE DEF p
<1>8. AllRanked(queue)'
  <2>1. PICK r \in Seq(PCBs) : r = Enqueue(policy, queue, p) /\ Added(r, queue, p)
    BY <1>2, <1>5, EnqueueAdds
  <2>2. Range(r) = Range(queue) \union {p}
    BY <1>2, <1>5, <2>1, AddedRange
  <2>3. Ranked(p)
    BY <1>5 DEF Ranked
  <2>4. \A o \in Range(r) : Ranked(o)
    BY <1>6, <2>2, <2>3 DEF AllRanked, Range
  <2>5. AllRanked(r)
    BY <2>4 DEF AllRanked, Range
  <2> QED
    BY <1>1, <2>1, <2>5 DEF AllRanked, Ranked
<1>9. ASSUME NEW pol \in Policies \union {NoPolicy}, AllAskFor(pol)' PROVE Agreed(pol)'
  <2>1. AllAskFor(pol) /\ Agreed(pol)
    BY <1>1, <1>9, SameExecs DEF Order
  <2>2. policy = pol /\ pol \in Policies
    BY <1>1, <2>1 DEF Agreed
  <2>3. pol \in {"SJF", "AGING"} => Sorted(Enqueue(pol, queue, p))
    BY <1>2, <1>5, <1>6, <1>7, <2>1, EnqueueKeepsOrder DEF Agreed
  <2>4. pol \in {"SJF", "AGING"} => Sorted(queue)'
    BY <1>1, <2>2, <2>3 DEF Sorted
  <2> QED
    BY <1>1, <1>2, <2>1, <2>2, <2>4 DEF Agreed
<1>10. current' # NoPCB /\ current'.pc = 0 /\ current'.line_count > 0 => steps' > 0
  BY <1>1 DEF Order
<1> QED
  BY <1>8, <1>9, <1>10 DEF Order, AllRanked

LEMMA LoadShellOrder ==
  ASSUME IInv, Order, LoadShell
  PROVE  Order'
<1> DEFINE p == NewPCB(Shell, RestOfInput)
<1>1. /\ status = "loading" /\ call.progs = <<>> /\ call.shell
      /\ queue' = enqueue_ignoring_priority(queue, p)
      /\ call' = [call EXCEPT !.shell = FALSE]
      /\ UNCHANGED <<input, status, policy, schedule, current, steps>>
  BY DEF LoadShell
<1>2. /\ queue \in Seq(PCBs) /\ Len(queue) \in Nat
      /\ DOMAIN queue = 1 .. Len(queue)
      /\ call'.nested = call.nested /\ call'.progs = <<>>
  BY <1>1 DEF IInv, Types
<1>3. ~call.nested /\ current = NoPCB /\ \A o \in Live : o.name # Shell
  BY <1>1 DEF IInv, Phases
<1>4. AllRanked(queue)
  BY <1>3, LiveProcesses DEF AllRanked, Ranked
<1>5. p \in PCBs /\ ~Ranked(p)
  <2>1. read \in 0 .. Len(input) /\ Len(input) \in Nat /\ input \in Seq(Range(input))
    BY InputCommands DEF IInv, Types
  <2>2. RestOfInput \in Seq(Range(input))
    BY <2>1 DEF RestOfInput
  <2>3. p \in PCBs
    BY <2>2, FreshPid
  <2> QED
    BY <2>3 DEF Ranked, NewPCB
<1> HIDE DEF p
<1>6. PICK r \in Seq(PCBs) : queue' = r /\ AddedAt(r, queue, p, 1)
  BY <1>1, <1>2, <1>5, EnqueueFirstAdds
<1>7. /\ DOMAIN r = 1 .. Len(queue) + 1 /\ r[1] = p
      /\ \A i \in DOMAIN r : i # 1 => i - 1 \in DOMAIN queue /\ r[i] = queue[i - 1]
  BY <1>2, <1>6 DEF AddedAt
<1>8. \A i \in DOMAIN r : ~Ranked(r[i]) => i = 1
  BY <1>4, <1>7 DEF AllRanked
<1>9. ASSUME Sorted(queue) PROVE Sorted(r)
  <2> SUFFICES ASSUME NEW i \in DOMAIN r, NEW j \in DOMAIN r, i < j, Ranked(r[i])
               PROVE  Precedes(r[i], r[j])
    BY DEF Sorted
  <2>1. i # 1 /\ j # 1 /\ i - 1 < j - 1
    BY <1>2, <1>5, <1>7
  <2> QED
    BY <1>7, <1>9, <2>1 DEF Sorted
<1>10. ASSUME NEW pol \in Policies \union {NoPolicy}, AllAskFor(pol)' PROVE Agreed(pol)'
  <2>1. AllAskFor(pol) /\ Agreed(pol)
    BY <1>1, <1>10, SameExecs DEF Order
  <2>2. pol \in {"SJF", "AGING"} => Sorted(queue)'
    BY <1>6, <1>9, <2>1 DEF Agreed, Sorted
  <2> QED
    BY <1>1, <1>2, <1>3, <2>1, <2>2 DEF Agreed
<1> QED
  BY <1>1, <1>2, <1>3, <1>6, <1>8, <1>10 DEF Order, Ranked

LEMMA LoadingEndsOrder ==
  ASSUME IInv, Order, LoadProgramOutOfMemory \/ LoadShellOutOfMemory \/ EndOfLoading
  PROVE  Order'
<1>1. /\ status = "loading"
      /\ \/ status' = "crashed" /\ call' = call
         \/ /\ status' = "running" /\ call' = NoCall
            /\ schedule' = IF call.nested THEN schedule ELSE policy
      /\ UNCHANGED <<input, policy, queue, current, steps>>
  BY DEF LoadProgramOutOfMemory, LoadShellOutOfMemory, EndOfLoading
<1>2. \A i \in DOMAIN queue' :
        ~Ranked(queue[i]) => i = 1 /\ current' = NoPCB /\ call'.progs = <<>>
  BY <1>1 DEF Order, NoCall
<1>3. ASSUME NEW pol \in Policies \union {NoPolicy}, AllAskFor(pol)' PROVE Agreed(pol)'
  <2>1. AllAskFor(pol) /\ Agreed(pol)
    BY <1>1, <1>3, SameExecs DEF Order
  <2>2. pol \in {"SJF", "AGING"} => Sorted(queue)'
    BY <1>1, <2>1 DEF Agreed, Sorted
  <2> QED
    BY <1>1, <2>1, <2>2 DEF Agreed
<1> QED
  BY <1>1, <1>2, <1>3 DEF Order, Ranked

\* Whatever the policy, a queue that is released is in order.
LEMMA ReleaseOrder ==
  ASSUME ReleaseQueue, current = NoPCB, UNCHANGED current
  PROVE  Order'
<1>1. queue' = <<>> /\ status' = "prompt" /\ current' = NoPCB
  BY DEF ReleaseQueue
<1> QED
  BY <1>1 DEF Order, Agreed, Sorted

LEMMA CleanupOrder ==
  ASSUME IInv, Order, Cleanup
  PROVE  Order'
<1>1. /\ status = "loading" /\ call.progs # <<>>
      /\ UNCHANGED <<input, schedule, current, steps>>
  BY DEF Cleanup
<1>2. CASE call.nested
  <2>1. /\ status' = "running" /\ call' = NoCall
        /\ UNCHANGED <<queue, policy>>
    BY <1>2 DEF Cleanup
  <2>2. AllRanked(queue)
    BY <1>1 DEF Order, AllRanked
  <2>3. ASSUME NEW pol \in Policies \union {NoPolicy}, AllAskFor(pol)' PROVE Agreed(pol)'
    <3>1. AllAskFor(pol) /\ Agreed(pol)
      BY <1>1, <2>3, SameExecs DEF Order
    <3>2. pol \in {"SJF", "AGING"} => Sorted(queue)'
      BY <2>1, <3>1 DEF Agreed, Sorted
    <3> QED
      BY <1>1, <1>2, <2>1, <3>1, <3>2 DEF Agreed
  <2> QED
    BY <1>1, <2>1, <2>2, <2>3 DEF Order, AllRanked, Ranked
<1>3. CASE ~call.nested
  <2>1. ReleaseQueue /\ current = NoPCB
    BY <1>1, <1>3 DEF Cleanup, IInv, Phases
  <2> QED
    BY <1>1, <2>1, ReleaseOrder
<1> QED
  BY <1>2, <1>3

LEMMA ScheduleDoneOrder ==
  ASSUME IInv, Order, ScheduleDone
  PROVE  Order'
<1>1. /\ current = NoPCB /\ queue = <<>> /\ UNCHANGED current
      /\ \/ status' = "exited" /\ queue' = <<>>
         \/ ReleaseQueue
  BY DEF ScheduleDone
<1>2. CASE status' = "exited" /\ queue' = <<>>
  BY <1>1, <1>2 DEF Order, Agreed, Sorted
<1> QED
  BY <1>1, <1>2, ReleaseOrder

\* Aging leaves the order as it is: a duration of 0 stays 0.
LEMMA AgedKeepsOrder ==
  ASSUME NEW p \in PCBs, NEW q \in PCBs, Precedes(p, q)
  PROVE  Precedes(Aged(p), Aged(q))
<1> DEFINE Down(d) == IF d > 0 THEN d - 1 ELSE 0
<1>1. p.duration \in Nat /\ q.duration \in Nat /\ p.duration <= q.duration
  BY DEF PCBs, Precedes
<1>2. \A d, e \in Nat : d <= e => Down(d) <= Down(e)
  OBVIOUS
<1>3. /\ Aged(p) = [p EXCEPT !.duration = Down(p.duration)]
      /\ Aged(q) = [q EXCEPT !.duration = Down(q.duration)]
  BY DEF Aged
<1>4. Down(p.duration) <= Down(q.duration)
  BY <1>1, <1>2
<1> HIDE DEF Down
<1>5. /\ Aged(p).duration = Down(p.duration) /\ Aged(p).pc = p.pc
      /\ Aged(p).line_count = p.line_count /\ Aged(p).pid = p.pid
      /\ Aged(q).duration = Down(q.duration) /\ Aged(q).pc = q.pc
      /\ Aged(q).line_count = q.line_count /\ Aged(q).pid = q.pid
  BY <1>3 DEF PCBs
<1> QED
  BY <1>4, <1>5 DEF Precedes

LEMMA DispatchOrder ==
  ASSUME IInv, Order, Dispatch
  PROVE  Order'
<1> DEFINE r == AfterDequeue(schedule, queue)
<1>1. /\ status = "running" /\ current = NoPCB /\ queue # <<>>
      /\ current' = Head(queue) /\ queue' = r
      /\ steps' = Slice(schedule, Head(queue))
      /\ UNCHANGED <<input, status, call, policy, schedule>>
  BY DEF Dispatch
<1>2. /\ queue \in Seq(PCBs) /\ Len(queue) \in Nat /\ Len(queue) >= 1
      /\ DOMAIN queue = 1 .. Len(queue) /\ Head(queue) = queue[1]
      /\ Len(Tail(queue)) = Len(queue) - 1 /\ DOMAIN Tail(queue) = 1 .. Len(queue) - 1
      /\ \A i \in 1 .. Len(queue) - 1 : Tail(queue)[i] = queue[i + 1]
  BY <1>1 DEF IInv, Types
<1>3. /\ r \in Seq(PCBs) /\ DOMAIN r = 1 .. Len(queue) - 1
      /\ \A i \in 1 .. Len(queue) - 1 : Survives(queue[i + 1], r[i])
  BY <1>1, <1>2, DequeueKeeps
<1>4. \A i \in 1 .. Len(queue) - 1 : i + 1 \in DOMAIN queue /\ i + 1 # 1
  BY <1>2
<1>5. AllRanked(r)
  BY <1>3, <1>4 DEF Order, AllRanked, Ranked, Survives, SameProcess
<1>6. ASSUME Sorted(queue) PROVE Sorted(r)
  <2> SUFFICES ASSUME NEW i \in 1 .. Len(queue) - 1, NEW j \in 1 .. Len(queue) - 1, i < j
               PROVE  Precedes(r[i], r[j])
    BY <1>3 DEF Sorted
  <2>1. i + 1 < j + 1 /\ i + 1 \in DOMAIN queue /\ j + 1 \in DOMAIN queue /\ i + 1 # 1
    BY <1>2
  <2>2. Precedes(queue[i + 1], queue[j + 1])
    BY <1>6, <2>1 DEF Sorted, Order
  <2>3. CASE schedule = "AGING"
    <3>1. r[i] = Aged(queue[i + 1]) /\ r[j] = Aged(queue[j + 1])
      BY <1>2, <2>3 DEF AfterDequeue
    <3>2. queue[i + 1] \in PCBs /\ queue[j + 1] \in PCBs
      BY <1>2, <2>1
    <3> QED
      BY <2>2, <3>1, <3>2, AgedKeepsOrder
  <2>4. CASE schedule # "AGING"
    <3>1. r[i] = queue[i + 1] /\ r[j] = queue[j + 1]
      BY <1>2, <2>4 DEF AfterDequeue
    <3> QED
      BY <2>2, <3>1
  <2> QED
    BY <2>3, <2>4
<1> HIDE DEF r
<1>7. ASSUME NEW pol \in Policies \union {NoPolicy}, AllAskFor(pol)' PROVE Agreed(pol)'
  <2>1. AllAskFor(pol) /\ Agreed(pol)
    BY <1>1, <1>7, SameExecs DEF Order
  <2>2. pol \in {"SJF", "AGING"} => Sorted(queue)'
    BY <1>1, <1>6, <2>1 DEF Agreed, Sorted
  <2> QED
    BY <1>1, <2>1, <2>2 DEF Agreed
<1>8. current'.line_count > 0 => steps' > 0
  <2>1. queue[1] \in PCBs
    BY <1>2
  <2> QED
    BY <1>1, <1>2, <2>1 DEF Slice, PCBs
<1> QED
  BY <1>1, <1>5, <1>7, <1>8 DEF Order, AllRanked, Ranked

LEMMA PutBackOrder ==
  ASSUME IInv, Order, PutBack
  PROVE  /\ Order'
         /\ current \in PCBs /\ queue \in Seq(PCBs) /\ AllRanked(queue)
         /\ current.pc # 0
<1>1. /\ status = "running" /\ current # NoPCB /\ steps = 0
      /\ pcb_has_next_instruction(current)
      /\ queue' = Enqueue(schedule, queue, current)
      /\ current' = NoPCB
      /\ UNCHANGED <<input, status, call, policy, schedule>>
  BY DEF PutBack
<1>2. current \in PCBs /\ queue \in Seq(PCBs)
  BY DEF IInv, Types
<1>3. AllRanked(queue)
  BY <1>1 DEF Order, AllRanked
<1>4. current.pc # 0
  <2>1. current.pc \in Nat /\ current.line_count \in Nat
    BY <1>2 DEF PCBs
  <2> QED
    BY <1>1, <2>1 DEF Order, pcb_has_next_instruction
<1>5. ASSUME NEW pol \in Policies \union {NoPolicy}, AllAskFor(pol)' PROVE Agreed(pol)'
  <2>1. AllAskFor(pol) /\ Agreed(pol)
    BY <1>1, <1>5, SameExecs DEF Order
  <2>2. schedule = pol /\ policy = pol /\ pol \in Policies
    BY <1>1, <2>1 DEF Agreed
  <2>3. Enters(queue, current)
    BY <1>4 DEF Enters
  <2>4. pol \in {"SJF", "AGING"} => Sorted(Enqueue(pol, queue, current))
    BY <1>2, <1>3, <2>1, <2>3, EnqueueKeepsOrder DEF Agreed
  <2>5. pol \in {"SJF", "AGING"} => Sorted(queue)'
    BY <1>1, <2>2, <2>4 DEF Sorted
  <2> QED
    BY <1>1, <2>2, <2>5 DEF Agreed
<1>6. \A i \in DOMAIN queue' : Ranked(queue[i])'
  <2>1. PICK r \in Seq(PCBs) : r = Enqueue(schedule, queue, current) /\ Added(r, queue, current)
    BY <1>2, EnqueueAdds
  <2>2. Range(r) = Range(queue) \union {current}
    BY <1>2, <2>1, AddedRange
  <2>3. \A o \in Range(r) : Ranked(o)
    BY <1>3, <1>4, <2>2 DEF AllRanked, Range, Ranked
  <2>4. \A i \in DOMAIN r : Ranked(r[i])
    BY <2>3 DEF Range
  <2> QED
    BY <1>1, <2>1, <2>4 DEF Ranked
<1>7. Order'
  BY <1>1, <1>5, <1>6 DEF Order
<1> QED
  BY <1>2, <1>3, <1>4, <1>7

LEMMA FinishProcessOrder ==
  ASSUME IInv, Order, FinishProcess
  PROVE  Order'
<1>1. /\ current # NoPCB /\ current' = NoPCB
      /\ UNCHANGED <<input, status, call, policy, schedule, queue>>
  BY DEF FinishProcess
<1>2. ASSUME NEW pol \in Policies \union {NoPolicy}, AllAskFor(pol)' PROVE Agreed(pol)'
  <2>1. AllAskFor(pol) /\ Agreed(pol)
    BY <1>1, <1>2, SameExecs DEF Order
  <2>2. pol \in {"SJF", "AGING"} => Sorted(queue)'
    BY <1>1, <2>1 DEF Agreed, Sorted
  <2> QED
    BY <1>1, <2>1, <2>2 DEF Agreed
<1> QED
  BY <1>1, <1>2 DEF Order, Ranked

LEMMA NextOrder == IInv /\ Order /\ [Next]_vars => Order'
<1> SUFFICES ASSUME IInv, Order, [Next]_vars PROVE Order'
  OBVIOUS
<1>1. CASE UNCHANGED vars
  <2>1. UNCHANGED <<input, status, call, policy, schedule, queue, current, steps>>
    BY <1>1 DEF vars
  <2>2. ASSUME NEW pol \in Policies \union {NoPolicy}, AllAskFor(pol)' PROVE Agreed(pol)'
    <3>1. AllAskFor(pol) /\ Agreed(pol)
      BY <2>1, <2>2, SameExecs DEF Order
    <3>2. pol \in {"SJF", "AGING"} => Sorted(queue)'
      BY <2>1, <3>1 DEF Agreed, Sorted
    <3> QED
      BY <2>1, <3>1, <3>2 DEF Agreed
  <2> QED
    BY <2>1, <2>2 DEF Order, Ranked
<1> QED
  BY <1>1, ReadLineOrder, LoadProgramOrder, LoadingEndsOrder, CleanupOrder,
     LoadShellOrder, DispatchOrder, RunLineOrder, PutBackOrder,
     FinishProcessOrder, ScheduleDoneOrder
     DEF Next

LEMMA InitOrder == Init => Order
BY DEF Init, Order, Agreed, Sorted

-----------------------------------------------------------------------------
(* FCFS, RR and RR30: whose turn it is.                                    *)

Job(p) == p.name # Shell

\* What is known of two jobs when p is in front of q: if p was given first it
\* has run at least as far, and otherwise q is ahead by a slice of p, the one
\* that p is about to have.
InTurn(pol, p, q) ==
  Job(p) /\ Job(q) =>
    /\ p.pid < q.pid => q.pc <= p.pc
    /\ q.pid < p.pid => p.pc + Slice(pol, p) <= q.pc

Turned(pol, r) == \A i, j \in DOMAIN r : i < j => InTurn(pol, r[i], r[j])

\* The same for a job p that may execute n more lines, and q that waits.
RunsInTurn(pol, p, n, q) ==
  Job(p) /\ Job(q) =>
    /\ p.pid < q.pid => q.pc + Slice(pol, p) <= p.pc + n
    /\ q.pid < p.pid => p.pc + n <= q.pc

NoneHasRun(r) == \A i \in DOMAIN r : Job(r[i]) => r[i].pc = 0

AsGiven(r) ==
  \A i, j \in DOMAIN r : i < j /\ Job(r[i]) /\ Job(r[j]) => r[i].pid < r[j].pid

\* A schedule that is not preemptive never has a job with lines behind it on
\* the queue, and the queue that a new schedule starts with has not run at all.
Taken ==
  /\ policy \notin {"SJF", "AGING"} /\ schedule \notin {"SJF", "AGING"}
  /\ Turned(schedule, queue)
  /\ Job(current) => steps <= Slice(schedule, current)
  /\ \A i \in DOMAIN queue : RunsInTurn(schedule, current, steps, queue[i])
  /\ schedule \notin {"RR", "RR30"} =>
       /\ NoneHasRun(queue)
       /\ Job(current) => current.pc + steps = current.line_count
  /\ status = "loading" /\ ~call.nested => NoneHasRun(queue) /\ AsGiven(queue)

Turns == TakesTurns => Taken

LEMMA SliceIsNat ==
  ASSUME NEW p \in PCBs, NEW pol
  PROVE  Slice(pol, p) \in Nat
BY DEF Slice, PCBs

LEMMA NoJob == ~Job(NoPCB)
BY DEF Job, NoPCB

\* A job that is appended waits for those it finds.
LEMMA AppendTurned ==
  ASSUME NEW r \in Seq(PCBs), NEW p \in PCBs, NEW pol, Turned(pol, r),
         \A i \in DOMAIN r : InTurn(pol, r[i], p)
  PROVE  Turned(pol, enqueue_fcfs(r, p))
<1> DEFINE s == enqueue_fcfs(r, p)
<1>1. /\ Len(r) \in Nat /\ DOMAIN r = 1 .. Len(r)
      /\ s \in Seq(PCBs) /\ AddedAt(s, r, p, Len(r) + 1)
  BY EnqueueFcfsAdds
<1> HIDE DEF s
<1>2. /\ DOMAIN s = 1 .. Len(r) + 1 /\ s[Len(r) + 1] = p
      /\ \A i \in DOMAIN r : s[i] = r[i]
  BY <1>1 DEF AddedAt
<1>3. ASSUME NEW i \in DOMAIN s, NEW j \in DOMAIN s, i < j
      PROVE  InTurn(pol, s[i], s[j])
  <2>1. i \in DOMAIN r /\ (j \in DOMAIN r \/ j = Len(r) + 1)
    BY <1>1, <1>2, <1>3
  <2>2. CASE j \in DOMAIN r
    BY <1>2, <1>3, <2>1, <2>2 DEF Turned
  <2>3. CASE j = Len(r) + 1
    BY <1>2, <2>1, <2>3
  <2> QED
    BY <2>1, <2>2, <2>3
<1> QED
  BY <1>3 DEF Turned, s

\* What a queue, or what waits beside a job, may be asked when one is added.
LEMMA AppendNew ==
  ASSUME NEW r \in Seq(PCBs), NEW p \in PCBs
  PROVE  /\ NoneHasRun(r) /\ (Job(p) => p.pc = 0) => NoneHasRun(enqueue_fcfs(r, p))
         /\ AsGiven(r) /\ (\A i \in DOMAIN r : r[i].pid < p.pid)
              => AsGiven(enqueue_fcfs(r, p))
<1> DEFINE s == enqueue_fcfs(r, p)
<1>1. /\ Len(r) \in Nat /\ DOMAIN r = 1 .. Len(r)
      /\ s \in Seq(PCBs) /\ AddedAt(s, r, p, Len(r) + 1)
  BY EnqueueFcfsAdds
<1> HIDE DEF s
<1>2. /\ DOMAIN s = 1 .. Len(r) + 1 /\ s[Len(r) + 1] = p
      /\ \A i \in DOMAIN r : s[i] = r[i]
  BY <1>1 DEF AddedAt
<1>3. \A i \in DOMAIN s : i \in DOMAIN r \/ i = Len(r) + 1
  BY <1>1, <1>2
<1>4. NoneHasRun(r) /\ (Job(p) => p.pc = 0) => NoneHasRun(s)
  BY <1>2, <1>3 DEF NoneHasRun
<1>5. ASSUME AsGiven(r), \A i \in DOMAIN r : r[i].pid < p.pid
      PROVE  AsGiven(s)
  <2> SUFFICES ASSUME NEW i \in DOMAIN s, NEW j \in DOMAIN s, i < j, Job(s[i]), Job(s[j])
               PROVE  s[i].pid < s[j].pid
    BY DEF AsGiven
  <2>1. i \in DOMAIN r
    BY <1>1, <1>2
  <2>2. CASE j \in DOMAIN r
    BY <1>2, <1>5, <2>1, <2>2 DEF AsGiven
  <2>3. CASE j = Len(r) + 1
    BY <1>2, <1>5, <2>1, <2>3
  <2> QED
    BY <1>3, <2>2, <2>3
<1> QED
  BY <1>4, <1>5 DEF s

\* The shell is put in front of everybody and counts for nobody.
LEMMA ShellFirst ==
  ASSUME NEW r \in Seq(PCBs), NEW p \in PCBs, ~Job(p)
  PROVE  LET s == enqueue_ignoring_priority(r, p)
         IN  /\ \A pol : Turned(pol, r) => Turned(pol, s)
             /\ NoneHasRun(r) => NoneHasRun(s)
             /\ AsGiven(r) => AsGiven(s)
<1> DEFINE s == enqueue_ignoring_priority(r, p)
<1>1. /\ Len(r) \in Nat /\ DOMAIN r = 1 .. Len(r)
      /\ s \in Seq(PCBs) /\ AddedAt(s, r, p, 1)
  BY EnqueueFirstAdds
<1> HIDE DEF s
<1>2. /\ DOMAIN s = 1 .. Len(r) + 1 /\ s[1] = p
      /\ \A i \in DOMAIN s : i # 1 => i - 1 \in DOMAIN r /\ s[i] = r[i - 1]
      /\ \A i, j \in DOMAIN s : i < j => j # 1 /\ (i # 1 => i - 1 < j - 1)
  BY <1>1 DEF AddedAt
<1>3. ASSUME NEW pol, Turned(pol, r) PROVE Turned(pol, s)
  <2> SUFFICES ASSUME NEW i \in DOMAIN s, NEW j \in DOMAIN s, i < j
               PROVE  InTurn(pol, s[i], s[j])
    BY DEF Turned
  <2>1. CASE i = 1
    BY <1>2, <2>1 DEF InTurn
  <2>2. CASE i # 1
    BY <1>2, <1>3, <2>2 DEF Turned
  <2> QED
    BY <2>1, <2>2
<1>4. NoneHasRun(r) => NoneHasRun(s)
  BY <1>2 DEF NoneHasRun
<1>5. AsGiven(r) => AsGiven(s)
  <2> SUFFICES ASSUME AsGiven(r), NEW i \in DOMAIN s, NEW j \in DOMAIN s, i < j,
                      Job(s[i]), Job(s[j])
               PROVE  s[i].pid < s[j].pid
    BY DEF AsGiven
  <2>1. i # 1
    BY <1>2
  <2> QED
    BY <1>2, <2>1 DEF AsGiven
<1> QED
  BY <1>3, <1>4, <1>5 DEF s

\* An exec sets the policy it asks for, if any.
LEMMA ExecTurn ==
  ASSUME NEW c, Execute(c), c.op = "exec" => \E i \in DOMAIN input : c = input[i],
         TakesTurns, policy \notin {"SJF", "AGING"}
  PROVE  policy' \notin {"SJF", "AGING"}
<1>1. c.op = "exec" => c.policy \notin {"SJF", "AGING"}
  BY DEF TakesTurns
<1>2. policy' \in {policy, NoPolicy} \/ (c.op = "exec" /\ policy' = c.policy)
  BY DEF Execute, RejectExec, OpenQueue, JoinQueue, ExecWithoutQueue, AcceptExec
<1> QED
  BY <1>1, <1>2 DEF NoPolicy

LEMMA EmptyTaken ==
  ASSUME queue = <<>>, ~Job(current), policy \notin {"SJF", "AGING"},
         schedule \notin {"SJF", "AGING"}
  PROVE  Taken
BY DEF Taken, Turned, NoneHasRun, AsGiven, RunsInTurn

\* A step that leaves the jobs and the policies where they are.
LEMMA SameTaken ==
  ASSUME Taken, UNCHANGED <<policy, schedule, queue, current, steps>>,
         status' = "loading" /\ ~call'.nested => status = "loading" /\ ~call.nested
  PROVE  Taken'
BY DEF Taken, Turned, InTurn, RunsInTurn, NoneHasRun, AsGiven, Job, Slice

LEMMA ReadLineTurns ==
  ASSUME IInv, TakesTurns, Taken, ReadLine
  PROVE  Taken'
<1> DEFINE c == input[read + 1]
<1>1. /\ status = "prompt" /\ read + 1 \in DOMAIN input /\ Execute(c) /\ IsCommand(c)
      /\ UNCHANGED <<schedule, current, steps>>
  BY InputCommands DEF ReadLine, IInv, Types
<1>2. queue = <<>> /\ current = NoPCB /\ ~hasQueue
  BY <1>1 DEF IInv, Phases
<1>3. c.op = "exec" => \E i \in DOMAIN input : c = input[i]
  BY <1>1
<1> HIDE DEF c
<1>4. PlainCommand \/ (c.op = "exec" /\ OpenQueue(c))
  BY <1>1, <1>2, ExecuteEffect DEF JoinQueue
<1>5. queue' = <<>> /\ ~Job(current')
  BY <1>1, <1>2, <1>4, NoJob DEF PlainCommand, OpenQueue
<1>6. policy' \notin {"SJF", "AGING"} /\ schedule' \notin {"SJF", "AGING"}
  BY <1>1, <1>3, ExecTurn DEF Taken
<1> QED
  BY <1>5, <1>6 DEF Taken, Turned, NoneHasRun, AsGiven, RunsInTurn

LEMMA RunLineTurns ==
  ASSUME IInv, TakesTurns, Taken, RunLine
  PROVE  Taken'
<1> DEFINE c == linememory[current.line_base + current.pc].cmd
<1>1. /\ status = "running" /\ pcb_has_next_instruction(current)
      /\ steps > 0 /\ steps' = steps - 1
      /\ current' = [current EXCEPT !.pc = current.pc + 1]
      /\ Execute(c)
      /\ UNCHANGED <<input, read, schedule>>
  BY DEF RunLine
<1>2. /\ IsCommand(c)
      /\ c.op = "exec" => background /\ \E i \in DOMAIN input : c = input[i]
  BY <1>1, NextCommand
<1> HIDE DEF c
<1>3. PlainCommand \/ (c.op = "exec" /\ JoinQueue(c))
  BY <1>1, <1>2, ExecuteEffect DEF OpenQueue
<1>4. queue' = queue /\ (status' = "loading" => call'.nested)
  BY <1>1, <1>3 DEF PlainCommand, JoinQueue
<1>5. policy' \notin {"SJF", "AGING"}
  BY <1>1, <1>2, ExecTurn DEF Taken
<1>6. /\ current'.name = current.name /\ current'.pid = current.pid
      /\ current'.line_count = current.line_count
      /\ current'.pc + steps' = current.pc + steps
      /\ steps' \in Nat /\ steps' <= steps
      /\ steps \in Nat /\ current \in PCBs
  <2>1. current \in PCBs /\ current.pc \in Nat /\ steps \in Nat
    BY DEF IInv, Types, PCBs
  <2>2. current'.pc = current.pc + 1
    BY <1>1, <2>1 DEF PCBs
  <2> QED
    BY <1>1, <2>1, <2>2 DEF PCBs
<1>7. Slice(schedule, current') = Slice(schedule, current)
      /\ Slice(schedule, current) \in Nat
  BY <1>6, SliceIsNat DEF Slice
<1>8. Job(current') = Job(current)
  BY <1>6 DEF Job
<1>9. Job(current') => steps' <= Slice(schedule, current')
  BY <1>6, <1>7, <1>8 DEF Taken
<1>10. \A i \in DOMAIN queue : RunsInTurn(schedule, current', steps', queue[i])
  BY <1>6, <1>7, <1>8 DEF Taken, RunsInTurn
<1>11. schedule \notin {"RR", "RR30"} /\ Job(current')
         => current'.pc + steps' = current'.line_count
  BY <1>6, <1>8 DEF Taken
<1> QED
  BY <1>1, <1>4, <1>5, <1>9, <1>10, <1>11 DEF Taken

\* The script gets the last pid and the last place.
LEMMA LoadProgramTurns ==
  ASSUME IInv, TakesTurns, Taken, LoadProgram
  PROVE  Taken'
<1> DEFINE text == NextText
           p == NewPCB(Head(call.progs), text)
<1>1. /\ status = "loading" /\ call.progs # <<>>
      /\ queue' = Enqueue(policy, queue, p)
      /\ call' = [call EXCEPT !.progs = Tail(@)]
      /\ UNCHANGED <<input, status, policy, schedule, current, steps>>
  BY DEF LoadProgram
<1>2. call.progs \in Seq(Programs) /\ queue \in Seq(PCBs) /\ call'.nested = call.nested
  BY <1>1 DEF IInv, Types
<1>3. Head(call.progs) \in Programs
  BY <1>1, <1>2
<1>4. text \in Seq({Other, QuitCmd})
  BY <1>3, ScriptsAssumption DEF NextText
<1>5. p \in PCBs
  BY <1>3, <1>4, FreshPid
<1>6. p.pid = fresh_pid /\ p.pc = 0
  BY DEF NewPCB
<1> HIDE DEF p
<1>7. ~Job(current)
  BY <1>1 DEF IInv, Phases, Job
<1>8. queue' = enqueue_fcfs(queue, p)
  BY <1>1 DEF Taken, Enqueue
<1>9. \A i \in DOMAIN queue : queue[i] \in PCBs /\ queue[i].pid < p.pid
  <2>1. \A i \in DOMAIN queue : queue[i] \in Live /\ queue[i] \in PCBs
    BY LiveProcesses
  <2>2. fresh_pid \in Nat
    BY DEF IInv, Types
  <2>3. \A o \in Live : o.pid < fresh_pid
    BY <2>2 DEF IInv, WellFormed
  <2> QED
    BY <1>6, <2>1, <2>3
<1>10. ASSUME NEW i \in DOMAIN queue PROVE InTurn(schedule, queue[i], p)
  <2>1. queue[i].pid \in Nat /\ queue[i].pc \in Nat /\ queue[i].pid < p.pid /\ p.pid \in Nat
    BY <1>5, <1>9 DEF PCBs
  <2> QED
    BY <1>6, <2>1 DEF InTurn
<1>11. Turned(schedule, enqueue_fcfs(queue, p))
  BY <1>2, <1>5, <1>10, AppendTurned DEF Taken
<1>12. /\ NoneHasRun(queue) => NoneHasRun(enqueue_fcfs(queue, p))
       /\ AsGiven(queue) => AsGiven(enqueue_fcfs(queue, p))
  BY <1>2, <1>5, <1>6, <1>9, AppendNew
<1> QED
  BY <1>1, <1>2, <1>7, <1>8, <1>11, <1>12 DEF Taken, RunsInTurn

LEMMA LoadShellTurns ==
  ASSUME IInv, TakesTurns, Taken, LoadShell
  PROVE  Taken'
<1> DEFINE p == NewPCB(Shell, RestOfInput)
<1>1. /\ status = "loading" /\ call.shell
      /\ queue' = enqueue_ignoring_priority(queue, p)
      /\ call' = [call EXCEPT !.shell = FALSE]
      /\ UNCHANGED <<input, status, policy, schedule, current, steps>>
  BY DEF LoadShell
<1>2. queue \in Seq(PCBs) /\ call'.nested = call.nested
  BY <1>1 DEF IInv, Types
<1>3. ~Job(current)
  BY <1>1 DEF IInv, Phases, Job
<1>4. p \in PCBs /\ ~Job(p)
  <2>1. read \in 0 .. Len(input) /\ Len(input) \in Nat /\ input \in Seq(Range(input))
    BY InputCommands DEF IInv, Types
  <2>2. RestOfInput \in Seq(Range(input))
    BY <2>1 DEF RestOfInput
  <2>3. p \in PCBs
    BY <2>2, FreshPid
  <2> QED
    BY <2>3 DEF Job, NewPCB
<1> HIDE DEF p
<1>5. /\ Turned(schedule, queue')
      /\ NoneHasRun(queue) => NoneHasRun(queue')
      /\ AsGiven(queue) => AsGiven(queue')
  BY <1>1, <1>2, <1>4, ShellFirst DEF Taken
<1> QED
  BY <1>1, <1>2, <1>3, <1>5 DEF Taken, RunsInTurn

\* The queue of a new schedule has not run: it is in turn under any policy.
LEMMA EndOfLoadingTurns ==
  ASSUME IInv, Taken, EndOfLoading
  PROVE  Taken'
<1>1. /\ status = "loading" /\ status' = "running"
      /\ schedule' = IF call.nested THEN schedule ELSE policy
      /\ UNCHANGED <<policy, queue, current, steps>>
  BY DEF EndOfLoading
<1>2. CASE call.nested
  BY <1>1, <1>2, SameTaken
<1>3. CASE ~call.nested
  <2>1. NoneHasRun(queue) /\ AsGiven(queue) /\ ~Job(current)
    BY <1>1, <1>3, NoJob DEF Taken, IInv, Phases
  <2>2. ASSUME NEW i \in DOMAIN queue, NEW j \in DOMAIN queue, i < j
        PROVE  InTurn(policy, queue[i], queue[j])
    <3>1. queue[i] \in PCBs /\ queue[j] \in PCBs
      BY LiveProcesses
    <3>2. queue[i].pid \in Nat /\ queue[j].pid \in Nat
      BY <3>1 DEF PCBs
    <3> QED
      BY <2>1, <2>2, <3>2 DEF NoneHasRun, AsGiven, InTurn
  <2>3. Turned(policy, queue)
    BY <2>2 DEF Turned
  <2> QED
    BY <1>1, <1>3, <2>1, <2>3 DEF Taken, RunsInTurn
<1> QED
  BY <1>2, <1>3

LEMMA ReleaseTurns ==
  ASSUME Taken, current = NoPCB, ReleaseQueue, UNCHANGED <<schedule, current>>
  PROVE  Taken'
<1>1. /\ queue' = <<>> /\ ~Job(current') /\ policy' \notin {"SJF", "AGING"}
      /\ schedule' \notin {"SJF", "AGING"}
  BY NoJob DEF ReleaseQueue, NoPolicy, Taken
<1> QED
  BY <1>1 DEF Taken, Turned, NoneHasRun, AsGiven, RunsInTurn

LEMMA CleanupTurns ==
  ASSUME IInv, Taken, Cleanup
  PROVE  Taken'
<1>1. status = "loading" /\ UNCHANGED <<schedule, current, steps>>
  BY DEF Cleanup
<1>2. CASE call.nested
  <2>1. status' = "running" /\ UNCHANGED <<queue, policy>>
    BY <1>2 DEF Cleanup
  <2> QED
    BY <1>1, <2>1, SameTaken
<1>3. CASE ~call.nested
  BY <1>1, <1>3, ReleaseTurns DEF Cleanup, IInv, Phases
<1> QED
  BY <1>2, <1>3

\* The head has its slice before it, which is what those it had behind it
\* may still catch up.
LEMMA DispatchTurns ==
  ASSUME IInv, Taken, Dispatch
  PROVE  Taken'
<1>1. /\ status = "running" /\ queue # <<>>
      /\ current' = Head(queue)
      /\ queue' = AfterDequeue(schedule, queue)
      /\ steps' = Slice(schedule, Head(queue))
      /\ UNCHANGED <<status, policy, schedule>>
  BY DEF Dispatch
<1>2. queue \in Seq(PCBs)
  BY DEF IInv, Types
<1>3. queue' = Tail(queue)
  BY <1>1 DEF Taken, AfterDequeue
<1>4. /\ Len(queue) \in Nat /\ DOMAIN queue = 1 .. Len(queue)
      /\ 1 \in DOMAIN queue /\ current' = queue[1]
      /\ DOMAIN queue' = 1 .. Len(queue) - 1
      /\ \A i \in DOMAIN queue' : queue'[i] = queue[i + 1]
  BY <1>1, <1>2, <1>3
<1>5. \A i \in DOMAIN queue' : i + 1 \in DOMAIN queue /\ 1 < i + 1
  BY <1>4
<1>6. Turned(schedule, queue')
  <2>1. \A i, j \in DOMAIN queue' : i < j => i + 1 < j + 1
    BY <1>4
  <2> QED
    BY <1>4, <1>5, <2>1 DEF Taken, Turned
<1>7. steps' = Slice(schedule, current')
  BY <1>1
<1>8. \A i \in DOMAIN queue : queue[i] \in PCBs
  BY <1>2
<1>9. ASSUME NEW i \in DOMAIN queue'
      PROVE  RunsInTurn(schedule, current', steps', queue'[i])
  <2> DEFINE p == queue[1]
             q == queue[i + 1]
             n == Slice(schedule, p)
  <2>1. InTurn(schedule, p, q)
    BY <1>4, <1>5, <1>9 DEF Taken, Turned
  <2>2. p \in PCBs /\ q \in PCBs
    BY <1>4, <1>5, <1>8, <1>9
  <2> HIDE DEF p, q
  <2>3. n \in Nat /\ p.pc \in Nat /\ q.pc \in Nat /\ p.pid \in Nat /\ q.pid \in Nat
    BY <2>2, SliceIsNat DEF PCBs
  <2>4. RunsInTurn(schedule, p, n, q)
    BY <2>1, <2>3 DEF InTurn, RunsInTurn
  <2> QED
    BY <1>4, <1>7, <1>9, <2>4 DEF p, q
<1>10. Job(current') => steps' <= Slice(schedule, current')
  <2>1. steps' \in Nat
    BY <1>1, <1>4, <1>8, SliceIsNat
  <2> QED
    BY <1>7, <2>1
<1>11. ASSUME schedule \notin {"RR", "RR30"}
       PROVE  /\ NoneHasRun(queue')
              /\ Job(current') => current'.pc + steps' = current'.line_count
  <2>1. NoneHasRun(queue)
    BY <1>11 DEF Taken
  <2>2. NoneHasRun(queue')
    BY <1>4, <1>5, <2>1 DEF NoneHasRun
  <2>3. Job(current') => current'.pc = 0
    BY <1>4, <2>1 DEF NoneHasRun
  <2>4. steps' = current'.line_count /\ current'.line_count \in Nat
    BY <1>4, <1>7, <1>8, <1>11 DEF Taken, Slice, PCBs
  <2> QED
    BY <2>2, <2>3, <2>4
<1> QED
  BY <1>1, <1>6, <1>9, <1>10, <1>11 DEF Taken

\* Only RR and RR30 put jobs back, and there a slice is the same for all.
LEMMA PutBackTurns ==
  ASSUME IInv, Taken, PutBack
  PROVE  Taken'
<1>1. /\ status = "running" /\ current # NoPCB /\ steps = 0
      /\ pcb_has_next_instruction(current)
      /\ queue' = Enqueue(schedule, queue, current)
      /\ current' = NoPCB
      /\ UNCHANGED <<status, policy, schedule>>
  BY DEF PutBack
<1>2. current \in PCBs /\ queue \in Seq(PCBs)
  BY DEF IInv, Types
<1>3. queue' = enqueue_fcfs(queue, current)
  BY <1>1 DEF Taken, Enqueue
<1>4. Job(current) => schedule \in {"RR", "RR30"}
  <2>1. current.pc \in Nat /\ current.line_count \in Nat
    BY <1>2 DEF PCBs
  <2> QED
    BY <1>1, <2>1 DEF Taken, pcb_has_next_instruction
<1>5. ASSUME NEW i \in DOMAIN queue PROVE InTurn(schedule, queue[i], current)
  <2> DEFINE p == queue[i]
  <2>1. p \in PCBs /\ RunsInTurn(schedule, current, steps, p)
    BY <1>2 DEF Taken
  <2> HIDE DEF p
  <2>2. /\ p.pc \in Nat /\ p.pid \in Nat /\ current.pc \in Nat /\ current.pid \in Nat
        /\ Slice(schedule, p) \in Nat
    BY <1>2, <2>1, SliceIsNat DEF PCBs
  <2>3. Job(current) => Slice(schedule, p) = Slice(schedule, current)
    BY <1>4 DEF Slice
  <2>4. InTurn(schedule, p, current)
    BY <1>1, <2>1, <2>2, <2>3 DEF RunsInTurn, InTurn
  <2> QED
    BY <2>4 DEF p
<1>6. Turned(schedule, queue')
  BY <1>2, <1>3, <1>5, AppendTurned DEF Taken
<1>7. schedule \notin {"RR", "RR30"} => NoneHasRun(queue')
  BY <1>2, <1>3, <1>4, AppendNew DEF Taken
<1> QED
  BY <1>1, <1>6, <1>7, NoJob DEF Taken, RunsInTurn

LEMMA FinishProcessTurns ==
  ASSUME Taken, FinishProcess
  PROVE  Taken'
<1>1. /\ status = "running" /\ current' = NoPCB
      /\ UNCHANGED <<status, policy, schedule, queue>>
  BY DEF FinishProcess
<1> QED
  BY <1>1, NoJob DEF Taken, RunsInTurn

LEMMA NextTurns == IInv /\ Turns /\ [Next]_vars => Turns'
<1> SUFFICES ASSUME IInv, Turns, [Next]_vars, TakesTurns' PROVE Taken'
  BY DEF Turns
<1>1. TakesTurns /\ Taken
  <2>1. UNCHANGED input
    BY DEF Next, vars, ReadLine, LoadProgram, LoadProgramOutOfMemory, Cleanup,
       LoadShell, LoadShellOutOfMemory, EndOfLoading, Dispatch, RunLine, PutBack,
       FinishProcess, ScheduleDone
  <2> QED
    BY <2>1 DEF Turns, TakesTurns
<1>2. CASE LoadProgramOutOfMemory \/ LoadShellOutOfMemory
  BY <1>1, <1>2, SameTaken DEF LoadProgramOutOfMemory, LoadShellOutOfMemory
<1>3. CASE ScheduleDone
  <2>1. current = NoPCB /\ UNCHANGED <<schedule, current, steps>>
    BY <1>3 DEF ScheduleDone
  <2>2. CASE background
    BY <1>1, <1>3, <2>1, <2>2, SameTaken DEF ScheduleDone
  <2>3. CASE ~background
    BY <1>1, <1>3, <2>1, <2>3, ReleaseTurns DEF ScheduleDone
  <2> QED
    BY <2>2, <2>3
<1>4. CASE UNCHANGED vars
  BY <1>1, <1>4, SameTaken DEF vars
<1> QED
  BY <1>1, <1>2, <1>3, <1>4, ReadLineTurns, LoadProgramTurns, CleanupTurns,
     LoadShellTurns, EndOfLoadingTurns, DispatchTurns, RunLineTurns, PutBackTurns,
     FinishProcessTurns
     DEF Next

-----------------------------------------------------------------------------
(* What becomes of a process.                                              *)

\* Nothing has run of an exec at the prompt that is still loading.
Unbegun ==
  status = "loading" /\ ~call.nested => \A p \in Live : p.pc = 0

\* A loaded script, and the shell's process, join those that live.
LEMMA LoadingAdds ==
  ASSUME IInv, LoadProgram \/ LoadShell
  PROVE  /\ \E p \in PCBs : p.pc = 0 /\ Live' = Live \union {p}
         /\ status' = status /\ call'.nested = call.nested
<1>1. queue \in Seq(PCBs) /\ UNCHANGED <<current, status>>
  BY DEF IInv, Types, LoadProgram, LoadShell
<1>2. call'.nested = call.nested
  BY DEF IInv, Types, LoadProgram, LoadShell
<1>3. ASSUME NEW r \in Seq(PCBs), NEW p \in PCBs, Added(r, queue, p), queue' = r,
             p.pc = 0
      PROVE  \E o \in PCBs : o.pc = 0 /\ Live' = Live \union {o}
  <2>1. Range(r) = Range(queue) \union {p}
    BY <1>1, <1>3, AddedRange
  <2>2. Live' = Live \union {p}
    BY <1>1, <1>3, <2>1 DEF Live
  <2> QED
    BY <1>3, <2>2
<1>4. CASE LoadProgram
  <2> DEFINE name == Head(call.progs)
             p == NewPCB(name, Text[name])
  <2>1. name \in Programs
    BY <1>4 DEF LoadProgram, IInv, Types
  <2>2. p \in PCBs
    BY <2>1, FreshPid, ScriptsAssumption
  <2>3. p.pc = 0
    BY DEF NewPCB
  <2>4. queue' = Enqueue(policy, queue, p)
    BY <1>4 DEF LoadProgram, NextText
  <2> HIDE DEF p
  <2> QED
    BY <1>1, <1>2, <1>3, <2>2, <2>3, <2>4, EnqueueAdds
<1>5. CASE LoadShell
  <2> DEFINE p == NewPCB(Shell, RestOfInput)
  <2>1. RestOfInput \in Seq(Range(input))
    BY InputCommands DEF RestOfInput, IInv, Types
  <2>2. p \in PCBs
    BY <2>1, FreshPid
  <2>3. p.pc = 0
    BY DEF NewPCB
  <2>4. queue' = enqueue_ignoring_priority(queue, p)
    BY <1>5 DEF LoadShell
  <2> HIDE DEF p
  <2>5. Len(queue) \in Nat /\ 1 \in 1 .. Len(queue) + 1
    BY <1>1
  <2>6. queue' \in Seq(PCBs) /\ Added(queue', queue, p)
    BY <1>1, <2>2, <2>4, <2>5, EnqueueFirstAdds DEF Added
  <2> QED
    BY <1>1, <1>2, <1>3, <2>2, <2>3, <2>6
<1> QED
  BY <1>4, <1>5

\* A line of a running process opens no queue of its own: an exec among them is
\* one of the background.
LEMMA LineEffect ==
  ASSUME IInv, RunLine
  PROVE  /\ UNCHANGED queue
         /\ current # NoPCB /\ current' # NoPCB
         /\ current'.pid = current.pid /\ current'.pc = current.pc + 1
         /\ status' = "loading" => call'.nested
<1> DEFINE c == linememory[current.line_base + current.pc].cmd
<1>1. /\ status = "running" /\ pcb_has_next_instruction(current) /\ Execute(c)
      /\ current' = [current EXCEPT !.pc = current.pc + 1]
  BY DEF RunLine
<1>2. /\ current # NoPCB /\ current \in Live /\ IsCommand(c)
      /\ c.op = "exec" => background
  BY <1>1, NextCommand
<1> HIDE DEF c
<1>3. \/ PlainCommand
      \/ c.op = "exec" /\ OpenQueue(c)
      \/ c.op = "exec" /\ JoinQueue(c)
  <2>1. IsCommand(c) /\ Execute(c)
    BY <1>1, <1>2
  <2> QED
    BY <2>1, ExecuteEffect
<1>4. ~(c.op = "exec" /\ OpenQueue(c))
  BY <1>2 DEF OpenQueue
<1>5. current \in PCBs /\ current.pid # 0
  BY <1>2 DEF IInv, Types, WellFormed
<1>6. UNCHANGED queue /\ (status' = "loading" => call'.nested)
  BY <1>1, <1>3, <1>4 DEF PlainCommand, JoinQueue
<1> QED
  BY <1>1, <1>2, <1>5, <1>6 DEF PCBs, NoPCB

\* A dequeue takes the head and ages the others, but loses none.
LEMMA DispatchCarries ==
  ASSUME IInv, Dispatch, NEW p \in Live
  PROVE  \E q \in Live' : q.pid = p.pid /\ q.pc = p.pc
<1> DEFINE r == AfterDequeue(schedule, queue)
<1>1. /\ current = NoPCB /\ queue # <<>> /\ current' = Head(queue) /\ queue' = r
  BY DEF Dispatch
<1>2. /\ queue \in Seq(PCBs) /\ Len(queue) \in Nat /\ Len(queue) >= 1
      /\ DOMAIN queue = 1 .. Len(queue) /\ Head(queue) = queue[1]
  BY <1>1 DEF IInv, Types
<1>3. /\ DOMAIN r = 1 .. Len(queue) - 1
      /\ \A i \in 1 .. Len(queue) - 1 : Survives(queue[i + 1], r[i])
  BY <1>1, <1>2, DequeueKeeps
<1> HIDE DEF r
<1>4. PICK i \in DOMAIN queue : queue[i] = p
  BY <1>1, LiveProcesses
<1>5. CASE i = 1
  <2>1. p \in Live'
    BY <1>1, <1>2, <1>4, <1>5, LiveProcesses DEF Live
  <2> QED
    BY <2>1
<1>6. CASE i # 1
  <2>1. i - 1 \in 1 .. Len(queue) - 1 /\ (i - 1) + 1 = i
    BY <1>2, <1>6
  <2>2. Survives(p, r[i - 1]) /\ i - 1 \in DOMAIN r
    BY <1>3, <1>4, <2>1
  <2>3. r[i - 1] \in Live'
    BY <1>1, <2>2 DEF Live, Range
  <2> QED
    BY <2>2, <2>3 DEF Survives, SameProcess
<1> QED
  BY <1>5, <1>6

LEMMA NextUnbegun == IInv /\ Unbegun /\ [Next]_vars => Unbegun'
<1> SUFFICES ASSUME IInv, Unbegun, [Next]_vars, status' = "loading", ~call'.nested
             PROVE  \A p \in Live' : p.pc = 0
  BY DEF Unbegun
<1>1. CASE ReadLine
  <2>1. /\ status = "prompt" /\ read + 1 \in 1 .. Len(input)
        /\ Execute(input[read + 1]) /\ current' = current
    BY <1>1, InputCommands DEF ReadLine, IInv, Types
  <2>2. IsCommand(input[read + 1]) /\ queue = <<>> /\ current = NoPCB
    BY <2>1, InputCommands DEF IInv, Phases
  <2>3. queue' = <<>>
    BY <2>1, <2>2, ExecuteEffect DEF PlainCommand, OpenQueue, JoinQueue
  <2> QED
    BY <2>1, <2>2, <2>3 DEF Live, Range
<1>2. CASE LoadProgram \/ LoadShell
  <2>1. PICK p \in PCBs : p.pc = 0 /\ Live' = Live \union {p}
    BY <1>2, LoadingAdds
  <2>2. status = "loading" /\ ~call.nested
    BY <1>2, LoadingAdds
  <2> QED
    BY <2>1, <2>2 DEF Unbegun
<1>3. CASE RunLine
  BY <1>3, LineEffect
<1>4. CASE UNCHANGED vars
  <2>1. Live' = Live /\ status = "loading" /\ ~call.nested
    BY <1>4 DEF vars, Live
  <2> QED
    BY <2>1 DEF Unbegun
<1> QED
  BY <1>1, <1>2, <1>3, <1>4 DEF Next, LoadProgramOutOfMemory, Cleanup, ReleaseQueue,
     LoadShellOutOfMemory, EndOfLoading, Dispatch, PutBack, FinishProcess, ScheduleDone

\* What a step may do to a live process.
Fate(p) ==
  \/ Carried(p)
  \/ p = current /\ ~pcb_has_next_instruction(p)
  \/ status = "loading" /\ status' = "prompt" /\ p.pc = 0

LEMMA StepFates ==
  ASSUME IInv, Unbegun, [Next]_vars, NEW p \in Live
  PROVE  Fate(p)
<1>1. p.pc \in Nat /\ p.pc \in p.pc .. p.pc + 1 /\ p.pc + 1 \in p.pc .. p.pc + 1
  <2>1. p.pc \in Nat
    BY LiveProcesses DEF IInv, Types, PCBs
  <2> QED
    BY <2>1
<1>2. ASSUME p \in Live' PROVE Fate(p)
  BY <1>1, <1>2 DEF Carried, Fate
<1>3. ASSUME UNCHANGED <<queue, current>> PROVE Fate(p)
  <2>1. Live' = Live
    BY <1>3 DEF Live
  <2> QED
    BY <1>2, <2>1
<1>4. CASE ReadLine
  BY <1>4 DEF ReadLine, IInv, Phases, Live, Range
<1>5. CASE LoadProgram \/ LoadShell
  <2>1. PICK o \in PCBs : Live' = Live \union {o}
    BY <1>5, LoadingAdds
  <2> QED
    BY <1>2, <2>1
<1>6. CASE Cleanup
  <2>1. CASE call.nested
    BY <1>3, <1>6, <2>1 DEF Cleanup
  <2>2. CASE ~call.nested
    BY <1>6, <2>2 DEF Cleanup, ReleaseQueue, Unbegun, Fate
  <2> QED
    BY <2>1, <2>2
<1>7. CASE Dispatch
  BY <1>1, <1>7, DispatchCarries DEF Carried, Fate
<1>8. CASE RunLine
  <2>1. CASE p = current
    <3>1. current' \in Live'
      BY <1>8, LineEffect DEF Live
    <3> QED
      BY <1>1, <1>8, <2>1, <3>1, LineEffect DEF Carried, Fate
  <2>2. CASE p # current
    <3>1. p \in Live'
      BY <1>8, <2>2, LineEffect DEF Live
    <3> QED
      BY <1>2, <3>1
  <2> QED
    BY <2>1, <2>2
<1>9. CASE PutBack
  <2>1. /\ current # NoPCB /\ queue' = Enqueue(schedule, queue, current)
        /\ queue \in Seq(PCBs) /\ current \in PCBs
    BY <1>9 DEF PutBack, IInv, Types
  <2>2. Range(queue') = Range(queue) \union {current}
    BY <2>1, EnqueueAdds, AddedRange
  <2>3. p \in Live'
    BY <2>2 DEF Live
  <2> QED
    BY <1>2, <2>3
<1>10. CASE FinishProcess
  <2>1. CASE p = current
    BY <1>10, <2>1 DEF FinishProcess, Fate
  <2>2. CASE p # current
    <3>1. p \in Live'
      BY <1>10, <2>2 DEF FinishProcess, Live
    <3> QED
      BY <1>2, <3>1
  <2> QED
    BY <2>1, <2>2
<1>11. CASE ScheduleDone
  BY <1>11 DEF ScheduleDone, Live, Range
<1>12. CASE LoadProgramOutOfMemory \/ LoadShellOutOfMemory \/ EndOfLoading
  BY <1>3, <1>12 DEF LoadProgramOutOfMemory, LoadShellOutOfMemory, EndOfLoading
<1>13. CASE UNCHANGED vars
  BY <1>3, <1>13 DEF vars
<1> QED
  BY <1>4, <1>5, <1>6, <1>7, <1>8, <1>9, <1>10, <1>11, <1>12, <1>13 DEF Next

-----------------------------------------------------------------------------
LEMMA NextIInv == IInv /\ [Next]_vars => IInv'
<1> SUFFICES ASSUME IInv, [Next]_vars PROVE IInv'
  OBVIOUS
<1>1. CASE UNCHANGED vars
  <2>1. UNCHANGED <<input, read, status, call, background, policy, schedule,
                    hasQueue, queue, current, steps, linememory,
                    next_free_line, fresh_pid>>
    BY <1>1 DEF vars, store
  <2>2. Live' = Live
    BY <2>1 DEF Live
  <2>3. Types'
    BY <2>1 DEF IInv, Types
  <2>4. Phases'
    BY <2>1, <2>2 DEF IInv, Phases
  <2> QED
    BY <2>1, <2>3, <2>4, NothingMoves
<1> QED
  BY <1>1, ReadLineIInv, LoadProgramIInv, LoadingEndsIInv, CleanupIInv,
     LoadShellIInv, DispatchIInv, RunLineIInv, PutBackIInv, FinishProcessIInv,
     ScheduleDoneIInv
     DEF Next

\* The strengthening of the properties below that every step preserves.
THEOREM Inductive == Spec => []IInv
<1>1. Init => IInv
  BY InitIInv
<1>2. IInv /\ [Next]_vars => IInv'
  BY NextIInv
<1> QED
  BY <1>1, <1>2, PTL DEF Spec

\* Every variable of exec and runSchedule keeps its type, and every live PCB
\* lies inside linememory with its program counter inside its lines.
THEOREM TypeCorrect == Spec => []TypeOK
<1>1. IInv => TypeOK
  <2> SUFFICES ASSUME IInv PROVE TypeOK
    OBVIOUS
  <2>1. \A p \in Live :
          /\ p.pid \in 1 .. fresh_pid - 1
          /\ p.name \in Programs \union {Shell}
          /\ p.pc \in 0 .. p.line_count
          /\ p.duration \in 0 .. p.line_count
          /\ p.line_base + p.line_count <= next_free_line
    BY DEF IInv, WellFormed, PCBs
  <2>2. call.progs \in Seq(Programs) /\ call.shell \in BOOLEAN /\ call.nested \in BOOLEAN
    BY DEF IInv, Types
  <2>3. {background, hasQueue, call.shell, call.nested} \subseteq BOOLEAN
    BY <2>2, Zenon DEF IInv, Types
  <2> QED
    BY <2>1, <2>2, <2>3 DEF IInv, Types, TypeOK
<1> QED
  BY <1>1, Inductive, PTL

\* allocate_line, free_line and the resets of the allocator never take a line
\* from a live process, nor leave one without its process.
THEOREM LinesStayOwned == Spec => []OwnsItsLines
<1>1. IInv => OwnsItsLines
  BY DEF IInv
<1> QED
  BY <1>1, Inductive, PTL

\* Whatever failed in the last run or exec, linememory is empty at the prompt.
THEOREM MemoryEmptyAtPrompt == Spec => []LineMemoryEmptyAtPrompt
<1>1. IInv => LineMemoryEmptyAtPrompt
  <2> SUFFICES ASSUME IInv, status = "prompt", NEW i \in DOMAIN linememory
               PROVE  linememory[i] = NoLine
    BY DEF LineMemoryEmptyAtPrompt
  <2>1. Live = {}
    BY DEF Live, Range, IInv, Phases
  <2> QED
    BY <2>1 DEF IInv, OwnsItsLines
<1> QED
  BY <1>1, Inductive, PTL

\* No script is live twice, although my_exec only searches the queue.
THEOREM ScriptsLiveOnce == Spec => []ScriptsScheduledOnce
<1>1. IInv => ScriptsScheduledOnce
  BY DEF IInv, ProcessesApart, Apart, ScriptsScheduledOnce
<1> QED
  BY <1>1, Inductive, PTL

\* Once the input is a process, no outcome of a nested exec and no end of a
\* schedule brings back the prompt.
THEOREM BatchDoesNotPrompt == Spec => BatchNeverPrompts
<1> DEFINE A == background /\ (status = "running" \/ call.nested) => status' # "prompt"
<1>1. IInv /\ [Next]_vars => [A]_vars
  <2> SUFFICES ASSUME IInv, Next, background, status = "running" \/ call.nested,
                      status' = "prompt"
               PROVE  FALSE
    BY DEF IInv, Types
  <2>1. status # "prompt"
    BY DEF IInv, Phases, NoCall
  <2>2. CASE Cleanup
    BY <2>2 DEF Cleanup, IInv, Phases
  <2>3. CASE ScheduleDone
    BY <2>3 DEF ScheduleDone
  <2>4. CASE RunLine
    <3>1. status = "running" /\ Execute(linememory[current.line_base + current.pc].cmd)
      BY <2>4 DEF RunLine
    <3> QED
      BY <3>1 DEF Execute, RejectExec, OpenQueue, JoinQueue, ExecWithoutQueue
  <2> QED
    BY <2>1, <2>2, <2>3, <2>4 DEF Next, ReadLine, LoadProgram,
       LoadProgramOutOfMemory, LoadShell, LoadShellOutOfMemory, EndOfLoading,
       Dispatch, PutBack, FinishProcess
<1> QED
  BY <1>1, Inductive, PTL DEF Spec, BatchNeverPrompts

\* A session whose execs agree on a policy loads, runs and ranks under it.
THEOREM QueueInOrder == Spec => []Order
<1>1. Init => Order
  BY InitOrder
<1>2. IInv /\ Order /\ [Next]_vars => Order'
  BY NextOrder
<1> QED
  BY <1>1, <1>2, Inductive, PTL DEF Spec

\* The queue is in the order of SJF and AGING when that is what every exec of
\* the session asks for, whatever the scripts, the execs and their order.
THEOREM QueueSorted == Spec => []QueueByPriority
<1>1. IInv /\ Order => QueueByPriority
  <2> SUFFICES ASSUME IInv, Order, OnePolicy, policy \in {"SJF", "AGING"}
               PROVE  Sorted(queue)
    BY DEF QueueByPriority, Sorted
  <2>1. policy \in Policies \union {NoPolicy} /\ AllAskFor(policy)
    BY DEF IInv, Types, OnePolicy
  <2> QED
    BY <2>1 DEF Order, Agreed
<1> QED
  BY <1>1, Inductive, QueueInOrder, PTL

\* A process that AGING puts back runs again at once if and only if no waiting
\* process has aged below it.
THEOREM PreemptedByShorter == Spec => PreemptedOnlyByShorter
<1> DEFINE A == /\ OnePolicy /\ schedule = "AGING"
                /\ current # NoPCB /\ Len(queue') = Len(queue) + 1 /\ current' = NoPCB
                => (queue'[1] = current
                      <=> \A i \in DOMAIN queue : queue[i].duration >= current.duration)
<1>1. IInv /\ Order /\ [Next]_vars => [A]_vars
  <2> SUFFICES ASSUME IInv, Order, Next, OnePolicy, schedule = "AGING",
                      current # NoPCB, Len(queue') = Len(queue) + 1, current' = NoPCB
               PROVE  queue'[1] = current
                        <=> \A i \in DOMAIN queue : queue[i].duration >= current.duration
    OBVIOUS
  <2>1. PutBack
    <3>1. queue' # queue
      <4>1. Len(queue) \in Nat
        BY DEF IInv, Types
      <4> QED
        BY <4>1
    <3>2. ~RunLine
      <4> SUFFICES ASSUME RunLine PROVE FALSE
        OBVIOUS
      <4>1. current \in PCBs /\ current.line_count # 0
        BY DEF RunLine, pcb_has_next_instruction, IInv, Types, PCBs
      <4>2. current'.line_count = current.line_count
        BY <4>1 DEF RunLine, PCBs
      <4> QED
        BY <4>1, <4>2 DEF NoPCB
    <3> QED
      BY <3>1, <3>2 DEF Next, ReadLine, LoadProgram, LoadProgramOutOfMemory, Cleanup,
         LoadShell, LoadShellOutOfMemory, EndOfLoading, Dispatch, FinishProcess,
         ScheduleDone, IInv, Phases
  <2>2. /\ current \in PCBs /\ queue \in Seq(PCBs) /\ AllRanked(queue)
        /\ current.pc # 0 /\ status = "running"
        /\ queue' = enqueue_aging(queue, current)
    BY <2>1, PutBackOrder DEF PutBack, Enqueue
  <2>3. Sorted(queue)
    <3>1. policy \in Policies \union {NoPolicy} /\ AllAskFor(policy)
      BY DEF IInv, Types, OnePolicy
    <3>2. Agreed(policy)
      BY <3>1 DEF Order
    <3> QED
      BY <2>2, <3>2 DEF Agreed
  <2>4. /\ Len(queue) \in Nat /\ DOMAIN queue = 1 .. Len(queue)
        /\ current.duration \in Nat
        /\ \A i \in DOMAIN queue : queue[i].duration \in Nat
    <3>1. \A i \in DOMAIN queue : queue[i] \in PCBs
      BY <2>2
    <3> QED
      BY <2>2, <3>1 DEF PCBs
  <2>5. \A i \in DOMAIN queue : queue[1].duration <= queue[i].duration
    <3>1. \A i \in DOMAIN queue : 1 \in DOMAIN queue /\ (i = 1 \/ 1 < i)
      BY <2>4
    <3> QED
      BY <2>2, <2>3, <2>4, <3>1 DEF Sorted, AllRanked, Precedes
  <2>6. CASE queue # <<>> /\ queue[1].duration = current.duration
    <3>1. queue' = <<current>> \o queue
      BY <2>2, <2>6 DEF enqueue_aging, enqueue_ignoring_priority
    <3>2. queue'[1] = current
      BY <2>2, <3>1, EnqueueFirstAdds DEF AddedAt, enqueue_ignoring_priority
    <3> QED
      BY <2>4, <2>5, <2>6, <3>2
  <2>7. CASE ~(queue # <<>> /\ queue[1].duration = current.duration)
    <3>1. queue' = enqueue_sjf(queue, current)
      BY <2>2, <2>7 DEF enqueue_aging
    <3>2. PICK k \in 1 .. Len(queue) + 1 :
            /\ AddedAt(queue', queue, current, k)
            /\ \A i \in 1 .. k - 1 : queue[i].duration <= current.duration
            /\ k <= Len(queue) => queue[k].duration > current.duration
      BY <2>2, <3>1, EnqueueSjfAdds
    <3>3. CASE k = 1
      <4>1. queue'[1] = current
        BY <3>2, <3>3 DEF AddedAt
      <4>2. ASSUME NEW i \in DOMAIN queue PROVE queue[i].duration >= current.duration
        <5>1. 1 \in DOMAIN queue /\ 1 <= Len(queue)
          BY <2>4
        <5> QED
          BY <2>4, <2>5, <3>2, <3>3, <5>1
      <4> QED
        BY <4>1, <4>2
    <3>4. CASE k # 1
      <4>1. 1 \in 1 .. k - 1 /\ 1 \in DOMAIN queue
        BY <2>4, <3>4
      <4>2. queue'[1] = queue[1] /\ queue[1].duration <= current.duration
        BY <3>2, <4>1 DEF AddedAt
      <4>3. queue # <<>> /\ queue[1].duration # current.duration
        BY <2>4, <2>7, <4>1
      <4>4. queue[1].duration < current.duration
        BY <2>4, <4>1, <4>2, <4>3
      <4>5. queue[1] # current
        BY <2>4, <4>4
      <4> QED
        BY <2>4, <4>1, <4>2, <4>4, <4>5
    <3> QED
      BY <3>3, <3>4
  <2> QED
    BY <2>6, <2>7
<1> QED
  BY <1>1, Inductive, QueueInOrder, PTL DEF Spec, PreemptedOnlyByShorter

\* Sessions whose execs ask for FCFS, RR and RR30, in any mixture: turns are
\* taken in the order the scripts were given.
THEOREM TurnsAreTaken == Spec => []Turns
<1>1. Init => Turns
  BY EmptyTaken, NoJob DEF Init, Turns, NoPolicy
<1>2. IInv /\ Turns /\ [Next]_vars => Turns'
  BY NextTurns
<1> QED
  BY <1>1, <1>2, Inductive, PTL DEF Spec

\* So a script is never ahead of one that was given before it, whichever of
\* the three policies the exec of the background asked for.
THEOREM LaterIsNeverAhead == Spec => []LaterNeverAhead
<1>1. IInv /\ Turns => LaterNeverAhead
  <2> SUFFICES ASSUME IInv, Taken, NEW p \in Live, NEW q \in Live,
                      Job(p), Job(q), p.pid < q.pid
               PROVE  q.pc <= p.pc /\ (schedule = "FCFS" => q.pc = 0)
    BY DEF LaterNeverAhead, Turns, Job
  <2>1. /\ p \in PCBs /\ q \in PCBs
        /\ p.pc \in Nat /\ q.pc \in Nat /\ p.pid \in Nat /\ q.pid \in Nat
        /\ steps \in Nat
    BY DEF IInv, WellFormed, Types, PCBs
  <2>2. Slice(schedule, p) \in Nat /\ Slice(schedule, q) \in Nat
    BY <2>1, SliceIsNat
  <2>3. ASSUME NEW i \in DOMAIN queue, p = queue[i], NEW j \in DOMAIN queue, q = queue[j]
        PROVE  q.pc <= p.pc /\ (schedule = "FCFS" => q.pc = 0)
    <3>1. schedule = "FCFS" => q.pc = 0
      BY <2>3 DEF Taken, NoneHasRun
    <3>2. CASE i < j
      BY <2>1, <2>3, <3>1, <3>2 DEF Taken, Turned, InTurn
    <3>3. CASE j < i
      <4>1. InTurn(schedule, q, p)
        BY <2>3, <3>3 DEF Taken, Turned
      <4> QED
        BY <2>1, <2>2, <3>1, <4>1 DEF InTurn
    <3>4. i \in Nat /\ j \in Nat /\ i # j
      <4>1. queue \in Seq(PCBs)
        BY DEF IInv, Types
      <4> QED
        BY <2>1, <2>3, <4>1
    <3> QED
      BY <3>2, <3>3, <3>4
  <2>4. ASSUME p = current, NEW j \in DOMAIN queue, q = queue[j]
        PROVE  q.pc <= p.pc /\ (schedule = "FCFS" => q.pc = 0)
    <3>1. schedule = "FCFS" => q.pc = 0
      BY <2>4 DEF Taken, NoneHasRun
    <3>2. /\ q.pc + Slice(schedule, p) <= p.pc + steps
          /\ steps <= Slice(schedule, p)
      BY <2>4 DEF Taken, RunsInTurn
    <3> QED
      BY <2>1, <2>2, <3>1, <3>2
  <2>5. ASSUME q = current, NEW i \in DOMAIN queue, p = queue[i]
        PROVE  q.pc <= p.pc /\ (schedule = "FCFS" => q.pc = 0)
    <3>1. q.pc + steps <= p.pc
      BY <2>5 DEF Taken, RunsInTurn
    <3>2. schedule = "FCFS" => p.pc = 0
      BY <2>5 DEF Taken, NoneHasRun
    <3> QED
      BY <2>1, <3>1, <3>2
  <2>6. p # q
    BY <2>1
  <2> QED
    BY <2>3, <2>4, <2>5, <2>6, LiveProcesses
<1> QED
  BY <1>1, Inductive, TurnsAreTaken, PTL

\* A process that is loaded stays in the queue or runs until it has executed
\* every line it has, under any policy and any mixture of policies; only a failing
\* exec at the prompt takes processes back, and those have not begun.
THEOREM EveryProcessRuns == Spec => RunsToItsEnd
<1>1. Init => Unbegun
  BY DEF Init, Unbegun
<1>2. IInv /\ Unbegun /\ [Next]_vars => Unbegun'
  BY NextUnbegun
<1>3. IInv /\ Unbegun /\ [Next]_vars => [\A p \in Live : Fate(p)]_vars
  BY StepFates
<1>4. [\A p \in Live : Fate(p)]_vars =>
        [ \A p \in Live :
            \/ Carried(p)
            \/ p = current /\ ~pcb_has_next_instruction(p)
            \/ status = "loading" /\ status' = "prompt" /\ p.pc = 0 ]_vars
  BY DEF Fate
<1> QED
  BY <1>1, <1>2, <1>3, <1>4, Inductive, PTL DEF Spec, RunsToItsEnd

=============================================================================
