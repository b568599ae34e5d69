-------------------------- MODULE WorkerPool_proofs --------------------------
(***************************************************************************)
(* For any number of workers, any programs and any number of exec commands *)
(* in MT mode: until the user quits no process has two executors, the      *)
(* ready queue is never corrupted and no process is lost before its last   *)
(* line. While no slice expires, the count of active workers is exact.     *)
(* From quit on, which drains the queue without its mutex, all that is     *)
(* left of this is that state stays in its types.                          *)
(***************************************************************************)
EXTENDS WorkerPool, FiniteSetTheorems, TLAPS

\* Process p has lines left.
More(p) == pc[p] < End(p)

\* A worker keeps the PCB it popped until it has asked whether it is complete.
Holding(w) ==
  at[w] \in {"popped", "run", "requeue", "add", "broadcast", "count_out",
             "check", "count_out_complete", "free"}

InQueue(q, p) == \E i \in 1 .. Len(q) : q[i] = p

NoRepeats(q) == \A i, j \in 1 .. Len(q) : q[i] = q[j] => i = j

HoldersHaveProcess == \A w \in Workers : Holding(w) => mine[w] \in PIDs

\* Queued, held and freed processes are of an exec command that was given.
Issued ==
  /\ \A p \in PIDs : InQueue(queue, p) => p[1] <= execs
  /\ \A w \in Workers : Holding(w) => mine[w][1] <= execs
  /\ \A p \in freed : p[1] <= execs

\* A PCB is freed when its process has no lines left, and a process that a
\* worker puts back, or that is in the queue while a worker still looks at it,
\* has some.
FreedWhenComplete ==
  /\ \A p \in PIDs : InQueue(queue, p) =>
       p \notin freed /\ (More(p) \/ \A w \in Workers : Holding(w) => mine[w] # p)
  /\ \A p \in freed : ~More(p)
  /\ \A w \in Workers :
       /\ at[w] \in {"count_out_complete", "free"} => ~More(mine[w])
       /\ at[w] = "requeue" => More(mine[w])

\* Only once quit drains the queue does an addition take several steps.
AddsWhileQuitting == \A w \in Workers : at[w] = "add" => Quitting

IInv ==
  /\ TypeOK
  /\ HoldersHaveProcess
  /\ AddsWhileQuitting
  /\ OneExecutor
  /\ ~Quitting => NoRepeats(queue) /\ Issued /\ FreedWhenComplete

\* A worker has executed its RR_counter lines of the process it runs.
CountersBounded ==
  ~Quitting => \A w \in Workers : at[w] = "run" => counter[w] <= pc[mine[w]]

\* While no slice expires, no process is put back: the worker that popped it
\* has it to itself until it has freed it, and is counted in meanwhile.
Undisturbed ==
  /\ \A w \in Workers : at[w] \notin {"requeue", "broadcast", "count_out"}
  /\ \A w \in Workers : Holding(w) =>
       /\ ~InQueue(queue, mine[w]) /\ mine[w] \notin freed
       /\ \A v \in Workers : Holding(v) /\ mine[v] = mine[w] => v = w
       /\ at[w] \in {"check", "count_out_complete", "free"} => ~More(mine[w])
  /\ num_active_threads = Cardinality(Active)

Counted ==
  /\ slice = 0 => num_active_threads = 0 /\ \A w \in Workers : at[w] = "uncreated"
  /\ CountersBounded
  /\ slice # 0 /\ ~Quitting /\ NoSliceExpires => Undisturbed

-----------------------------------------------------------------------------
(* The ready queue as a sequence.                                          *)

LEMMA PopHead ==
  ASSUME NEW q \in Seq(PIDs), q # <<>>, NoRepeats(q)
  PROVE  /\ Head(q) \in PIDs
         /\ InQueue(q, Head(q))
         /\ Tail(q) \in Seq(PIDs)
         /\ NoRepeats(Tail(q))
         /\ ~InQueue(Tail(q), Head(q))
         /\ \A p \in PIDs : InQueue(Tail(q), p) => InQueue(q, p)
<1>1. Len(q) \in Nat /\ Len(q) >= 1
  OBVIOUS
<1>2. Head(q) = q[1] /\ q[1] \in PIDs
  BY <1>1
<1>3. /\ Tail(q) \in Seq(PIDs) /\ Len(Tail(q)) = Len(q) - 1
      /\ \A i \in 1 .. Len(Tail(q)) : Tail(q)[i] = q[i + 1]
  BY <1>1
<1>4. \A i \in 1 .. Len(Tail(q)) : i + 1 \in 1 .. Len(q) /\ i + 1 # 1
  BY <1>1, <1>3
<1>5. NoRepeats(Tail(q))
  BY <1>1, <1>3, <1>4 DEF NoRepeats
<1>6. ~InQueue(Tail(q), Head(q))
  BY <1>1, <1>2, <1>3, <1>4 DEF NoRepeats, InQueue
<1> QED
  BY <1>1, <1>2, <1>3, <1>4, <1>5, <1>6 DEF InQueue

LEMMA PutBack ==
  ASSUME NEW q \in Seq(PIDs), NEW p \in PIDs, ~InQueue(q, p), NoRepeats(q)
  PROVE  /\ Append(q, p) \in Seq(PIDs)
         /\ NoRepeats(Append(q, p))
         /\ \A o \in PIDs : InQueue(Append(q, p), o) <=> InQueue(q, o) \/ o = p
<1> DEFINE r == Append(q, p)
<1>1. /\ r \in Seq(PIDs) /\ Len(r) = Len(q) + 1 /\ Len(q) \in Nat
      /\ \A i \in 1 .. Len(q) : r[i] = q[i]
      /\ r[Len(q) + 1] = p
  OBVIOUS
<1> HIDE DEF r
<1>2. \A i \in 1 .. Len(r) : i \in 1 .. Len(q) \/ i = Len(q) + 1
  BY <1>1
<1>3. NoRepeats(r)
  BY <1>1, <1>2 DEF NoRepeats, InQueue
<1>4. ASSUME NEW o \in PIDs
      PROVE  InQueue(r, o) <=> InQueue(q, o) \/ o = p
  <2>1. ASSUME InQueue(q, o) PROVE InQueue(r, o)
    BY <1>1, <2>1 DEF InQueue
  <2>2. InQueue(r, p)
    <3>1. Len(q) + 1 \in 1 .. Len(r)
      BY <1>1
    <3> QED
      BY <1>1, <3>1 DEF InQueue
  <2>3. ASSUME InQueue(r, o) PROVE InQueue(q, o) \/ o = p
    BY <1>1, <1>2, <2>3 DEF InQueue
  <2> QED
    BY <2>1, <2>2, <2>3
<1> QED
  BY <1>1, <1>3, <1>4 DEF r

\* The processes of an exec command are new.
LEMMA AddExec ==
  ASSUME NEW q \in Seq(PIDs), NoRepeats(q),
         NEW e \in 1 .. MaxExecs,
         \A p \in PIDs : InQueue(q, p) => p[1] < e
  PROVE  LET r == q \o [k \in Programs |-> <<e, k>>]
         IN  /\ r \in Seq(PIDs)
             /\ NoRepeats(r)
             /\ \A p \in PIDs : InQueue(r, p) => InQueue(q, p) \/ p[1] = e
<1> DEFINE new == [k \in Programs |-> <<e, k>>]
           r == q \o new
<1>1. Len(Lengths) \in Nat
  BY PoolAssumption
<1>2. new \in Seq(PIDs) /\ Len(new) = Len(Lengths)
      /\ \A k \in 1 .. Len(new) : new[k] = <<e, k>>
  BY <1>1 DEF Programs, PIDs
<1>3. /\ r \in Seq(PIDs) /\ Len(r) = Len(q) + Len(new) /\ Len(q) \in Nat
      /\ \A i \in 1 .. Len(q) : r[i] = q[i]
      /\ \A i \in 1 .. Len(r) : i > Len(q) => r[i] = new[i - Len(q)]
  BY <1>1, <1>2
<1>4. \A i \in 1 .. Len(r) : i > Len(q) => r[i] = <<e, i - Len(q)>>
  BY <1>1, <1>2, <1>3
<1> HIDE DEF r, new
<1>5. \A i \in 1 .. Len(q) : q[i] \in PIDs /\ q[i][1] < e
  BY <1>3 DEF InQueue
<1>8. \A i \in 1 .. Len(r) :
        /\ i <= Len(q) => r[i][1] # e
        /\ i > Len(q) => r[i][1] = e
  <2> SUFFICES ASSUME NEW i \in 1 .. Len(r)
               PROVE  /\ i <= Len(q) => r[i][1] # e
                      /\ i > Len(q) => r[i][1] = e
    OBVIOUS
  <2>1. ASSUME i <= Len(q) PROVE r[i][1] # e
    <3>1. i \in 1 .. Len(q)
      BY <1>1, <1>2, <1>3, <2>1
    <3>2. r[i] \in PIDs /\ r[i][1] < e
      BY <1>3, <1>5, <3>1
    <3> QED
      BY <3>2 DEF PIDs
  <2>2. ASSUME i > Len(q) PROVE r[i][1] = e
    BY <1>4, <2>2
  <2> QED
    BY <2>1, <2>2
<1>6. NoRepeats(r)
  <2> SUFFICES ASSUME NEW i \in 1 .. Len(r), NEW j \in 1 .. Len(r), r[i] = r[j]
               PROVE  i = j
    BY DEF NoRepeats
  <2>0. i \in Int /\ j \in Int
    BY <1>1, <1>2, <1>3
  <2>1. CASE i <= Len(q) /\ j <= Len(q)
    BY <1>1, <1>2, <1>3, <2>0, <2>1 DEF NoRepeats
  <2>2. CASE i > Len(q) /\ j > Len(q)
    <3>1. r[i][2] = i - Len(q) /\ r[j][2] = j - Len(q)
      BY <1>4, <2>2
    <3> QED
      BY <1>3, <2>0, <3>1
  <2>3. CASE i <= Len(q) /\ j > Len(q)
    BY <1>8, <2>3
  <2>4. CASE i > Len(q) /\ j <= Len(q)
    BY <1>8, <2>4
  <2> QED
    BY <1>3, <2>0, <2>1, <2>2, <2>3, <2>4
<1>7. ASSUME NEW p \in PIDs, InQueue(r, p)
      PROVE  InQueue(q, p) \/ p[1] = e
  <2>1. PICK i \in 1 .. Len(r) : r[i] = p
    BY <1>7 DEF InQueue
  <2>2. CASE i > Len(q)
    BY <1>4, <2>1, <2>2
  <2>3. CASE i <= Len(q)
    <3>1. i \in 1 .. Len(q)
      BY <1>1, <1>2, <1>3, <2>3
    <3> QED
      BY <1>3, <2>1, <3>1 DEF InQueue
  <2> QED
    BY <1>1, <1>2, <1>3, <2>2, <2>3
<1> QED
  BY <1>3, <1>6, <1>7 DEF r, new

-----------------------------------------------------------------------------
(* Types.                                                                  *)

\* The part of TypeOK that is about the list.
ListTypeOK ==
  /\ head \in PIDs \cup {NoPID} /\ tail \in PIDs \cup {NoPID}
  /\ next \in [PIDs -> PIDs \cup {NoPID}]
  /\ call \in [Threads -> PopSteps \cup AddSteps]
  /\ process \in [Threads -> PIDs \cup {NoPID}]
  /\ node \in [Threads -> PIDs \cup {NoPID}]

LEMMA InitIInv == Init => IInv
<1> SUFFICES ASSUME Init PROVE IInv
  OBVIOUS
<1> USE DEF Init
<1>1. TypeOK
  <2>1. at \in [Workers -> Labels] /\ \A w \in Workers : ~Owning(w)
    BY DEF Labels, Owning
  <2>2. execs \in 0 .. MaxExecs
    BY PoolAssumption
  <2>3. queue \in Seq(PIDs) /\ ListTypeOK
    BY DEF ListTypeOK, PopSteps
  <2>4. /\ mine \in [Workers -> PIDs \cup {NoPID}]
        /\ counter \in [Workers -> Nat] /\ pc \in [PIDs -> Nat]
    OBVIOUS
  <2>5. /\ freed \in SUBSET PIDs /\ lock \in Workers \cup {NoThread}
        /\ num_active_threads \in Int /\ slice \in Slices \cup {0}
    OBVIOUS
  <2>6. flushed \in BOOLEAN /\ crashed \in BOOLEAN
    BY Zenon
  <2> QED
    BY <2>1, <2>2, <2>3, <2>4, <2>5, <2>6 DEF TypeOK, ListTypeOK
<1>2. ~ \E p \in PIDs : InQueue(queue, p)
  BY DEF InQueue
<1>3. HoldersHaveProcess /\ OneExecutor /\ NoRepeats(queue) /\ AddsWhileQuitting
  BY DEF HoldersHaveProcess, Holding, OneExecutor, Owning, NoRepeats, AddsWhileQuitting
<1>4. Issued /\ FreedWhenComplete
  BY <1>2 DEF Issued, Holding, FreedWhenComplete
<1> QED
  BY <1>1, <1>3, <1>4 DEF IInv

\* A worker that goes on to a label at which it owns a process has one.
LEMMA GotoLabels ==
  ASSUME at \in [Workers -> Labels],
         NEW w \in Workers, NEW label \in Labels, Goto(w, label)
  PROVE  /\ at' \in [Workers -> Labels]
         /\ at'[w] = label
         /\ \A v \in Workers : v # w => at'[v] = at[v]
  BY DEF Goto

\* The steps that leave the queue, the processes and the workers' hold on
\* them alone.
Calm(w) ==
  \/ LockQueue(w) \/ SeeWork(w) \/ SeeNoWork(w) \/ EndThread(w) \/ WaitForWork(w)
  \/ SpuriousWakeup(w) \/ CountIn(w) \/ RunWild(w) \/ LastLineDone(w)
  \/ Broadcast(w) \/ CountOut(w) \/ Complete(w) \/ CountOutComplete(w)
  \/ WildPointer(w)

CalmMain == CreateThreads \/ WildPointer(Main)

\* The steps of workers at the list that quit drains.
AtList(w) ==
  PopFromQueue(w) \/ PopReturn(w) \/ AddLock(w) \/ AddToQueue(w) \/ AddEnd(w)

\* The steps of the main thread that lead to the end of the program.
Leaving ==
  \/ QuitCommand \/ QuitSeeProcess \/ PopFromQueue(Main) \/ QuitFree
  \/ QuitFlush \/ QuitWait \/ MainWakesUnsignalled \/ Join \/ EndOfInput

LEMMA NextSteps ==
  ASSUME Next
  PROVE  \/ CalmMain \/ Leaving \/ ExecAdd
         \/ \E w \in Workers : \/ Calm(w) \/ AtList(w) \/ Pop(w) \/ RunLine(w)
                               \/ Requeue(w) \/ FreePCB(w)
  BY DEF Next, Worker, Quit, Calm, CalmMain, AtList, Leaving

\* What a calm step of a worker does to the workers' labels.
LEMMA CalmLabels ==
  ASSUME IInv, NEW w \in Workers, Calm(w)
  PROVE  /\ UNCHANGED <<mine, queue, pc, freed, execs>>
         /\ at' \in [Workers -> Labels]
         /\ \A v \in Workers :
              /\ Holding(v)' => Holding(v)
              /\ Owning(v)' => Owning(v)
              /\ at'[v] \in {"requeue", "add"} => at'[v] = at[v]
              /\ at'[v] \in {"count_out_complete", "free"} =>
                   at[v] \in {"count_out_complete", "free"} \/ (~Quitting => ~More(mine[v]))
<1> USE DEF Calm, At, Alive, heap, threads
<1>0. at \in [Workers -> Labels]
  BY DEF IInv, TypeOK
<1>1. CASE LockQueue(w) \/ SeeWork(w) \/ SeeNoWork(w) \/ EndThread(w)
             \/ WaitForWork(w) \/ SpuriousWakeup(w)
  BY <1>0, <1>1 DEF LockQueue, SeeWork, SeeNoWork, EndThread, WaitForWork,
       SpuriousWakeup, Goto, Labels, Holding, Owning
<1>2. CASE CountIn(w) \/ LastLineDone(w) \/ CountOut(w) \/ CountOutComplete(w)
  BY <1>0, <1>2 DEF CountIn, LastLineDone, CountOut, CountOutComplete, Goto,
       Labels, Holding, Owning
<1>3. CASE RunWild(w) \/ WildPointer(w)
  BY <1>0, <1>3 DEF RunWild, WildPointer, Holding, Owning
<1>4. CASE Broadcast(w)
  BY <1>0, <1>4 DEF Broadcast, Labels, Holding, Owning
<1>5. CASE Complete(w)
  <2>0. UNCHANGED <<mine, queue, pc, freed, execs>> /\ at[w] = "check"
    BY <1>5 DEF Complete
  <2>1. PICK more \in HasLineReads(w) :
          Goto(w, IF more THEN "start" ELSE "count_out_complete")
    BY <1>5 DEF Complete
  <2>2. CASE more
    <3>1. Goto(w, "start")
      BY <2>1, <2>2
    <3> QED
      BY <1>0, <2>0, <3>1 DEF Goto, Labels, Holding, Owning
  <2>3. CASE ~more
    <3>1. Goto(w, "count_out_complete")
      BY <2>1, <2>3
    <3>3. ASSUME mine[w] \notin freed PROVE ~More(mine[w])
      <4>1. ~HasLine(w)
        BY <2>1, <2>3, <3>3 DEF HasLineReads
      <4> QED
        BY <4>1 DEF HasLine, More
    <3>4. ~Quitting => ~More(mine[w])
      BY <3>3 DEF IInv, FreedWhenComplete
    <3> QED
      BY <1>0, <2>0, <3>1, <3>4 DEF Goto, Labels, Holding, Owning
  <2> QED
    BY <2>2, <2>3
<1> QED
  BY <1>1, <1>2, <1>3, <1>4, <1>5

LEMMA CalmMainLabels ==
  ASSUME IInv, CalmMain
  PROVE  /\ UNCHANGED <<mine, queue, pc, freed, execs>>
         /\ at' \in [Workers -> Labels]
         /\ \A v \in Workers :
              /\ Holding(v)' => Holding(v)
              /\ Owning(v)' => Owning(v)
              /\ at'[v] \in {"requeue", "add"} => at'[v] = at[v]
              /\ at'[v] \in {"count_out_complete", "free"} =>
                   at[v] \in {"count_out_complete", "free"}
<1> USE DEF heap, threads
<1>0. at \in [Workers -> Labels]
  BY DEF IInv, TypeOK
<1>1. CASE CreateThreads
  BY <1>0, <1>1 DEF CreateThreads, Labels, Holding, Owning
<1>2. CASE WildPointer(Main)
  BY <1>0, <1>2 DEF WildPointer, Holding, Owning
<1> QED
  BY <1>1, <1>2 DEF CalmMain

\* The steps that quit, and those at the list that quit drains.
LEMMA QuitSteps ==
  ASSUME IInv, Leaving \/ \E w \in Workers : AtList(w)
  PROVE  Quitting'
<1>1. CASE Leaving
  BY <1>1 DEF Leaving, QuitCommand, QuitSeeProcess, PopFromQueue, Popping,
       QuitFree, QuitFlush, QuitWait, MainWakesUnsignalled, Join, EndOfInput,
       MainAt, Quitting
<1>2. ASSUME NEW w \in Workers, AtList(w)
      PROVE  Quitting'
  <2>1. Quitting /\ UNCHANGED main
    BY <1>2 DEF AtList, PopFromQueue, PopReturn, Popping, AddLock, AddToQueue,
         AddEnd, At, IInv, AddsWhileQuitting
  <2> QED
    BY <2>1 DEF Quitting
<1> QED
  BY <1>1, <1>2

\* next of the PCBs is always a PCB or NULL.
LEMMA LinkedType ==
  ASSUME NEW q \in Seq(PIDs), next \in [PIDs -> PIDs \cup {NoPID}]
  PROVE  Linked(q) \in [PIDs -> PIDs \cup {NoPID}]
<1> SUFFICES ASSUME NEW p \in PIDs PROVE Linked(q)[p] \in PIDs \cup {NoPID}
  BY DEF Linked
<1>1. CASE \E i \in 1 .. Len(q) : q[i] = p
  <2> DEFINE i == CHOOSE i \in 1 .. Len(q) : q[i] = p
  <2>1. i \in 1 .. Len(q) /\ Len(q) \in Nat
    BY <1>1
  <2>2. Linked(q)[p] = IF i = Len(q) THEN NoPID ELSE q[i + 1]
    BY <1>1 DEF Linked
  <2>3. i # Len(q) => q[i + 1] \in PIDs
    BY <2>1
  <2> QED
    BY <2>2, <2>3
<1>2. CASE ~ \E i \in 1 .. Len(q) : q[i] = p
  BY <1>2 DEF Linked
<1> QED
  BY <1>1, <1>2

\* The queue stays in its types: the sequence first, then the list.
LEMMA NextListTypeOK ==
  ASSUME IInv, [Next]_vars
  PROVE  ListTypeOK' /\ queue' \in Seq(PIDs)
<1>0. TypeOK /\ ListTypeOK /\ HoldersHaveProcess /\ queue \in Seq(PIDs)
  BY DEF IInv, TypeOK, ListTypeOK
<1>1. CASE UNCHANGED <<queue, next, drain>>
  BY <1>0, <1>1 DEF ListTypeOK, drain, calls
<1>2. ASSUME NEW t \in Threads, PopFromQueue(t)
      PROVE  ListTypeOK' /\ queue' \in Seq(PIDs)
  <2>1. UNCHANGED <<queue, next>>
    BY <1>2 DEF PopFromQueue, heap
  <2>2. \A step \in PopSteps : \A from : Step(t, from, step) =>
          call' \in [Threads -> PopSteps \cup AddSteps]
    BY <1>0 DEF ListTypeOK, Step
  <2>3. call' \in [Threads -> PopSteps \cup AddSteps]
    BY <1>2, <2>2 DEF PopFromQueue, PopSteps
  <2>4. /\ head \in PIDs \cup {NoPID} /\ process \in [Threads -> PIDs \cup {NoPID}]
        /\ tail \in PIDs \cup {NoPID} /\ node \in [Threads -> PIDs \cup {NoPID}]
        /\ node[t] # NoPID => next[node[t]] \in PIDs \cup {NoPID}
    BY <1>0 DEF ListTypeOK
  <2>5. head' \in PIDs \cup {NoPID} /\ tail' \in PIDs \cup {NoPID}
    BY <1>2, <2>4 DEF PopFromQueue
  <2>6. /\ process' \in {process, [process EXCEPT ![t] = head]}
        /\ \/ node' \in {node, [node EXCEPT ![t] = head], [node EXCEPT ![t] = NoPID]}
           \/ node' = [node EXCEPT ![t] = next[node[t]]] /\ node[t] # NoPID
    BY <1>2 DEF PopFromQueue
  <2>7. /\ process' \in [Threads -> PIDs \cup {NoPID}]
        /\ node' \in [Threads -> PIDs \cup {NoPID}]
    BY <2>4, <2>6
  <2> QED
    BY <1>0, <2>1, <2>3, <2>5, <2>7 DEF ListTypeOK
<1>3. ASSUME NEW w \in Workers, PopReturn(w) \/ AddToQueue(w) \/ AddEnd(w)
      PROVE  ListTypeOK' /\ queue' \in Seq(PIDs)
  <2>1. w \in Threads /\ UNCHANGED queue
    BY <1>3 DEF Threads, PopReturn, AddToQueue, AddEnd
  <2>2. \A step \in PopSteps \cup AddSteps : \A from : Step(w, from, step) =>
          call' \in [Threads -> PopSteps \cup AddSteps]
    BY <1>0, <2>1 DEF ListTypeOK, Step
  <2>3. call' \in [Threads -> PopSteps \cup AddSteps]
    BY <1>3, <2>2 DEF PopReturn, AddToQueue, AddEnd, PopSteps, AddSteps
  <2>4. /\ head \in PIDs \cup {NoPID} /\ process \in [Threads -> PIDs \cup {NoPID}]
        /\ tail \in PIDs \cup {NoPID} /\ node \in [Threads -> PIDs \cup {NoPID}]
        /\ next \in [PIDs -> PIDs \cup {NoPID}] /\ mine[w] \in PIDs \cup {NoPID}
    BY <1>0 DEF ListTypeOK, TypeOK
  <2>5. at[w] = "add" => mine[w] \in PIDs
    BY <1>0 DEF HoldersHaveProcess, Holding
  <2>6. head' \in PIDs \cup {NoPID} /\ tail' \in PIDs \cup {NoPID}
    BY <1>3, <2>4 DEF PopReturn, AddToQueue, AddEnd
  <2>7. process' \in {process, [process EXCEPT ![w] = NoPID]}
    BY <1>3 DEF PopReturn, AddToQueue, AddEnd
  <2>8. node' \in {node, [node EXCEPT ![w] = tail], [node EXCEPT ![w] = NoPID]}
    BY <1>3 DEF PopReturn, AddToQueue, AddEnd
  <2>9. next' \in {next, [next EXCEPT ![node[w]] = mine[w]],
                   [next EXCEPT ![node[w]] = NoPID]}
    BY <1>3 DEF PopReturn, AddToQueue, AddEnd, heap
  <2>10. /\ process' \in [Threads -> PIDs \cup {NoPID}]
         /\ node' \in [Threads -> PIDs \cup {NoPID}]
         /\ next' \in [PIDs -> PIDs \cup {NoPID}]
    BY <2>4, <2>7, <2>8, <2>9
  <2> QED
    BY <1>0, <2>1, <2>3, <2>6, <2>10 DEF ListTypeOK
<1>4. CASE QuitFree
  <2>1. UNCHANGED <<queue, next, head, tail, node>> /\ Main \in Threads
    BY <1>4 DEF QuitFree, Threads
  <2>2. call' = [call EXCEPT ![Main] = "test"] /\ "test" \in PopSteps
    BY <1>4 DEF QuitFree, Step, PopSteps
  <2>3. process' = [process EXCEPT ![Main] = NoPID]
    BY <1>4 DEF QuitFree
  <2> QED
    BY <1>0, <2>1, <2>2, <2>3 DEF ListTypeOK
<1>5. CASE QuitCommand
  <2>1. queue # <<>> => Head(queue) \in PIDs /\ queue[Len(queue)] \in PIDs
    BY <1>0
  <2>2. <<>> \in Seq(PIDs)
    OBVIOUS
  <2> QED
    BY <1>0, <1>5, <2>1, <2>2 DEF QuitCommand, ListTypeOK, heap, calls
<1>6. ASSUME NEW w \in Workers, Requeue(w)
      PROVE  ListTypeOK' /\ queue' \in Seq(PIDs)
  <2>1. mine[w] \in PIDs
    BY <1>0, <1>6 DEF Requeue, At, HoldersHaveProcess, Holding
  <2>2. queue' \in Seq(PIDs) /\ next' = Linked(queue') /\ UNCHANGED drain
    BY <1>0, <1>6, <2>1 DEF Requeue
  <2> QED
    BY <1>0, <2>2, LinkedType DEF ListTypeOK, drain, calls
<1>7. CASE ExecAdd
  <2>1. execs + 1 \in 1 .. MaxExecs
    BY <1>0, <1>7, PoolAssumption DEF ExecAdd, TypeOK
  <2>2. [k \in Programs |-> <<execs + 1, k>>] \in Seq(PIDs)
    BY <2>1, PoolAssumption DEF Programs, PIDs
  <2>3. queue' \in Seq(PIDs) /\ next' = Linked(queue') /\ UNCHANGED drain
    BY <1>0, <1>7, <2>2 DEF ExecAdd
  <2> QED
    BY <1>0, <2>3, LinkedType DEF ListTypeOK, drain, calls
<1>8. ASSUME NEW w \in Workers, Pop(w)
      PROVE  ListTypeOK' /\ queue' \in Seq(PIDs)
  <2>1. queue' = Tail(queue) /\ queue # <<>> /\ UNCHANGED <<next, drain>>
    BY <1>8 DEF Pop, heap
  <2> QED
    BY <1>0, <2>1 DEF ListTypeOK, drain, calls
<1>9. ASSUME NEW w \in Workers, Calm(w) \/ RunLine(w) \/ FreePCB(w) \/ AddLock(w)
      PROVE  UNCHANGED <<queue, next, drain>>
  BY <1>9 DEF Calm, LockQueue, SeeWork, SeeNoWork, EndThread, WaitForWork,
       SpuriousWakeup, CountIn, RunWild, LastLineDone, Broadcast, CountOut,
       Complete, CountOutComplete, WildPointer, RunLine, FreePCB, AddLock, heap
<1>10. ASSUME CalmMain \/ QuitSeeProcess \/ QuitFlush \/ QuitWait
              \/ MainWakesUnsignalled \/ Join \/ EndOfInput
       PROVE  UNCHANGED <<queue, next, drain>>
  BY <1>10 DEF CalmMain, CreateThreads, WildPointer, QuitSeeProcess, QuitFlush,
       QuitWait, MainWakesUnsignalled, Join, EndOfInput, heap
<1>11. CASE UNCHANGED vars
  BY <1>1, <1>11 DEF vars, heap
<1>12. Main \in Threads /\ Workers \subseteq Threads
  BY DEF Threads
<1> QED
  BY <1>1, <1>2, <1>3, <1>4, <1>5, <1>6, <1>7, <1>8, <1>9, <1>10, <1>11, <1>12,
     NextSteps DEF AtList, Leaving

LEMMA NextTypeOK == IInv /\ [Next]_vars => TypeOK' /\ HoldersHaveProcess'
<1> SUFFICES ASSUME IInv, [Next]_vars PROVE TypeOK' /\ HoldersHaveProcess'
  OBVIOUS
<1>0. TypeOK /\ HoldersHaveProcess
  BY DEF IInv
<1>t. ListTypeOK' /\ queue' \in Seq(PIDs)
  BY NextListTypeOK
<1> USE PoolAssumption, ThreadsAssumption
<1>o. ASSUME HoldersHaveProcess'
      PROVE  \A v \in Workers : Owning(v)' => mine'[v] \in PIDs
  BY <1>o DEF HoldersHaveProcess, Holding, Owning
<1>1. CASE UNCHANGED vars
  <2>1. HoldersHaveProcess'
    BY <1>0, <1>1 DEF vars, threads, HoldersHaveProcess, Holding
  <2> QED
    BY <1>0, <1>1, <1>t, <1>o, <2>1 DEF vars, threads, heap, TypeOK, ListTypeOK
<1>2. ASSUME NEW w \in Workers, Calm(w)
      PROVE  TypeOK' /\ HoldersHaveProcess'
  <2> USE DEF Calm, LockQueue, SeeWork, SeeNoWork, EndThread, WaitForWork,
        SpuriousWakeup, CountIn, RunWild, LastLineDone, Broadcast, CountOut,
        Complete, CountOutComplete, WildPointer
  <2>1. /\ at' \in [Workers -> Labels]
        /\ UNCHANGED <<mine, queue, pc, freed, execs>>
        /\ HoldersHaveProcess'
    BY <1>0, <1>2, CalmLabels DEF HoldersHaveProcess
  <2>2. /\ main' \in {main, "quit_wait"}
        /\ lock' \in Workers \cup {NoThread, lock}
        /\ UNCHANGED <<slice, flushed>>
    BY <1>2
  <2>3. crashed' \in {crashed, TRUE}
    BY <1>2
  <2>4. num_active_threads' \in { num_active_threads, num_active_threads + 1,
                                  num_active_threads - 1 }
    BY <1>2
  <2>5. UNCHANGED counter \/ counter' = [counter EXCEPT ![w] = 0]
    BY <1>2 DEF threads
  <2>6. counter' \in [Workers -> Nat]
    <3>1. counter \in [Workers -> Nat]
      BY <1>0 DEF TypeOK
    <3>2. CASE UNCHANGED counter
      BY <3>1, <3>2
    <3>3. CASE counter' = [counter EXCEPT ![w] = 0]
      BY <3>1, <3>3
    <3> QED
      BY <2>5, <3>2, <3>3
  <2>10. num_active_threads' \in Int
    BY <1>0, <2>4 DEF TypeOK
  <2>8. crashed' \in BOOLEAN /\ flushed' \in BOOLEAN
    BY <1>0, <2>2, <2>3, Zenon DEF TypeOK
  <2>9. lock' \in Workers \cup {NoThread} /\ slice' \in Slices \cup {0}
    BY <1>0, <2>2, Zenon DEF TypeOK
  <2> QED
    BY <1>0, <1>t, <1>o, <2>1, <2>2, <2>6, <2>8, <2>9, <2>10 DEF TypeOK, ListTypeOK
<1>3. CASE CalmMain
  <2>1. /\ at' \in [Workers -> Labels]
        /\ UNCHANGED <<mine, pc, freed, execs>>
        /\ HoldersHaveProcess'
    BY <1>0, <1>3, CalmMainLabels DEF HoldersHaveProcess
  <2>2. /\ main' \in {main, "prompt"} /\ crashed' \in {crashed, TRUE}
        /\ slice' \in Slices \cup {slice}
        /\ UNCHANGED <<counter, lock, num_active_threads, flushed>>
    BY <1>3 DEF CalmMain, CreateThreads, WildPointer, threads
  <2>3. crashed' \in BOOLEAN /\ flushed' \in BOOLEAN
    BY <1>0, <2>2, Zenon DEF TypeOK
  <2> QED
    BY <1>0, <1>t, <1>o, <2>1, <2>2, <2>3 DEF TypeOK, ListTypeOK
<1>4. CASE Leaving
  <2>1. /\ UNCHANGED <<at, mine, counter, pc, lock, num_active_threads, slice, execs>>
        /\ main' \in { "quit_drain", "quit_pop", "quit_wait", "wait_all_done",
                       "join", "exited", main }
    BY <1>4 DEF Leaving, QuitCommand, QuitSeeProcess, PopFromQueue, QuitFree,
         QuitFlush, QuitWait, MainWakesUnsignalled, Join, EndOfInput, threads, heap
  <2>2. HoldersHaveProcess'
    BY <1>0, <2>1 DEF HoldersHaveProcess, Holding
  <2>3. freed' \in SUBSET PIDs
    <3>1. process \in [Threads -> PIDs \cup {NoPID}] /\ Main \in Threads
      BY <1>0 DEF TypeOK, Threads
    <3>2. UNCHANGED freed \/ freed' = freed \cup ({process[Main]} \ {NoPID})
      BY <1>4 DEF Leaving, QuitCommand, QuitSeeProcess, PopFromQueue, QuitFree,
           QuitFlush, QuitWait, MainWakesUnsignalled, Join, EndOfInput, heap
    <3> QED
      BY <1>0, <3>1, <3>2 DEF TypeOK
  <2>4. crashed' \in BOOLEAN /\ flushed' \in BOOLEAN
    <3>1. /\ UNCHANGED crashed \/ crashed' = (process[Main] \in freed)
          /\ UNCHANGED flushed \/ flushed' = TRUE
      BY <1>4 DEF Leaving, QuitCommand, QuitSeeProcess, PopFromQueue, QuitFree,
           QuitFlush, QuitWait, MainWakesUnsignalled, Join, EndOfInput
    <3>2. (process[Main] \in freed) \in BOOLEAN
      OBVIOUS
    <3> QED
      BY <1>0, <3>1, <3>2, Zenon DEF TypeOK
  <2> QED
    BY <1>0, <1>t, <1>o, <2>1, <2>2, <2>3, <2>4 DEF TypeOK, ListTypeOK
<1>5. ASSUME NEW w \in Workers, RunLine(w)
      PROVE  TypeOK' /\ HoldersHaveProcess'
  <2>1. mine[w] \in PIDs /\ at[w] = "run"
    BY <1>0, <1>5 DEF RunLine, At, HoldersHaveProcess, Holding
  <2>2. /\ pc' = [pc EXCEPT ![mine[w]] = pc[mine[w]] + 1]
        /\ counter' \in {[counter EXCEPT ![w] = counter[w] + 1], [counter EXCEPT ![w] = 0]}
        /\ UNCHANGED at \/ Goto(w, "requeue")
        /\ UNCHANGED <<main, mine, freed, lock, num_active_threads, slice,
                       execs, flushed, crashed>>
    BY <1>5 DEF RunLine
  <2>3. /\ pc' \in [PIDs -> Nat] /\ counter' \in [Workers -> Nat]
        /\ at' \in [Workers -> Labels]
    <3>1. /\ pc \in [PIDs -> Nat] /\ counter \in [Workers -> Nat]
          /\ at \in [Workers -> Labels] /\ "requeue" \in Labels
      BY <1>0 DEF TypeOK, Labels
    <3>2. pc' \in [PIDs -> Nat]
      BY <2>1, <2>2, <3>1
    <3>3. counter[w] + 1 \in Nat
      BY <3>1
    <3>4. counter' \in [Workers -> Nat]
      <4>1. CASE counter' = [counter EXCEPT ![w] = counter[w] + 1]
        BY <3>1, <3>3, <4>1
      <4>2. CASE counter' = [counter EXCEPT ![w] = 0]
        BY <3>1, <4>2
      <4> QED
        BY <2>2, <4>1, <4>2
    <3>5. at' \in [Workers -> Labels]
      BY <2>2, <3>1 DEF Goto
    <3> QED
      BY <3>2, <3>4, <3>5
  <2>4. \A v \in Workers : Holding(v)' => Holding(v)
    BY <1>0, <2>1, <2>2 DEF Goto, TypeOK, Holding
  <2>5. HoldersHaveProcess'
    BY <1>0, <2>2, <2>4 DEF HoldersHaveProcess
  <2> QED
    BY <1>0, <1>t, <1>o, <2>2, <2>3, <2>5 DEF TypeOK, ListTypeOK
<1>6. ASSUME NEW w \in Workers, Pop(w) \/ PopReturn(w)
      PROVE  TypeOK' /\ HoldersHaveProcess'
  <2>1. PICK p \in PIDs \cup {NoPID} :
          \/ p # NoPID /\ Goto(w, "popped") /\ mine' = [mine EXCEPT ![w] = p]
          \/ Goto(w, "start") /\ UNCHANGED mine
    <3>1. CASE Pop(w)
      <4>1. Head(queue) \in PIDs
        BY <1>0, <3>1 DEF Pop, TypeOK
      <4>2. NoPID \notin PIDs
        BY DEF NoPID, PIDs, Programs
      <4> QED
        BY <3>1, <4>1, <4>2 DEF Pop
    <3>2. CASE PopReturn(w)
      <4>1. process[w] \in PIDs \cup {NoPID}
        BY <1>0 DEF TypeOK, Threads
      <4> QED
        BY <3>2, <4>1 DEF PopReturn
    <3> QED
      BY <1>6, <3>1, <3>2
  <2>2. /\ lock' = NoThread
        /\ UNCHANGED <<main, counter, pc, freed, num_active_threads, slice,
                       execs, flushed, crashed>>
    BY <1>6 DEF Pop, PopReturn, heap
  <2>3. at' \in [Workers -> Labels] /\ mine' \in [Workers -> PIDs \cup {NoPID}]
    <3>1. /\ at \in [Workers -> Labels]
          /\ mine \in [Workers -> PIDs \cup {NoPID}]
      BY <1>0 DEF TypeOK
    <3>2. at' \in [Workers -> Labels]
      <4>1. "popped" \in Labels /\ "start" \in Labels
        BY DEF Labels
      <4>2. \E l \in Labels : at' = [at EXCEPT ![w] = l]
        BY <2>1, <4>1 DEF Goto
      <4> QED
        BY <3>1, <4>2
    <3>3. mine' \in [Workers -> PIDs \cup {NoPID}]
      <4>1. UNCHANGED mine \/ mine' = [mine EXCEPT ![w] = p]
        BY <2>1
      <4> QED
        BY <3>1, <4>1
    <3> QED
      BY <3>2, <3>3
  <2>4. HoldersHaveProcess'
    <3>1. /\ at \in [Workers -> Labels]
          /\ mine \in [Workers -> PIDs \cup {NoPID}]
      BY <1>0 DEF TypeOK
    <3> QED
      BY <1>0, <2>1, <3>1 DEF Goto, HoldersHaveProcess, Holding
  <2> QED
    BY <1>0, <1>t, <1>o, <2>2, <2>3, <2>4 DEF TypeOK, ListTypeOK
<1>7. ASSUME NEW w \in Workers,
             Requeue(w) \/ PopFromQueue(w) \/ AddLock(w) \/ AddToQueue(w) \/ AddEnd(w)
      PROVE  TypeOK' /\ HoldersHaveProcess'
  <2>1. \/ UNCHANGED at
        \/ Holding(w) /\ (Goto(w, "broadcast") \/ Goto(w, "add"))
    BY <1>7 DEF Requeue, PopFromQueue, AddLock, AddToQueue, AddEnd, At, Holding, threads
  <2>2. /\ lock' \in {lock, w, NoThread}
        /\ UNCHANGED <<main, mine, counter, pc, freed, num_active_threads, slice,
                       execs, flushed, crashed>>
    BY <1>7 DEF Requeue, PopFromQueue, AddLock, AddToQueue, AddEnd, threads, heap
  <2>3. at' \in [Workers -> Labels]
    BY <1>0, <2>1 DEF Goto, TypeOK, Labels
  <2>4. HoldersHaveProcess'
    BY <1>0, <2>1, <2>2 DEF Goto, TypeOK, HoldersHaveProcess, Holding
  <2> QED
    BY <1>0, <1>t, <1>o, <2>2, <2>3, <2>4 DEF TypeOK, ListTypeOK
<1>8. ASSUME NEW w \in Workers, FreePCB(w)
      PROVE  TypeOK' /\ HoldersHaveProcess'
  <2>1. mine[w] \in PIDs
    BY <1>0, <1>8 DEF FreePCB, At, HoldersHaveProcess, Holding
  <2>2. HoldersHaveProcess'
    BY <1>0, <1>8 DEF FreePCB, Goto, TypeOK, HoldersHaveProcess, Holding
  <2>3. at' \in [Workers -> Labels]
    BY <1>0, <1>8 DEF FreePCB, Goto, TypeOK, Labels
  <2>4. crashed' \in BOOLEAN
    <3>1. crashed' = (mine[w] \in freed)
      BY <1>8 DEF FreePCB
    <3>2. (mine[w] \in freed) \in BOOLEAN
      OBVIOUS
    <3> QED
      BY <3>1, <3>2, Zenon
  <2> QED
    BY <1>0, <1>8, <1>t, <1>o, <2>1, <2>2, <2>3, <2>4 DEF FreePCB, TypeOK, ListTypeOK
<1>9. CASE ExecAdd
  <2>1. execs' \in 0 .. MaxExecs
    BY <1>0, <1>9 DEF ExecAdd, TypeOK
  <2>2. HoldersHaveProcess'
    BY <1>0, <1>9 DEF ExecAdd, threads, HoldersHaveProcess, Holding
  <2> QED
    BY <1>0, <1>9, <1>t, <1>o, <2>1, <2>2 DEF ExecAdd, threads, TypeOK, ListTypeOK
<1> QED
  BY <1>1, <1>2, <1>3, <1>4, <1>5, <1>6, <1>7, <1>8, <1>9, NextSteps DEF AtList

-----------------------------------------------------------------------------
(* Owners of processes, and the freed ones.                                *)

LEMMA QueuedInQueue == \A p : Queued(p) <=> InQueue(queue, p)
  BY DEF Queued, InQueue

\* A process leaves the queue, for a worker or for good.
LEMMA AfterPop ==
  ASSUME IInv, ~Quitting, queue # <<>>
  PROVE  /\ Head(queue) \in PIDs
         /\ Head(queue)[1] <= execs
         /\ InQueue(queue, Head(queue))
         /\ NoRepeats(Tail(queue))
         /\ ~InQueue(Tail(queue), Head(queue))
         /\ \A p \in PIDs : InQueue(Tail(queue), p) => InQueue(queue, p)
         /\ \A w \in Workers : Owning(w) => mine[w] # Head(queue)
<1>1. queue \in Seq(PIDs) /\ NoRepeats(queue)
  BY DEF IInv, TypeOK
<1>2. /\ Head(queue) \in PIDs
      /\ InQueue(queue, Head(queue))
      /\ NoRepeats(Tail(queue))
      /\ ~InQueue(Tail(queue), Head(queue))
      /\ \A p \in PIDs : InQueue(Tail(queue), p) => InQueue(queue, p)
  BY <1>1, PopHead
<1>3. \A w \in Workers : Owning(w) => mine[w] # Head(queue)
  BY <1>2, QueuedInQueue DEF IInv, OneExecutor
<1> QED
  BY <1>2, <1>3 DEF IInv, Issued

\* A step that keeps the queue and the processes, and lets workers only let
\* go of them.
LEMMA LettingGo ==
  ASSUME IInv, TypeOK', HoldersHaveProcess',
         UNCHANGED <<mine, queue, pc, freed, execs>>,
         Quitting => Quitting',
         \A v \in Workers :
           /\ Holding(v)' => Holding(v)
           /\ Owning(v)' => Owning(v)
           /\ at'[v] \in {"requeue", "add"} => at'[v] = at[v]
           /\ at'[v] \in {"count_out_complete", "free"} =>
                \/ at[v] \in {"count_out_complete", "free"}
                \/ ~Quitting => ~More(mine[v])
  PROVE  IInv'
<1>1. AddsWhileQuitting'
  BY DEF IInv, AddsWhileQuitting
<1>2. OneExecutor'
  BY DEF IInv, OneExecutor, Queued
<1>3. (~Quitting => NoRepeats(queue) /\ Issued /\ FreedWhenComplete)'
  <2> SUFFICES ASSUME ~Quitting'
               PROVE  (NoRepeats(queue) /\ Issued /\ FreedWhenComplete)'
    OBVIOUS
  <2>1. NoRepeats(queue) /\ Issued /\ FreedWhenComplete /\ ~Quitting
    BY DEF IInv
  <2>2. \A p : More(p)' <=> More(p)
    BY DEF More
  <2>3. Issued'
    BY <2>1 DEF Issued
  <2>4. FreedWhenComplete'
    BY <2>1, <2>2 DEF FreedWhenComplete
  <2> QED
    BY <2>1, <2>3, <2>4
<1> QED
  BY <1>1, <1>2, <1>3 DEF IInv

LEMMA CalmKeepsMain ==
  ASSUME CalmMain \/ \E w \in Workers : Calm(w)
  PROVE  Quitting' <=> Quitting
<1>1. CASE CalmMain
  BY <1>1 DEF CalmMain, CreateThreads, WildPointer, MainAt, Quitting
<1>2. ASSUME NEW w \in Workers, Calm(w)
      PROVE  Quitting' <=> Quitting
  BY <1>2 DEF Calm, LockQueue, SeeWork, SeeNoWork, EndThread, WaitForWork,
       SpuriousWakeup, CountIn, RunWild, LastLineDone, Broadcast, CountOut,
       Complete, CountOutComplete, WildPointer, Quitting
<1> QED
  BY <1>1, <1>2

LEMMA CalmIInv ==
  ASSUME IInv, TypeOK', HoldersHaveProcess', CalmMain \/ \E w \in Workers : Calm(w)
  PROVE  IInv'
BY CalmKeepsMain, CalmLabels, CalmMainLabels, LettingGo

LEMMA QuitIInv ==
  ASSUME IInv, TypeOK', HoldersHaveProcess',
         Leaving \/ \E w \in Workers : AtList(w)
  PROVE  IInv'
BY QuitSteps DEF IInv, AddsWhileQuitting, OneExecutor

LEMMA PopIInv ==
  ASSUME IInv, TypeOK', HoldersHaveProcess', NEW w \in Workers, Pop(w)
  PROVE  IInv'
<1> DEFINE h == Head(queue)
<1>0. at \in [Workers -> Labels] /\ mine \in [Workers -> PIDs \cup {NoPID}]
  BY DEF IInv, TypeOK
<1>1. /\ queue' = Tail(queue) /\ queue # <<>>
      /\ mine' = [mine EXCEPT ![w] = h]
      /\ UNCHANGED <<pc, freed, execs, main>> /\ ~Quitting /\ ~Quitting'
      /\ Goto(w, "popped") /\ at[w] = "pop"
  BY DEF Pop, At, Quitting, heap
<1>2. \A v \in Workers : /\ at'[v] = IF v = w THEN "popped" ELSE at[v]
                         /\ mine'[v] = IF v = w THEN h ELSE mine[v]
  BY <1>0, <1>1 DEF Goto
<1>3. /\ h \in PIDs /\ h[1] <= execs /\ InQueue(queue, h)
      /\ NoRepeats(queue') /\ ~InQueue(queue', h)
      /\ \A p \in PIDs : InQueue(queue', p) => InQueue(queue, p)
      /\ \A v \in Workers : Owning(v) => mine[v] # h
  BY <1>1, AfterPop
<1> HIDE DEF h
<1>4. \A v \in Workers : v # w => /\ Holding(v)' <=> Holding(v)
                                  /\ Owning(v)' <=> Owning(v)
  BY <1>2 DEF Holding, Owning
<1>5. AddsWhileQuitting'
  BY <1>1, <1>2 DEF IInv, AddsWhileQuitting
<1>6. Issued'
  BY <1>1, <1>2, <1>3, <1>4 DEF IInv, Issued
<1>7. OneExecutor'
  <2> SUFFICES ASSUME NEW v \in Workers, Owning(v)'
               PROVE  /\ ~InQueue(queue', mine'[v])
                      /\ \A u \in Workers :
                           Owning(u)' /\ mine'[u] = mine'[v] => u = v
    BY DEF OneExecutor, Queued, InQueue
  <2>1. CASE v = w
    BY <1>2, <1>3, <1>4, <2>1
  <2>2. CASE v # w
    <3>1. Owning(v) /\ mine'[v] = mine[v] /\ mine[v] \in PIDs
      BY <1>2, <1>4, <2>2 DEF IInv, TypeOK
    <3>2. ~InQueue(queue, mine[v])
      BY <1>1, <3>1, QueuedInQueue DEF IInv, OneExecutor
    <3>3. \A u \in Workers : Owning(u) /\ mine[u] = mine[v] => u = v
      BY <1>1, <3>1 DEF IInv, OneExecutor
    <3> QED
      BY <1>2, <1>3, <1>4, <3>1, <3>2, <3>3
  <2> QED
    BY <2>1, <2>2
<1>8. FreedWhenComplete'
  <2>2. FreedWhenComplete
    BY <1>1 DEF IInv
  <2>3. \A p : More(p)' <=> More(p)
    BY <1>1 DEF More
  <2>4. \A p \in PIDs : InQueue(queue', p) => p # h
    BY <1>3
  <2>5. \A p \in PIDs : InQueue(queue', p) =>
          p \notin freed' /\ (More(p)' \/ \A v \in Workers : Holding(v)' => mine'[v] # p)
    BY <1>1, <1>2, <1>3, <1>4, <2>2, <2>3, <2>4 DEF FreedWhenComplete
  <2> QED
    BY <1>1, <1>2, <2>2, <2>3, <2>5 DEF FreedWhenComplete
<1> QED
  BY <1>3, <1>5, <1>6, <1>7, <1>8 DEF IInv

\* A worker may only run a line of a process that is not complete, so not of
\* one that is freed or that another worker is about to free.
LEMMA RunLineIInv ==
  ASSUME IInv, TypeOK', HoldersHaveProcess', NEW w \in Workers, RunLine(w)
  PROVE  IInv'
<1>0. at \in [Workers -> Labels] /\ pc \in [PIDs -> Nat]
  BY DEF IInv, TypeOK
<1>1. /\ at[w] = "run" /\ More(mine[w])
      /\ UNCHANGED <<main, mine, queue, freed, execs>>
      /\ pc' = [pc EXCEPT ![mine[w]] = pc[mine[w]] + 1]
  BY DEF RunLine, HasLine, More, At
<1>2. mine[w] \in PIDs
  BY <1>1 DEF IInv, HoldersHaveProcess, Holding
<1>3. /\ \A v \in Workers : v # w => at'[v] = at[v]
      /\ \/ at'[w] = "run"
         \/ at'[w] = "requeue" /\ pc[mine[w]] + 1 < End(mine[w])
  BY <1>0, <1>1 DEF RunLine, Goto
<1>4. \A p \in PIDs : p # mine[w] => (More(p)' <=> More(p))
  BY <1>0, <1>1, <1>2 DEF More
<1>5. at'[w] = "requeue" => More(mine[w])'
  BY <1>0, <1>1, <1>2, <1>3 DEF More
<1>6. \A v \in Workers : (Holding(v)' <=> Holding(v)) /\ (Owning(v)' <=> Owning(v))
  BY <1>1, <1>3 DEF Holding, Owning
<1> SUFFICES ASSUME ~Quitting'
             PROVE  (OneExecutor /\ NoRepeats(queue) /\ Issued /\ FreedWhenComplete)'
  <2>1. AddsWhileQuitting'
    BY <1>1, <1>3 DEF IInv, AddsWhileQuitting, Quitting
  <2> QED
    BY <2>1 DEF IInv, OneExecutor
<1>q. ~Quitting
  BY <1>1 DEF Quitting
<1>7. NoRepeats(queue)' /\ Issued'
  BY <1>1, <1>6, <1>q DEF IInv, Issued
<1>8. OneExecutor'
  BY <1>1, <1>6, <1>q DEF IInv, OneExecutor, Queued
<1>9. FreedWhenComplete'
  <2>1. FreedWhenComplete
    BY <1>q DEF IInv
  <2>2. ~InQueue(queue, mine[w])
    BY <1>1, <1>q, QueuedInQueue DEF IInv, OneExecutor, Owning
  <2>3. \A p \in PIDs : InQueue(queue', p) =>
          p \notin freed' /\ (More(p)' \/ \A v \in Workers : Holding(v)' => mine'[v] # p)
    BY <1>1, <1>4, <1>6, <2>1, <2>2 DEF FreedWhenComplete
  <2>4. \A p \in freed' : ~More(p)'
    BY <1>1, <1>4, <2>1 DEF FreedWhenComplete, IInv, TypeOK
  <2>5. ASSUME NEW v \in Workers
        PROVE  /\ at'[v] \in {"count_out_complete", "free"} => ~More(mine[v])'
               /\ at'[v] = "requeue" => More(mine[v])'
    <3>1. CASE v = w
      BY <1>3, <1>5, <3>1
    <3>2. CASE v # w /\ at[v] \in {"count_out_complete", "free", "requeue"}
      <4>1. mine[v] # mine[w] /\ mine[v] \in PIDs
        BY <1>1, <1>q, <2>1, <3>2 DEF IInv, FreedWhenComplete, HoldersHaveProcess,
             Holding, OneExecutor, Owning
      <4> QED
        BY <1>1, <1>3, <1>4, <2>1, <3>2, <4>1 DEF FreedWhenComplete
    <3> QED
      BY <1>3, <3>1, <3>2
  <2> QED
    BY <2>3, <2>4, <2>5 DEF FreedWhenComplete
<1> QED
  BY <1>7, <1>8, <1>9

LEMMA RequeueIInv ==
  ASSUME IInv, TypeOK', HoldersHaveProcess', NEW w \in Workers, Requeue(w)
  PROVE  IInv'
<1>0. at \in [Workers -> Labels] /\ queue \in Seq(PIDs) /\ NoRepeats(queue)
  BY DEF Requeue, IInv, TypeOK
<1> DEFINE p == mine[w]
<1>1. /\ at[w] = "requeue"
      /\ queue' = Append(queue, p)
      /\ UNCHANGED <<main, mine, pc, freed, execs>> /\ ~Quitting /\ ~Quitting'
  BY DEF Requeue, At, Quitting
<1>2. p \in PIDs /\ p[1] <= execs
  BY <1>1 DEF IInv, HoldersHaveProcess, Issued, Holding
<1>3. ~InQueue(queue, p)
  BY <1>1, QueuedInQueue DEF IInv, OneExecutor, Owning
<1>4. /\ NoRepeats(queue')
      /\ \A o \in PIDs : InQueue(queue', o) <=> InQueue(queue, o) \/ o = p
  BY <1>0, <1>1, <1>2, <1>3, PutBack
<1>5. \A v \in Workers : at'[v] = IF v = w THEN "broadcast" ELSE at[v]
  BY <1>0 DEF Requeue, Goto
<1>6. \A v \in Workers : /\ Holding(v)' <=> Holding(v)
                         /\ Owning(v)' <=> Owning(v) /\ v # w
  BY <1>1, <1>5 DEF Holding, Owning
<1>7. AddsWhileQuitting'
  BY <1>1, <1>5 DEF IInv, AddsWhileQuitting
<1>8. Issued'
  BY <1>1, <1>2, <1>4, <1>6 DEF IInv, Issued
<1>9. OneExecutor'
  <2> SUFFICES ASSUME NEW v \in Workers, Owning(v)'
               PROVE  /\ ~InQueue(queue', mine'[v])
                      /\ \A u \in Workers :
                           Owning(u)' /\ mine'[u] = mine'[v] => u = v
    BY DEF OneExecutor, Queued, InQueue
  <2>1. Owning(v) /\ v # w /\ mine[v] \in PIDs
    BY <1>6 DEF IInv, TypeOK
  <2>2. ~InQueue(queue, mine[v]) /\ mine[v] # p
    BY <1>1, <2>1, QueuedInQueue DEF IInv, OneExecutor, Owning
  <2>3. \A u \in Workers : Owning(u) /\ mine[u] = mine[v] => u = v
    BY <1>1, <2>1 DEF IInv, OneExecutor
  <2> QED
    BY <1>1, <1>4, <1>6, <2>1, <2>2, <2>3
<1>10. FreedWhenComplete'
  <2>1. FreedWhenComplete
    BY <1>1 DEF IInv
  <2>2. More(p) /\ p \notin freed
    BY <1>1, <2>1 DEF FreedWhenComplete
  <2>3. \A o : More(o)' <=> More(o)
    BY <1>1 DEF More
  <2>4. \A o \in PIDs : InQueue(queue', o) =>
          o \notin freed' /\ (More(o)' \/ \A v \in Workers : Holding(v)' => mine'[v] # o)
    BY <1>1, <1>4, <1>6, <2>1, <2>2, <2>3 DEF FreedWhenComplete
  <2> QED
    BY <1>1, <1>5, <2>1, <2>3, <2>4 DEF FreedWhenComplete
<1> QED
  BY <1>4, <1>7, <1>8, <1>9, <1>10 DEF IInv

LEMMA FreePCBIInv ==
  ASSUME IInv, TypeOK', HoldersHaveProcess', NEW w \in Workers, FreePCB(w)
  PROVE  IInv'
<1>0. at \in [Workers -> Labels]
  BY DEF IInv, TypeOK
<1>1. /\ at[w] = "free" /\ freed' = freed \cup {mine[w]}
      /\ UNCHANGED <<main, mine, queue, pc, execs>>
  BY DEF FreePCB, At
<1>3. \A v \in Workers : at'[v] = IF v = w THEN "start" ELSE at[v]
  BY <1>0 DEF FreePCB, Goto
<1>4. \A v \in Workers : (Holding(v)' => Holding(v)) /\ (Owning(v)' => Owning(v))
  BY <1>3 DEF Holding, Owning
<1> SUFFICES ASSUME ~Quitting'
             PROVE  (OneExecutor /\ NoRepeats(queue) /\ Issued /\ FreedWhenComplete)'
  <2>1. AddsWhileQuitting'
    BY <1>1, <1>3 DEF IInv, AddsWhileQuitting, Quitting
  <2> QED
    BY <2>1 DEF IInv, OneExecutor
<1>q. ~Quitting
  BY <1>1 DEF Quitting
<1>2. mine[w] \in PIDs /\ mine[w][1] <= execs /\ Holding(w)
  BY <1>1, <1>q DEF IInv, HoldersHaveProcess, Issued, Holding
<1>5. NoRepeats(queue)' /\ Issued'
  BY <1>1, <1>2, <1>4, <1>q DEF IInv, Issued
<1>6. OneExecutor'
  BY <1>1, <1>4, <1>q DEF IInv, OneExecutor, Queued
<1>7. FreedWhenComplete'
  <2>1. FreedWhenComplete
    BY <1>q DEF IInv
  <2>2. ~More(mine[w]) /\ ~InQueue(queue, mine[w])
    BY <1>1, <1>2, <2>1 DEF FreedWhenComplete
  <2>3. \A o : More(o)' <=> More(o)
    BY <1>1 DEF More
  <2> QED
    BY <1>1, <1>3, <1>4, <2>1, <2>2, <2>3 DEF FreedWhenComplete
<1> QED
  BY <1>5, <1>6, <1>7

LEMMA ExecAddIInv ==
  ASSUME IInv, TypeOK', HoldersHaveProcess', ExecAdd
  PROVE  IInv'
<1> USE PoolAssumption
<1> DEFINE e == execs + 1
<1>q. ~Quitting /\ ~Quitting'
  BY DEF ExecAdd, MainAt, Quitting
<1>0. queue \in Seq(PIDs) /\ NoRepeats(queue) /\ execs \in 0 .. MaxExecs
  BY <1>q DEF IInv, TypeOK
<1>1. /\ queue' = queue \o [k \in Programs |-> <<e, k>>]
      /\ execs' = e /\ e \in 1 .. MaxExecs
      /\ main = "prompt" /\ main' = "create"
      /\ UNCHANGED <<at, mine, pc, freed>>
  BY <1>0 DEF ExecAdd, MainAt, threads, heap
<1>2. \A p \in PIDs : InQueue(queue, p) => p[1] < e
  BY <1>0, <1>q DEF IInv, Issued, PIDs
<1>3. /\ NoRepeats(queue')
      /\ \A p \in PIDs : InQueue(queue', p) => InQueue(queue, p) \/ p[1] = e
  BY <1>0, <1>1, <1>2, AddExec
<1>4. \A v \in Workers : (Holding(v)' <=> Holding(v)) /\ (Owning(v)' <=> Owning(v))
  BY <1>1 DEF Holding, Owning
<1>5. /\ \A v \in Workers : Holding(v) => mine[v] \in PIDs /\ mine[v][1] < e
      /\ \A p \in freed : p[1] < e
  <2>1. \A p \in PIDs : p[1] <= execs => p[1] < e
    BY <1>0 DEF PIDs
  <2>2. \A v \in Workers : Holding(v) => mine[v] \in PIDs /\ mine[v][1] <= execs
    BY <1>q DEF IInv, Issued, HoldersHaveProcess
  <2>3. freed \subseteq PIDs /\ \A p \in freed : p[1] <= execs
    BY <1>q DEF IInv, TypeOK, Issued
  <2> QED
    BY <2>1, <2>2, <2>3
<1>6. AddsWhileQuitting'
  BY <1>1, <1>q DEF IInv, AddsWhileQuitting
<1>7. Issued'
  <2>1. \A p \in PIDs : p[1] < e \/ p[1] = e => p[1] <= e
    BY <1>0 DEF PIDs
  <2>2. freed \subseteq PIDs
    BY DEF IInv, TypeOK
  <2> QED
    BY <1>1, <1>2, <1>3, <1>4, <1>5, <2>1, <2>2 DEF Issued
<1>8. \A p \in PIDs : p[1] = e => ~ (p[1] < e)
  BY <1>0 DEF PIDs
<1>9. OneExecutor'
  <2> SUFFICES ASSUME NEW v \in Workers, Owning(v)'
               PROVE  /\ ~InQueue(queue', mine'[v])
                      /\ \A u \in Workers :
                           Owning(u)' /\ mine'[u] = mine'[v] => u = v
    BY DEF OneExecutor, Queued, InQueue
  <2>1. Owning(v) /\ Holding(v)
    BY <1>4 DEF Owning, Holding
  <2>2. ~InQueue(queue, mine[v])
    BY <1>q, <2>1, QueuedInQueue DEF IInv, OneExecutor
  <2>3. \A u \in Workers : Owning(u) /\ mine[u] = mine[v] => u = v
    BY <1>q, <2>1 DEF IInv, OneExecutor
  <2> QED
    BY <1>1, <1>3, <1>4, <1>5, <1>8, <2>1, <2>2, <2>3
<1>10. FreedWhenComplete'
  <2>1. FreedWhenComplete
    BY <1>q DEF IInv
  <2>2. \A p : More(p)' <=> More(p)
    BY <1>1 DEF More
  <2>3. \A p \in PIDs : InQueue(queue', p) =>
          p \notin freed' /\ (More(p)' \/ \A v \in Workers : Holding(v)' => mine'[v] # p)
    BY <1>1, <1>3, <1>4, <1>5, <1>8, <2>1, <2>2 DEF FreedWhenComplete
  <2> QED
    BY <1>1, <2>1, <2>2, <2>3 DEF FreedWhenComplete
<1> QED
  BY <1>3, <1>6, <1>7, <1>9, <1>10 DEF IInv

-----------------------------------------------------------------------------
(* The count of active threads.                                            *)

LEMMA EndIsInt ==
  ASSUME NEW p \in PIDs
  PROVE  End(p) \in Int
<1>0. /\ p[2] \in Programs /\ Len(Lengths) \in Nat /\ p[2] \in Nat
      /\ Lengths[p[2]] \in Nat
  BY PoolAssumption DEF PIDs, Programs
<1>1. IsFiniteSet((1 .. p[2] - 1) \X (1 .. 2))
  <2>1. p[2] - 1 \in Int /\ 1 \in Int /\ 2 \in Int
    BY <1>0
  <2>2. IsFiniteSet(1 .. p[2] - 1) /\ IsFiniteSet(1 .. 2)
    BY <2>1, FS_Interval
  <2> QED
    BY <2>2, FS_Product
<1>2. IsFiniteSet(PagesBefore(p[2]))
  BY <1>1, FS_Subset DEF PagesBefore
<1>3. Cardinality(PagesBefore(p[2])) \in Nat
  BY <1>2, FS_CardinalityType
<1>4. base_address[p[2]] = 3 * Cardinality(PagesBefore(p[2]))
  BY <1>0 DEF base_address
<1> QED
  BY <1>0, <1>3, <1>4 DEF End

LEMMA ActiveIsFinite == IsFiniteSet(Active) /\ Active \subseteq Workers
BY PoolAssumption, FS_Subset DEF Active

\* A step that leaves the processes alone, moves no worker to a label that the
\* hypothesis excludes, and counts as it moves them.
LEMMA StaysUndisturbed ==
  ASSUME Undisturbed,
         UNCHANGED <<mine, queue, pc, freed>>,
         \A v \in Workers :
           /\ at'[v] \notin {"requeue", "broadcast", "count_out"}
           /\ Holding(v)' => Holding(v)
           /\ at'[v] \in {"check", "count_out_complete", "free"} => ~More(mine[v]),
         num_active_threads' = Cardinality(Active')
  PROVE  Undisturbed'
<1>1. \A p : More(p)' <=> More(p)
  BY DEF More
<1> QED
  BY <1>1 DEF Undisturbed

\* The steps at which a worker moves and the count follows it.
LEMMA CalmUndisturbed ==
  ASSUME IInv, Undisturbed, NEW w \in Workers, Calm(w)
  PROVE  Undisturbed'
<1> USE DEF At
<1>0. at \in [Workers -> Labels] /\ num_active_threads \in Int
  BY DEF IInv, TypeOK
<1>1. /\ UNCHANGED <<mine, queue, pc, freed>>
      /\ \A v \in Workers : Holding(v)' => Holding(v)
  BY CalmLabels
<1>2. \A v \in Workers :
        /\ at[v] \notin {"requeue", "broadcast", "count_out"}
        /\ at[v] \in {"check", "count_out_complete", "free"} => ~More(mine[v])
  BY DEF Undisturbed, Holding
<1>3. num_active_threads = Cardinality(Active)
  BY DEF Undisturbed
<1>4. ASSUME NEW label \in Labels, Goto(w, label)
      PROVE  \A v \in Workers : at'[v] = IF v = w THEN label ELSE at[v]
  BY <1>0, <1>4 DEF Goto
<1>5. CASE LockQueue(w) \/ SeeWork(w) \/ SeeNoWork(w) \/ EndThread(w)
             \/ WaitForWork(w) \/ SpuriousWakeup(w)
  <2>1. /\ num_active_threads' = num_active_threads
        /\ at[w] \in {"start", "woken", "test", "empty", "waiting"}
    BY <1>5 DEF LockQueue, SeeWork, SeeNoWork, EndThread, WaitForWork, SpuriousWakeup
  <2>2. PICK label \in {"test", "pop", "empty", "ended", "waiting", "woken"} :
          Goto(w, label)
    BY <1>5 DEF LockQueue, SeeWork, SeeNoWork, EndThread, WaitForWork, SpuriousWakeup
  <2>3. \A v \in Workers : at'[v] = IF v = w THEN label ELSE at[v]
    BY <1>4, <2>2 DEF Labels
  <2>4. Active' = Active
    BY <2>1, <2>3 DEF Active
  <2> QED
    BY <1>1, <1>2, <1>3, <2>1, <2>3, <2>4, StaysUndisturbed
<1>6. CASE RunWild(w) \/ WildPointer(w)
  <2>1. UNCHANGED <<at, num_active_threads>>
    BY <1>6 DEF RunWild, WildPointer, threads
  <2>2. Active' = Active
    BY <2>1 DEF Active
  <2> QED
    BY <1>1, <1>2, <1>3, <2>1, <2>2, StaysUndisturbed
<1>7. CASE CountIn(w)
  <2>1. num_active_threads' = num_active_threads + 1 /\ at[w] = "popped" /\ Goto(w, "run")
    BY <1>7 DEF CountIn
  <2>2. \A v \in Workers : at'[v] = IF v = w THEN "run" ELSE at[v]
    BY <1>4, <2>1 DEF Labels
  <2>3. Active' = Active \cup {w} /\ w \notin Active
    BY <2>1, <2>2 DEF Active
  <2>4. Cardinality(Active') = Cardinality(Active) + 1
    BY <2>3, ActiveIsFinite, FS_AddElement
  <2> QED
    BY <1>1, <1>2, <1>3, <2>1, <2>2, <2>4, StaysUndisturbed
<1>8. CASE LastLineDone(w)
  <2>1. /\ num_active_threads' = num_active_threads
        /\ at[w] = "run" /\ Goto(w, "check") /\ ~HasLine(w)
    BY <1>8 DEF LastLineDone
  <2>2. \A v \in Workers : at'[v] = IF v = w THEN "check" ELSE at[v]
    BY <1>4, <2>1 DEF Labels
  <2>3. Active' = Active
    BY <2>1, <2>2 DEF Active
  <2>4. ~More(mine[w])
    BY <2>1 DEF HasLine, More
  <2> QED
    BY <1>1, <1>2, <1>3, <2>1, <2>2, <2>3, <2>4, StaysUndisturbed
<1>9. CASE Complete(w)
  <2>1. num_active_threads' = num_active_threads /\ at[w] = "check"
    BY <1>9 DEF Complete
  <2>2. Goto(w, "count_out_complete")
    <3>1. mine[w] \notin freed /\ ~More(mine[w])
      BY <2>1 DEF Undisturbed, Holding
    <3>2. HasLineReads(w) = {HasLine(w)}
      BY <3>1 DEF HasLineReads
    <3>3. PICK more \in HasLineReads(w) :
            Goto(w, IF more THEN "start" ELSE "count_out_complete")
      BY <1>9 DEF Complete
    <3>4. ~more
      BY <3>1, <3>2, <3>3 DEF HasLine, More
    <3> QED
      BY <3>3, <3>4
  <2>3. \A v \in Workers : at'[v] = IF v = w THEN "count_out_complete" ELSE at[v]
    BY <1>4, <2>2 DEF Labels
  <2>4. Active' = Active
    BY <2>1, <2>3 DEF Active
  <2> QED
    BY <1>1, <1>2, <1>3, <2>1, <2>3, <2>4, StaysUndisturbed
<1>10. CASE CountOutComplete(w)
  <2>1. /\ num_active_threads' = num_active_threads - 1
        /\ at[w] = "count_out_complete" /\ Goto(w, "free")
    BY <1>10 DEF CountOutComplete
  <2>2. \A v \in Workers : at'[v] = IF v = w THEN "free" ELSE at[v]
    BY <1>4, <2>1 DEF Labels
  <2>3. Active' = Active \ {w} /\ w \in Active
    BY <2>1, <2>2 DEF Active
  <2>4. Cardinality(Active') = Cardinality(Active) - 1
    BY <2>3, ActiveIsFinite, FS_RemoveElement
  <2> QED
    BY <1>1, <1>2, <1>3, <2>1, <2>2, <2>4, StaysUndisturbed
<1>11. CASE Broadcast(w) \/ CountOut(w)
  BY <1>2, <1>11 DEF Broadcast, CountOut
<1> QED
  BY <1>5, <1>6, <1>7, <1>8, <1>9, <1>10, <1>11 DEF Calm

LEMMA PopUndisturbed ==
  ASSUME IInv, Undisturbed, ~Quitting, NEW w \in Workers, Pop(w)
  PROVE  Undisturbed'
<1>0. at \in [Workers -> Labels] /\ mine \in [Workers -> PIDs \cup {NoPID}]
  BY DEF IInv, TypeOK
<1>1. /\ at[w] = "pop" /\ UNCHANGED <<pc, freed, num_active_threads, main>>
      /\ \A v \in Workers :
           /\ at[v] \notin {"requeue", "broadcast", "count_out"}
           /\ at[v] \in {"check", "count_out_complete", "free"} => ~More(mine[v])
      /\ num_active_threads = Cardinality(Active)
  BY DEF Pop, At, heap, Undisturbed, Holding
<1> DEFINE h == Head(queue)
<1>2. /\ queue' = Tail(queue)
      /\ mine' = [mine EXCEPT ![w] = h]
      /\ Goto(w, "popped") /\ queue # <<>>
  BY DEF Pop
<1>3. \A v \in Workers : /\ at'[v] = IF v = w THEN "popped" ELSE at[v]
                         /\ mine'[v] = IF v = w THEN h ELSE mine[v]
  BY <1>0, <1>2 DEF Goto
<1>4. /\ h \in PIDs /\ InQueue(queue, h) /\ ~InQueue(queue', h)
      /\ \A p \in PIDs : InQueue(queue', p) => InQueue(queue, p)
  BY <1>2, AfterPop
<1> HIDE DEF h
<1>5. Active' = Active
  BY <1>1, <1>3 DEF Active
<1>6. \A v \in Workers : v # w => (Holding(v)' <=> Holding(v))
  BY <1>3 DEF Holding
<1>7. \A p : More(p)' <=> More(p)
  BY <1>1 DEF More
<1>8. \A v \in Workers : Holding(v) => mine[v] # h /\ mine[v] \in PIDs
  BY <1>4 DEF Undisturbed, IInv, HoldersHaveProcess
<1>9. h \notin freed
  BY <1>4 DEF IInv, FreedWhenComplete
<1> QED
  BY <1>1, <1>3, <1>4, <1>5, <1>6, <1>7, <1>8, <1>9 DEF Undisturbed

LEMMA RunLineCounted ==
  ASSUME IInv, CountersBounded, ~Quitting, NEW w \in Workers, RunLine(w)
  PROVE  /\ CountersBounded'
         /\ slice # 0 /\ NoSliceExpires /\ Undisturbed => Undisturbed'
<1>0. /\ at \in [Workers -> Labels] /\ pc \in [PIDs -> Nat] /\ slice \in Slices \cup {0}
      /\ counter \in [Workers -> Nat]
  BY DEF IInv, TypeOK
<1>1. /\ at[w] = "run" /\ counter[w] <= pc[mine[w]]
      /\ UNCHANGED <<mine, queue, freed, num_active_threads>>
      /\ pc' = [pc EXCEPT ![mine[w]] = pc[mine[w]] + 1]
      /\ IF counter[w] + 1 >= slice /\ pc[mine[w]] + 1 < End(mine[w])
           THEN Goto(w, "requeue") /\ counter' = [counter EXCEPT ![w] = 0]
           ELSE UNCHANGED at /\ counter' = [counter EXCEPT ![w] = counter[w] + 1]
  BY DEF RunLine, At, CountersBounded
<1>2. mine[w] \in PIDs
  BY <1>1 DEF IInv, HoldersHaveProcess, Holding
<1>3. \A p \in PIDs : p # mine[w] => pc'[p] = pc[p]
  BY <1>0, <1>1, <1>2
<1>4. pc'[mine[w]] = pc[mine[w]] + 1 /\ pc[mine[w]] \in Nat
  BY <1>0, <1>1, <1>2
<1>5. CountersBounded'
  <2> SUFFICES ASSUME NEW v \in Workers, at'[v] = "run"
               PROVE  counter'[v] <= pc'[mine[v]]
    BY <1>1 DEF CountersBounded
  <2>1. at[v] = "run" /\ counter[v] <= pc[mine[v]] /\ mine[v] \in PIDs
    <3>1. v = w \/ at'[v] = at[v]
      BY <1>0, <1>1 DEF Goto
    <3> QED
      BY <1>1, <3>1 DEF CountersBounded, IInv, HoldersHaveProcess, Holding
  <2>2. CASE v = w
    <3>1. counter'[w] <= counter[w] + 1 /\ counter'[w] \in Nat /\ counter[w] \in Nat
      BY <1>0, <1>1
    <3> QED
      BY <1>1, <1>4, <2>2, <3>1
  <2>3. CASE v # w
    <3>1. mine[v] # mine[w]
      BY <1>1, <2>1, <2>3 DEF IInv, OneExecutor, Owning
    <3>2. counter'[v] = counter[v]
      BY <1>0, <1>1, <2>3
    <3> QED
      BY <1>3, <2>1, <3>1, <3>2
  <2> QED
    BY <2>2, <2>3
<1>6. ASSUME slice # 0, NoSliceExpires, Undisturbed
      PROVE  Undisturbed'
  <2>1. UNCHANGED at
    <3>1. End(mine[w]) \in Int /\ End(mine[w]) <= slice
      BY <1>2, <1>6, EndIsInt DEF NoSliceExpires
    <3>2. slice \in Int /\ counter[w] \in Nat
      BY <1>0, <1>6 DEF Slices
    <3>3. ~(counter[w] + 1 >= slice /\ pc[mine[w]] + 1 < End(mine[w]))
      BY <1>1, <1>4, <3>1, <3>2
    <3> QED
      BY <1>1, <3>3
  <2>2. Active' = Active
    BY <2>1 DEF Active
  <2>3. ASSUME NEW v \in Workers, at[v] \in {"check", "count_out_complete", "free"}
        PROVE  ~More(mine[v])'
    <3>1. ~More(mine[v]) /\ mine[v] \in PIDs /\ mine[v] # mine[w]
      BY <1>1, <1>6, <2>3 DEF Undisturbed, Holding, IInv, HoldersHaveProcess
    <3> QED
      BY <1>1, <1>3, <3>1 DEF More
  <2> QED
    BY <1>1, <1>6, <2>1, <2>2, <2>3 DEF Undisturbed, Holding
<1> QED
  BY <1>5, <1>6

LEMMA FreePCBUndisturbed ==
  ASSUME IInv, Undisturbed, NEW w \in Workers, FreePCB(w)
  PROVE  Undisturbed'
<1>0. at \in [Workers -> Labels]
  BY DEF IInv, TypeOK
<1>1. /\ at[w] = "free" /\ freed' = freed \cup {mine[w]}
      /\ UNCHANGED <<mine, queue, pc, num_active_threads>>
  BY DEF FreePCB, At
<1>2. \A v \in Workers : at'[v] = IF v = w THEN "start" ELSE at[v]
  BY <1>0 DEF FreePCB, Goto
<1>3. \A v \in Workers : Holding(v)' <=> Holding(v) /\ v # w
  BY <1>1, <1>2 DEF Holding
<1>4. Active' = Active
  BY <1>1, <1>2 DEF Active
<1>5. \A v \in Workers : Holding(v) /\ v # w => mine[v] # mine[w]
  BY <1>1 DEF Undisturbed, Holding
<1>6. \A p : More(p)' <=> More(p)
  BY <1>1 DEF More
<1> QED
  BY <1>1, <1>2, <1>3, <1>4, <1>5, <1>6 DEF Undisturbed

LEMMA ExecAddUndisturbed ==
  ASSUME IInv, Undisturbed, ExecAdd
  PROVE  Undisturbed'
<1> DEFINE e == execs + 1
<1>q. ~Quitting
  BY DEF ExecAdd, MainAt, Quitting
<1>0. /\ queue \in Seq(PIDs) /\ NoRepeats(queue) /\ execs \in 0 .. MaxExecs
      /\ MaxExecs \in Nat
  BY <1>q, PoolAssumption DEF IInv, TypeOK
<1>1. /\ queue' = queue \o [k \in Programs |-> <<e, k>>]
      /\ e \in 1 .. MaxExecs
      /\ UNCHANGED <<at, mine, pc, freed, num_active_threads>>
  BY <1>0 DEF ExecAdd, threads, heap
<1>2. \A p \in PIDs : InQueue(queue, p) => p[1] < e
  BY <1>0, <1>q DEF IInv, Issued, PIDs
<1>3. \A p \in PIDs : InQueue(queue', p) => InQueue(queue, p) \/ p[1] = e
  BY <1>0, <1>1, <1>2, AddExec
<1>4. \A v \in Workers : Holding(v) => mine[v] \in PIDs /\ mine[v][1] # e
  <2>1. \A p \in PIDs : p[1] <= execs => p[1] # e
    BY <1>0 DEF PIDs
  <2> QED
    BY <1>q, <2>1 DEF IInv, Issued, HoldersHaveProcess
<1>5. Active' = Active /\ \A v \in Workers : Holding(v)' <=> Holding(v)
  BY <1>1 DEF Active, Holding
<1>6. \A p : More(p)' <=> More(p)
  BY <1>1 DEF More
<1> QED
  BY <1>1, <1>3, <1>4, <1>5, <1>6 DEF Undisturbed

\* The slice and quitting go one way.
LEMMA OneWay ==
  ASSUME IInv, [Next]_vars
  PROVE  /\ Quitting => Quitting'
         /\ slice' # slice => CreateThreads /\ slice = 0
<1> USE DEF vars, threads, heap, drain, calls
<1>1. ASSUME \E w \in Workers : Calm(w)
      PROVE  UNCHANGED slice
  BY <1>1 DEF Calm, LockQueue, SeeWork, SeeNoWork, EndThread, WaitForWork,
     SpuriousWakeup, CountIn, RunWild, LastLineDone, Broadcast, CountOut,
     Complete, CountOutComplete, WildPointer
<1>2. ASSUME NEW w \in Workers, AtList(w)
      PROVE  UNCHANGED slice
  BY <1>2 DEF AtList, PopFromQueue, PopReturn, AddLock, AddToQueue, AddEnd
<1>3. ASSUME NEW w \in Workers, Pop(w) \/ RunLine(w) \/ Requeue(w) \/ FreePCB(w)
      PROVE  UNCHANGED <<main, slice>>
  BY <1>3 DEF Pop, RunLine, Requeue, FreePCB
<1>4. CASE Leaving
  BY <1>4, QuitSteps DEF Leaving, QuitCommand, QuitSeeProcess, PopFromQueue,
     QuitFree, QuitFlush, QuitWait, MainWakesUnsignalled, Join, EndOfInput
<1>5. CASE ExecAdd
  BY <1>5 DEF ExecAdd, MainAt, Quitting
<1>6. CASE CalmMain
  <2>1. slice' # slice => CreateThreads /\ slice = 0
    BY <1>6 DEF CalmMain, CreateThreads, WildPointer
  <2> QED
    BY <1>6, <2>1, CalmKeepsMain
<1>7. CASE UNCHANGED vars
  BY <1>7 DEF Quitting
<1> QED
  BY <1>1, <1>2, <1>3, <1>4, <1>5, <1>6, <1>7, NextSteps, QuitSteps, CalmKeepsMain
     DEF Quitting

\* Before the workers are created there is none to move.
LEMMA NoWorkersYet ==
  ASSUME IInv, Counted, slice = 0, [Next]_vars
  PROVE  CreateThreads \/ UNCHANGED <<at, num_active_threads>>
<1> USE DEF threads, heap, drain, calls
<1>1. \A w \in Workers : at[w] = "uncreated"
  BY DEF Counted
<1>2. ASSUME NEW w \in Workers, Calm(w)
      PROVE  UNCHANGED <<at, num_active_threads>>
  BY <1>1, <1>2 DEF Calm, LockQueue, SeeWork, SeeNoWork, EndThread, WaitForWork,
     SpuriousWakeup, CountIn, RunWild, LastLineDone, Broadcast, CountOut,
     Complete, CountOutComplete, WildPointer, At
<1>4. ASSUME NEW w \in Workers,
             AtList(w) \/ Pop(w) \/ RunLine(w) \/ Requeue(w) \/ FreePCB(w)
      PROVE  UNCHANGED <<at, num_active_threads>>
  <2>1. Main # w
    BY ThreadsAssumption
  <2> QED
    BY <1>1, <1>4, <2>1 DEF AtList, PopFromQueue, PopReturn, Popping, AddLock,
       AddToQueue, AddEnd, Pop, RunLine, Requeue, FreePCB, At
<1>3. CASE Leaving \/ ExecAdd \/ WildPointer(Main)
  BY <1>3 DEF Leaving, QuitCommand, QuitSeeProcess, PopFromQueue, QuitFree,
     QuitFlush, QuitWait, MainWakesUnsignalled, Join, EndOfInput, ExecAdd,
     WildPointer
<1> QED
  BY <1>2, <1>3, <1>4, NextSteps DEF vars, CalmMain

\* A worker's counter is reset when it starts a process.
LEMMA NextCounters ==
  ASSUME IInv, CountersBounded, [Next]_vars
  PROVE  CountersBounded'
<1>0. /\ at \in [Workers -> Labels] /\ pc \in [PIDs -> Nat]
      /\ mine \in [Workers -> PIDs \cup {NoPID}] /\ counter \in [Workers -> Nat]
  BY DEF IInv, TypeOK
<1> SUFFICES ASSUME ~Quitting' PROVE CountersBounded'
  BY DEF CountersBounded
<1>q. ~Quitting
  BY OneWay
<1>1. ASSUME NEW w \in Workers, RunLine(w) PROVE CountersBounded'
  BY <1>q, <1>1, RunLineCounted
<1>2. ASSUME NEW w \in Workers, CountIn(w) PROVE CountersBounded'
  <2>1. /\ at[w] = "popped" /\ Goto(w, "run") /\ counter' = [counter EXCEPT ![w] = 0]
        /\ UNCHANGED <<mine, pc>>
    BY <1>2 DEF CountIn, At, heap
  <2>2. pc[mine[w]] \in Nat
    BY <1>0, <2>1 DEF IInv, HoldersHaveProcess, Holding
  <2> QED
    BY <1>0, <1>q, <2>1, <2>2 DEF CountersBounded, Goto
<1>3. ASSUME NEW w \in Workers, UNCHANGED pc,
             \A v \in Workers : at'[v] = "run" =>
               at[v] = "run" /\ mine'[v] = mine[v] /\ counter'[v] = counter[v]
      PROVE  CountersBounded'
  BY <1>q, <1>3 DEF CountersBounded
<1>4. ASSUME NEW w \in Workers, Pop(w) PROVE CountersBounded'
  <2>1. /\ UNCHANGED <<counter, pc>> /\ Goto(w, "popped")
        /\ \A v \in Workers : v # w => mine'[v] = mine[v]
    BY <1>0, <1>4 DEF Pop, heap
  <2> QED
    BY <1>0, <1>3, <2>1 DEF Goto
<1>5. ASSUME NEW w \in Workers,
             \/ LockQueue(w) \/ SeeWork(w) \/ SeeNoWork(w) \/ EndThread(w)
             \/ WaitForWork(w) \/ SpuriousWakeup(w) \/ LastLineDone(w)
             \/ Requeue(w) \/ CountOut(w) \/ CountOutComplete(w) \/ FreePCB(w)
      PROVE  CountersBounded'
  <2>1. /\ UNCHANGED <<pc, mine>>
        /\ \E label \in Labels \ {"run"} : Goto(w, label)
        /\ counter' \in {counter, [counter EXCEPT ![w] = 0]}
    BY <1>5 DEF LockQueue, SeeWork, SeeNoWork, EndThread, WaitForWork,
       SpuriousWakeup, LastLineDone, Requeue, CountOut, CountOutComplete,
       FreePCB, heap, Labels
  <2> QED
    BY <1>0, <1>3, <2>1 DEF Goto
<1>6. ASSUME NEW w \in Workers, Complete(w) PROVE CountersBounded'
  <2>1. /\ UNCHANGED <<counter, pc, mine>>
        /\ Goto(w, "start") \/ Goto(w, "count_out_complete")
    BY <1>6 DEF Complete, heap
  <2> QED
    BY <1>0, <1>3, <2>1 DEF Goto
<1>7. ASSUME NEW w \in Workers, Broadcast(w) PROVE CountersBounded'
  BY <1>0, <1>3, <1>7 DEF Broadcast, heap
<1>9. CASE UNCHANGED <<counter, pc, mine, at>>
  BY <1>q, <1>9 DEF CountersBounded
<1>8. CASE CreateThreads
  <2>1. /\ UNCHANGED <<counter, pc, mine>>
        /\ UNCHANGED at \/ at' = [w \in Workers |-> "start"]
    BY <1>8 DEF CreateThreads, heap
  <2> QED
    BY <1>9, <2>1 DEF CountersBounded
<1>10. ASSUME NEW w \in Workers, RunWild(w) \/ WildPointer(w)
       PROVE  UNCHANGED <<counter, pc, mine, at>>
  BY <1>10 DEF RunWild, WildPointer, threads, heap
<1>11. ASSUME ExecAdd \/ WildPointer(Main) \/ UNCHANGED vars
       PROVE  UNCHANGED <<counter, pc, mine, at>>
  BY <1>11 DEF ExecAdd, WildPointer, threads, heap, vars
<1> QED
  BY <1>1, <1>2, <1>4, <1>5, <1>6, <1>7, <1>8, <1>9, <1>10, <1>11, NextSteps,
     QuitSteps DEF Calm, CalmMain

LEMMA NextCounted == IInv /\ Counted /\ [Next]_vars => Counted'
<1> SUFFICES ASSUME IInv, Counted, [Next]_vars PROVE Counted'
  OBVIOUS
<1>0. slice \in Slices \cup {0} /\ at \in [Workers -> Labels]
  BY DEF IInv, TypeOK
<1>1. CountersBounded'
  BY NextCounters DEF Counted
<1>2. slice' = 0 => num_active_threads' = 0 /\ \A w \in Workers : at'[w] = "uncreated"
  <2> SUFFICES ASSUME slice' = 0
               PROVE  num_active_threads' = 0 /\ \A w \in Workers : at'[w] = "uncreated"
    OBVIOUS
  <2>1. slice = 0
    BY OneWay
  <2>2. ~CreateThreads
    BY <2>1 DEF CreateThreads, Slices
  <2> QED
    BY <2>1, <2>2, NoWorkersYet DEF Counted
<1>3. ASSUME slice' # 0, ~Quitting', NoSliceExpires'
      PROVE  Undisturbed'
  <2>1. ~Quitting
    BY <1>3, OneWay
  <2>2. CASE slice = 0
    <3>1. CreateThreads
      BY <1>3, <2>2, OneWay
    <3>2. /\ at' = [w \in Workers |-> "start"]
          /\ UNCHANGED num_active_threads
      BY <2>2, <3>1 DEF CreateThreads
    <3>3. num_active_threads' = 0
      BY <2>2, <3>2 DEF Counted
    <3>4. Active' = {}
      BY <3>2 DEF Active
    <3> QED
      BY <3>2, <3>3, <3>4, FS_EmptySet DEF Undisturbed, Holding
  <2>3. CASE slice # 0
    <3>1. slice' = slice
      BY <2>3, OneWay
    <3>2. NoSliceExpires /\ Undisturbed
      BY <1>3, <2>1, <2>3, <3>1 DEF NoSliceExpires, Counted
    <3>3. CASE UNCHANGED <<at, mine, queue, pc, freed, num_active_threads>>
      BY <3>2, <3>3 DEF Undisturbed, Holding, Active, More
    <3>4. ASSUME NEW w \in Workers, Calm(w) PROVE Undisturbed'
      BY <3>2, <3>4, CalmUndisturbed
    <3>5. ASSUME NEW w \in Workers, Pop(w) \/ RunLine(w) \/ FreePCB(w)
          PROVE  Undisturbed'
      BY <2>1, <2>3, <3>2, <3>5, PopUndisturbed, RunLineCounted, FreePCBUndisturbed
         DEF Counted
    <3>6. ASSUME NEW w \in Workers, Requeue(w) PROVE FALSE
      BY <3>2, <3>6 DEF Requeue, At, Undisturbed
    <3>7. CASE ExecAdd
      BY <3>2, <3>7, ExecAddUndisturbed
    <3>8. CASE CalmMain
      BY <2>3, <3>3, <3>8 DEF CalmMain, CreateThreads, WildPointer, threads, heap
    <3>9. ASSUME Leaving \/ \E w \in Workers : AtList(w)
          PROVE  FALSE
      BY <1>3, <3>9, QuitSteps
    <3>10. CASE UNCHANGED vars
      BY <3>3, <3>10 DEF vars, threads, heap
    <3> QED
      BY <3>4, <3>5, <3>6, <3>7, <3>8, <3>9, <3>10, NextSteps
  <2> QED
    BY <2>2, <2>3
<1> QED
  BY <1>1, <1>2, <1>3 DEF Counted

LEMMA InitCounted == Init => Counted
BY DEF Init, Counted, CountersBounded

-----------------------------------------------------------------------------
(* Processes with lines left.                                              *)

Kept(p) == InQueue(queue, p) \/ \E w \in Workers : Owning(w) /\ mine[w] = p

AllKept == ~Quitting => \A p \in PIDs : p[1] <= execs /\ More(p) => Kept(p)

\* What a pop or an addition leaves in the queue.
LEMMA StaysQueued ==
  ASSUME NEW q \in Seq(PIDs), NEW p \in PIDs, InQueue(q, p)
  PROVE  /\ q # <<>> /\ (p = Head(q) \/ InQueue(Tail(q), p))
         /\ \A r \in Seq(PIDs) : InQueue(q \o r, p)
<1>1. PICK i \in 1 .. Len(q) : q[i] = p
  BY DEF InQueue
<1>2. Len(q) \in Nat /\ Len(q) >= 1 /\ q # <<>> /\ Head(q) = q[1]
  BY <1>1
<1>3. i = 1 => p = Head(q)
  BY <1>1, <1>2
<1>4. ASSUME i # 1 PROVE InQueue(Tail(q), p)
  <2>1. i - 1 \in 1 .. Len(Tail(q))
    BY <1>1, <1>2, <1>4
  <2>2. Tail(q)[i - 1] = q[i]
    BY <1>1, <1>2, <1>4, <2>1
  <2> QED
    BY <1>1, <2>1, <2>2 DEF InQueue
<1>5. ASSUME NEW r \in Seq(PIDs) PROVE InQueue(q \o r, p)
  <2>1. Len(r) \in Nat /\ Len(q \o r) = Len(q) + Len(r) /\ (q \o r)[i] = q[i]
    BY <1>1, <1>2
  <2>2. i \in 1 .. Len(q \o r)
    BY <1>1, <1>2, <2>1
  <2> QED
    BY <1>1, <2>1, <2>2 DEF InQueue
<1> QED
  BY <1>2, <1>3, <1>4, <1>5

\* All the programs of an exec command are queued.
LEMMA ExecQueued ==
  ASSUME NEW q \in Seq(PIDs), NEW e \in 1 .. MaxExecs, NEW k \in Programs
  PROVE  LET new == [j \in Programs |-> <<e, j>>]
         IN  new \in Seq(PIDs) /\ InQueue(q \o new, <<e, k>>)
<1> DEFINE new == [j \in Programs |-> <<e, j>>]
           r == q \o new
<1>1. Len(Lengths) \in Nat
  BY PoolAssumption
<1>2. new \in Seq(PIDs) /\ Len(new) = Len(Lengths)
      /\ \A j \in 1 .. Len(new) : new[j] = <<e, j>>
  BY <1>1 DEF Programs, PIDs
<1> HIDE DEF new
<1>3. new \in Seq(PIDs)
  BY <1>2
<1>4. Len(r) = Len(q) + Len(new) /\ Len(q) \in Nat
  BY <1>3
<1>5. k \in Nat /\ k >= 1 /\ k \in 1 .. Len(new)
  BY <1>1, <1>2 DEF Programs
<1>6. Len(q) + k \in 1 .. Len(r) /\ (Len(q) + k) - Len(q) = k
  BY <1>1, <1>2, <1>4, <1>5
<1>7. r[Len(q) + k] = new[k]
  BY <1>2, <1>4, <1>5, <1>6
<1>8. InQueue(r, <<e, k>>)
  BY <1>2, <1>5, <1>6, <1>7 DEF InQueue
<1> QED
  BY <1>2, <1>8 DEF new

\* A step that moves no process but those it may lose when they are complete.
LEMMA NobodyLost ==
  ASSUME AllKept, Quitting => Quitting', UNCHANGED <<mine, queue, pc, execs>>,
         \A v \in Workers : Owning(v) => Owning(v)' \/ (~Quitting => ~More(mine[v]))
  PROVE  AllKept'
<1> SUFFICES ASSUME ~Quitting', NEW p \in PIDs, (p[1] <= execs)', More(p)'
             PROVE  Kept(p)'
  BY DEF AllKept
<1>1. ~Quitting /\ p[1] <= execs /\ More(p)
  BY DEF More
<1>2. Kept(p)
  BY <1>1 DEF AllKept
<1>3. ASSUME NEW w \in Workers, Owning(w), mine[w] = p
      PROVE  Owning(w)' /\ mine'[w] = p
  BY <1>1, <1>3
<1> QED
  BY <1>2, <1>3 DEF Kept

LEMMA CalmKept ==
  ASSUME IInv, Counted, AllKept, CalmMain \/ \E w \in Workers : Calm(w)
  PROVE  AllKept'
<1>0. at \in [Workers -> Labels]
  BY DEF IInv, TypeOK
<1>1. CASE CalmMain
  <2>1. \A v \in Workers : Owning(v) => at'[v] = at[v]
    <3>1. CASE CreateThreads /\ slice = 0
      BY <3>1 DEF Counted, Owning
    <3>2. CASE UNCHANGED at
      BY <3>2
    <3> QED
      BY <1>1, <3>1, <3>2 DEF CalmMain, CreateThreads, WildPointer, threads
  <2>2. \A v \in Workers : Owning(v) => Owning(v)'
    BY <2>1 DEF Owning
  <2> QED
    BY <1>1, <2>2, CalmKeepsMain, CalmMainLabels, NobodyLost
<1>2. ASSUME NEW w \in Workers, Calm(w) PROVE AllKept'
  <2>1. Quitting' <=> Quitting
    BY <1>2, CalmKeepsMain
  <2>2. CASE LastLineDone(w)
    <3>1. at[w] = "run" /\ ~HasLine(w) /\ Goto(w, "check")
      BY <2>2 DEF LastLineDone, At
    <3>2. ~More(mine[w])
      BY <3>1 DEF HasLine, More
    <3>3. \A v \in Workers : v # w /\ Owning(v) => Owning(v)'
      BY <1>0, <3>1 DEF Goto, Owning
    <3> QED
      BY <1>2, <2>1, <3>2, <3>3, CalmLabels, NobodyLost
  <2>3. CASE ~LastLineDone(w)
    <3>1. ASSUME NEW v \in Workers, Owning(v) PROVE Owning(v)'
      <4>1. CASE Broadcast(w)
        BY <1>0, <3>1, <4>1 DEF Broadcast, At, Owning
      <4>2. CASE RunWild(w) \/ WildPointer(w)
        BY <3>1, <4>2 DEF RunWild, WildPointer, threads, Owning
      <4>3. CASE CountIn(w)
        BY <1>0, <3>1, <4>3 DEF CountIn, Goto, Owning
      <4>4. CASE Complete(w)
        <5>1. at[w] = "check" /\ \E label : Goto(w, label)
          BY <4>4 DEF Complete, At
        <5> QED
          BY <1>0, <3>1, <5>1 DEF Goto, Owning
      <4>5. CASE \/ LockQueue(w) \/ SeeWork(w) \/ SeeNoWork(w) \/ EndThread(w)
                  \/ WaitForWork(w) \/ SpuriousWakeup(w) \/ CountOut(w)
                  \/ CountOutComplete(w)
        <5>1. ~Owning(w) /\ \E label : Goto(w, label)
          BY <4>5 DEF LockQueue, SeeWork, SeeNoWork, EndThread, WaitForWork,
             SpuriousWakeup, CountOut, CountOutComplete, At, Owning
        <5> QED
          BY <1>0, <3>1, <5>1 DEF Goto, Owning
      <4> QED
        BY <1>2, <2>3, <4>1, <4>2, <4>3, <4>4, <4>5 DEF Calm
    <3> QED
      BY <1>2, <2>1, <3>1, CalmLabels, NobodyLost
  <2> QED
    BY <2>2, <2>3
<1> QED
  BY <1>1, <1>2

\* The head of the queue goes to the worker.
LEMMA PopKept ==
  ASSUME IInv, AllKept, NEW w \in Workers, Pop(w)
  PROVE  AllKept'
<1>0. /\ at \in [Workers -> Labels] /\ mine \in [Workers -> PIDs \cup {NoPID}]
      /\ queue \in Seq(PIDs)
  BY DEF IInv, TypeOK
<1>1. /\ at[w] = "pop" /\ ~Owning(w) /\ UNCHANGED <<main, pc, freed, execs>>
      /\ queue' = Tail(queue) /\ mine' = [mine EXCEPT ![w] = Head(queue)]
      /\ Goto(w, "popped")
  BY DEF Pop, At, Owning, heap
<1>2. /\ Owning(w)' /\ mine'[w] = Head(queue)
      /\ \A v \in Workers : Owning(v) => Owning(v)' /\ mine'[v] = mine[v]
  BY <1>0, <1>1 DEF Goto, Owning
<1> SUFFICES ASSUME ~Quitting', NEW p \in PIDs, (p[1] <= execs)', More(p)'
             PROVE  Kept(p)'
  BY DEF AllKept
<1>3. Kept(p)
  BY <1>1 DEF AllKept, Quitting, More
<1>4. CASE InQueue(queue, p)
  <2>1. p = Head(queue) \/ InQueue(queue', p)
    BY <1>0, <1>1, <1>4, StaysQueued
  <2> QED
    BY <1>2, <2>1 DEF Kept
<1>5. CASE \E v \in Workers : Owning(v) /\ mine[v] = p
  BY <1>2, <1>5 DEF Kept
<1> QED
  BY <1>3, <1>4, <1>5 DEF Kept

\* A process is executed, and put back when it has lines left.
LEMMA RunLineKept ==
  ASSUME IInv, AllKept, NEW w \in Workers, RunLine(w)
  PROVE  AllKept'
<1>0. at \in [Workers -> Labels] /\ pc \in [PIDs -> Nat]
  BY DEF IInv, TypeOK
<1>1. /\ at[w] = "run" /\ UNCHANGED <<main, mine, queue, execs>>
      /\ pc' = [pc EXCEPT ![mine[w]] = pc[mine[w]] + 1]
      /\ UNCHANGED at \/ Goto(w, "requeue")
  BY DEF RunLine, At
<1>2. \A v \in Workers : Owning(v) => Owning(v)'
  BY <1>0, <1>1 DEF Goto, Owning
<1>3. mine[w] \in PIDs /\ More(mine[w])
  BY <1>1 DEF RunLine, HasLine, More, IInv, HoldersHaveProcess, Holding
<1>4. \A p \in PIDs : More(p)' => More(p)
  BY <1>0, <1>1, <1>3 DEF More
<1> QED
  BY <1>1, <1>2, <1>4 DEF AllKept, Kept, Quitting

LEMMA RequeueKept ==
  ASSUME IInv, AllKept, NEW w \in Workers, Requeue(w)
  PROVE  AllKept'
<1>q. ~Quitting
  BY DEF Requeue
<1>0. /\ at \in [Workers -> Labels] /\ queue \in Seq(PIDs) /\ NoRepeats(queue)
  BY <1>q DEF IInv, TypeOK
<1>1. /\ at[w] = "requeue" /\ Goto(w, "broadcast")
      /\ queue' = Append(queue, mine[w])
      /\ UNCHANGED <<main, mine, pc, execs>>
  BY DEF Requeue, At, heap
<1>2. mine[w] \in PIDs /\ ~InQueue(queue, mine[w])
  BY <1>1, <1>q, QueuedInQueue DEF IInv, HoldersHaveProcess, Holding, OneExecutor, Owning
<1>3. \A p \in PIDs : InQueue(queue', p) <=> InQueue(queue, p) \/ p = mine[w]
  BY <1>0, <1>1, <1>2, PutBack
<1>4. \A v \in Workers : v # w /\ Owning(v) => Owning(v)'
  BY <1>0, <1>1 DEF Goto, Owning
<1>5. ASSUME NEW p \in PIDs, Kept(p) PROVE Kept(p)'
  BY <1>1, <1>3, <1>4, <1>5 DEF Kept
<1> QED
  BY <1>1, <1>5 DEF AllKept, Quitting, More

LEMMA FreePCBKept ==
  ASSUME IInv, AllKept, NEW w \in Workers, FreePCB(w)
  PROVE  AllKept'
<1>0. at \in [Workers -> Labels]
  BY DEF IInv, TypeOK
<1>1. at[w] = "free" /\ Goto(w, "start") /\ UNCHANGED <<main, mine, queue, pc, execs>>
  BY DEF FreePCB, At
<1>2. \A v \in Workers : Owning(v) => Owning(v)'
  BY <1>0, <1>1 DEF Goto, Owning
<1> QED
  BY <1>1, <1>2, NobodyLost DEF Quitting

LEMMA ExecAddKept ==
  ASSUME IInv, AllKept, ExecAdd
  PROVE  AllKept'
<1> DEFINE e == execs + 1
           new == [k \in Programs |-> <<e, k>>]
<1>0. queue \in Seq(PIDs) /\ execs \in 0 .. MaxExecs /\ MaxExecs \in Nat
  BY PoolAssumption DEF IInv, TypeOK
<1>1. /\ queue' = queue \o new /\ execs' = e /\ e \in 1 .. MaxExecs
      /\ main = "prompt" /\ UNCHANGED <<at, mine, pc>>
  BY <1>0 DEF ExecAdd, MainAt, threads, heap
<1>2. ~Quitting /\ \A v \in Workers : Owning(v) => Owning(v)'
  BY <1>1 DEF Quitting, Owning
<1> SUFFICES ASSUME NEW p \in PIDs, p[1] <= e, More(p)'
             PROVE  Kept(p)'
  BY <1>1 DEF AllKept
<1>3. PICK k \in Programs : p = <<p[1], k>>
  BY DEF PIDs
<1>4. new \in Seq(PIDs) /\ InQueue(queue \o new, <<e, k>>)
  BY <1>0, <1>1, <1>3, ExecQueued
<1> HIDE DEF new
<1>5. CASE p[1] = e
  BY <1>1, <1>3, <1>4, <1>5 DEF Kept
<1>6. CASE p[1] # e
  <2>1. p[1] <= execs
    BY <1>0, <1>6 DEF PIDs
  <2>2. Kept(p)
    BY <1>1, <1>2, <2>1 DEF AllKept, More
  <2>3. InQueue(queue, p) => InQueue(queue', p)
    BY <1>0, <1>1, <1>4, StaysQueued
  <2> QED
    BY <1>1, <1>2, <2>2, <2>3 DEF Kept
<1> QED
  BY <1>5, <1>6

LEMMA NextKept == IInv /\ Counted /\ AllKept /\ [Next]_vars => AllKept'
<1> SUFFICES ASSUME IInv, Counted, AllKept, [Next]_vars PROVE AllKept'
  OBVIOUS
<1>1. CASE UNCHANGED vars
  BY <1>1, NobodyLost DEF vars, threads, heap, Owning, Quitting
<1>2. CASE CalmMain \/ \E w \in Workers : Calm(w)
  BY <1>2, CalmKept
<1>3. CASE Leaving \/ \E w \in Workers : AtList(w)
  BY <1>3, QuitSteps DEF AllKept
<1>4. ASSUME NEW w \in Workers, Pop(w) \/ RunLine(w) \/ Requeue(w) \/ FreePCB(w)
      PROVE  AllKept'
  BY <1>4, PopKept, RunLineKept, RequeueKept, FreePCBKept
<1>5. CASE ExecAdd
  BY <1>5, ExecAddKept
<1> QED
  BY <1>1, <1>2, <1>3, <1>4, <1>5, NextSteps

-----------------------------------------------------------------------------
LEMMA NextIInv == IInv /\ [Next]_vars => IInv'
<1> SUFFICES ASSUME IInv, [Next]_vars PROVE IInv'
  OBVIOUS
<1>1. TypeOK' /\ HoldersHaveProcess'
  BY NextTypeOK
<1>2. CASE UNCHANGED vars
  <2>1. UNCHANGED <<main, at, mine, queue, pc, freed, execs>>
    BY <1>2 DEF vars, threads, heap
  <2> QED
    BY <1>1, <2>1, LettingGo DEF Holding, Owning, Quitting
<1>3. CASE CalmMain \/ \E w \in Workers : Calm(w)
  BY <1>1, <1>3, CalmIInv
<1>4. ASSUME NEW w \in Workers, Pop(w) \/ RunLine(w) \/ Requeue(w) \/ FreePCB(w)
      PROVE  IInv'
  BY <1>1, <1>4, PopIInv, RunLineIInv, RequeueIInv, FreePCBIInv
<1>5. CASE ExecAdd
  BY <1>1, <1>5, ExecAddIInv
<1>6. CASE Leaving \/ \E w \in Workers : AtList(w)
  BY <1>1, <1>6, QuitIInv
<1> QED
  BY <1>2, <1>3, <1>4, <1>5, <1>6, NextSteps

\* The strengthening of the properties below that every step preserves.
THEOREM Inductive == Spec => []IInv
<1>1. Init => IInv
  BY InitIInv
<1>2. IInv /\ [Next]_vars => IInv'
  BY NextIInv
<1> QED
  BY <1>1, <1>2, PTL DEF Spec

\* All state of worker_thread, MT exec and quit stays in its types, whatever
\* the threads interleave; in particular a worker past popFromQueue has a PCB.
THEOREM TypeCorrect == Spec => []TypeOK
<1>1. IInv => TypeOK
  BY DEF IInv
<1> QED
  BY <1>1, Inductive, PTL

\* Until the user quits, two workers never execute one process, nor one that is
\* in the ready queue.
THEOREM OneExecutorAtATime == Spec => []OneExecutor
<1>1. IInv => OneExecutor
  BY DEF IInv
<1> QED
  BY <1>1, Inductive, PTL

\* Until quit, the ready queue holds a process at most once and no freed PCB.
THEOREM QueueStaysIntact == Spec => []QueueIntact
<1>1. IInv => QueueIntact
  <2> SUFFICES ASSUME IInv, ~Quitting
               PROVE  /\ \A i, j \in 1 .. Len(queue) : queue[i] = queue[j] => i = j
                      /\ \A i \in 1 .. Len(queue) : queue[i] \notin freed
    BY DEF QueueIntact
  <2>1. queue \in Seq(PIDs) /\ NoRepeats(queue) /\ FreedWhenComplete
    BY DEF IInv, TypeOK
  <2>2. \A i \in 1 .. Len(queue) : queue[i] \in PIDs /\ InQueue(queue, queue[i])
    BY <2>1 DEF InQueue
  <2> QED
    BY <2>1, <2>2 DEF NoRepeats, FreedWhenComplete
<1> QED
  BY <1>1, Inductive, PTL

\* Workers, their counters and the count of them agree.
THEOREM CountedInvariant == Spec => []Counted
<1>1. Init => Counted
  BY InitCounted
<1>2. IInv /\ Counted /\ [Next]_vars => Counted'
  BY NextCounted
<1> QED
  BY <1>1, <1>2, Inductive, PTL DEF Spec

\* As long as every program ends within a slice and the user does not quit,
\* num_active_threads is exactly the number of workers at work, which is what
\* lets the others tell that everything is done (worker_thread,
\* interpreter.c:178).
THEOREM CountExact == Spec => []CountExactWithoutRequeue
<1>1. Counted => CountExactWithoutRequeue
  BY DEF Counted, Undisturbed, CountExactWithoutRequeue
<1> QED
  BY <1>1, CountedInvariant, PTL

\* Until quit, no process of any exec is lost before its last line: it waits in
\* the ready queue or one worker executes it.  That one exists is what this
\* adds to OneExecutorAtATime.
THEOREM NoneIsLost == Spec => []UnfinishedKept
<1>1. Init => AllKept
  <2> SUFFICES ASSUME Init, NEW p \in PIDs PROVE ~(p[1] <= execs)
    BY DEF AllKept
  <2>1. p[1] \in 1 .. MaxExecs /\ MaxExecs \in Nat /\ execs = 0
    BY PoolAssumption DEF PIDs, Init
  <2> QED
    BY <2>1
<1>2. IInv /\ Counted /\ AllKept /\ [Next]_vars => AllKept'
  BY NextKept
<1>3. AllKept => UnfinishedKept
  BY QueuedInQueue DEF AllKept, UnfinishedKept, Kept, More
<1> QED
  BY <1>1, <1>2, <1>3, Inductive, CountedInvariant, PTL DEF Spec

=============================================================================
