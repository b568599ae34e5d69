----------------------------- MODULE WorkerPool -----------------------------
(***************************************************************************)
(* exec ... MT in the demand-paging shell (A1-2024/starter-code): the main *)
(* thread puts processes in the ready queue and goes back to its prompt,   *)
(* two worker threads pop and execute them (worker_thread), and quit tears *)
(* everything down while they may still be at work.                        *)
(*                                                                         *)
(* The steps are those another thread can tell apart.  A critical section  *)
(* of num_active_threads_mutex is one step, since no thread blocks or      *)
(* executes a line inside one; queue_mutex is held across steps.           *)
(*                                                                         *)
(* Until the user quits, only the holder of queue_mutex touches the ready  *)
(* queue: it is a sequence, and a pop or an addition is one step.  quit    *)
(* pops without the mutex, while workers pop and add with it, so from then *)
(* on the queue is the linked list of ready_queue.c, and each load and     *)
(* each store of its shared pointers is a step of its own.                 *)
(***************************************************************************)
EXTENDS Integers, Sequences, FiniteSets

CONSTANTS
  Workers,     \* worker1, worker2
  Lengths,     \* the number of lines of each program of the exec command
  MaxExecs     \* bound: exec commands in a session

\* create_process_PCB uses an uninitialised array for a script of fewer than two
\* lines (interpreter.c, line 739): see CreateReadsUnset of DemandPaging.
ASSUME PoolAssumption ==
  /\ IsFiniteSet(Workers)
  /\ Lengths \in Seq(Nat \ {0, 1})
  /\ MaxExecs \in Nat

Main == "main"
NoThread == "none"

ASSUME ThreadsAssumption == Main \notin Workers /\ NoThread \notin Workers

Programs == 1 .. Len(Lengths)

\* A process of the e-th exec: later ones reuse the registered scripts.
PIDs == (1 .. MaxExecs) \X Programs
NoPID == <<0, 0>>

\* create_process_PCB loads at most two pages of three lines of each program,
\* one program after the other; base_address is where its first page is.
PagesLoaded(k) == IF Lengths[k] <= 3 THEN 1 ELSE 2

PagesBefore(k) ==
  { page \in (1 .. k - 1) \X (1 .. 2) : page[2] <= PagesLoaded(page[1]) }

base_address[k \in Programs] == 3 * Cardinality(PagesBefore(k))

End(p) == base_address[p[2]] + Lengths[p[2]]

\* The lines of the frame store that are not NULL.
LoadedLines ==
  UNION { { base_address[k] + i : i \in 0 .. (3 * PagesLoaded(k)) - 1 }
            \cap { base_address[k] + i : i \in 0 .. Lengths[k] - 1 } :
          k \in Programs }

Slices == {2, 30}        \* policies RR and RR30

VARIABLES
  main,        \* where the main thread is
  at,          \* where each worker is
  mine,        \* each worker's current_PCB_process
  counter,     \* each worker's RR_counter
  queue,       \* the ready queue, until the user quits
  head, tail,  \* its ends, from then on
  next,        \* next of each PCB
  call,        \* where each thread is in popFromQueue or addToQueue,
  process,     \* its local variable of popFromQueue,
  node,        \* and the PCB whose next it is about to load or store
  pc,          \* program_counter of each process
  freed,       \* processes whose PCB has been freed
  lock,        \* the holder of queue_mutex
  num_active_threads,
  slice,       \* of the policy the threads were created with; 0 before
  execs,       \* exec commands so far
  flushed,     \* quit has freed the frame store
  crashed      \* the program has crashed, or what it goes on to do is not known

threads == <<at, mine, counter>>
heap    == <<pc, freed, next>>
calls   == <<call, process, node>>
drain   == <<head, tail, calls>>

vars == <<main, threads, queue, heap, drain, lock, num_active_threads, slice,
          execs, flushed, crashed>>

Threads == Workers \cup {Main}

Init ==
  /\ main = "prompt"
  /\ at = [w \in Workers |-> "uncreated"]
  /\ mine = [w \in Workers |-> NoPID]
  /\ counter = [w \in Workers |-> 0]
  /\ queue = <<>>
  /\ head = NoPID /\ tail = NoPID
  /\ next = [p \in PIDs |-> NoPID]
  /\ call = [t \in Threads |-> "test"]
  /\ process = [t \in Threads |-> NoPID]
  /\ node = [t \in Threads |-> NoPID]
  /\ pc = [p \in PIDs |-> 0]
  /\ freed = {}
  /\ lock = NoThread
  /\ num_active_threads = 0
  /\ slice = 0
  /\ execs = 0
  /\ flushed = FALSE
  /\ crashed = FALSE

-----------------------------------------------------------------------------
(* worker_thread                                                           *)

\* The program has neither crashed nor exited.
Alive == ~crashed /\ main # "exited"

At(w, label) == Alive /\ at[w] = label

MainAt(label) == Alive /\ main = label

Quitting ==
  main \in {"quit_drain", "quit_pop", "quit_wait", "wait_all_done", "join", "exited"}

Empty == IF Quitting THEN head = NoPID ELSE queue = <<>>

Goto(w, label) == at' = [at EXCEPT ![w] = label]

LockQueue(w) ==
  /\ Alive /\ at[w] \in {"start", "woken"}
  /\ lock = NoThread
  /\ lock' = w
  /\ Goto(w, "test")
  /\ UNCHANGED <<main, mine, counter, queue, heap, drain, num_active_threads,
                 slice, execs, flushed, crashed>>

\* The queue is not empty: the worker will pop it.
SeeWork(w) ==
  /\ At(w, "test") /\ ~Empty
  /\ Goto(w, "pop")
  /\ UNCHANGED <<main, mine, counter, queue, heap, drain, lock,
                 num_active_threads, slice, execs, flushed, crashed>>

SeeNoWork(w) ==
  /\ At(w, "test") /\ Empty
  /\ Goto(w, "empty")
  /\ UNCHANGED <<main, mine, counter, queue, heap, drain, lock,
                 num_active_threads, slice, execs, flushed, crashed>>

\* No worker is active: broadcast all_done and end.
EndThread(w) ==
  /\ At(w, "empty") /\ num_active_threads = 0
  /\ main' = IF main = "wait_all_done" THEN "quit_wait" ELSE main
  /\ lock' = NoThread
  /\ Goto(w, "ended")
  /\ UNCHANGED <<mine, counter, queue, heap, drain, num_active_threads, slice,
                 execs, flushed, crashed>>

\* pthread_cond_wait(&queue_not_empty, &queue_mutex)
WaitForWork(w) ==
  /\ At(w, "empty") /\ num_active_threads # 0
  /\ lock' = NoThread
  /\ Goto(w, "waiting")
  /\ UNCHANGED <<main, mine, counter, queue, heap, drain, num_active_threads,
                 slice, execs, flushed, crashed>>

\* A condition variable may wake up unsignalled.
SpuriousWakeup(w) ==
  /\ At(w, "waiting")
  /\ Goto(w, "woken")
  /\ UNCHANGED <<main, mine, counter, queue, heap, drain, lock,
                 num_active_threads, slice, execs, flushed, crashed>>

\* popFromQueue, with nobody else at the queue; SeeWork has found it not empty.
Pop(w) ==
  /\ At(w, "pop") /\ ~Quitting /\ queue # <<>>
  /\ lock' = NoThread
  /\ mine' = [mine EXCEPT ![w] = Head(queue)]
  /\ queue' = Tail(queue)
  /\ Goto(w, "popped")
  /\ UNCHANGED <<main, counter, heap, drain, num_active_threads, slice, execs,
                 flushed, crashed>>

CountIn(w) ==
  /\ At(w, "popped")
  /\ num_active_threads' = num_active_threads + 1
  /\ counter' = [counter EXCEPT ![w] = 0]
  /\ Goto(w, "run")
  /\ UNCHANGED <<main, mine, queue, heap, drain, lock, slice, execs, flushed,
                 crashed>>

HasLine(w) == pc[mine[w]] < End(mine[w])

\* Mutant: the slice is not asked whether the process has lines left.
RunLine_NoLinesLeft(w) ==
  /\ At(w, "run") /\ HasLine(w)
  /\ ~flushed /\ pc[mine[w]] \in LoadedLines
  /\ pc' = [pc EXCEPT ![mine[w]] = pc[mine[w]] + 1]
  /\ counter' = [counter EXCEPT ![w] = counter[w] + 1]
  /\ IF counter[w] + 1 >= slice THEN Goto(w, "requeue") ELSE UNCHANGED at
  /\ UNCHANGED <<main, mine, queue, freed, next, drain, lock, num_active_threads,
                 slice, execs, flushed, crashed>>

\* The worker takes the line of the frame store at its program counter, which
\* starts at 0 and not at base_address.
RunLine(w) ==
  /\ At(w, "run") /\ HasLine(w)
  /\ ~flushed /\ pc[mine[w]] \in LoadedLines
  /\ pc' = [pc EXCEPT ![mine[w]] = pc[mine[w]] + 1]
  /\ IF counter[w] + 1 >= slice /\ pc[mine[w]] + 1 < End(mine[w])
       THEN Goto(w, "requeue") /\ counter' = [counter EXCEPT ![w] = 0]
       ELSE UNCHANGED at /\ counter' = [counter EXCEPT ![w] = counter[w] + 1]
  /\ UNCHANGED <<main, mine, queue, freed, next, drain, lock, num_active_threads,
                 slice, execs, flushed, crashed>>

\* Another worker executes the process too, after a pop of quit.
Shared(w) ==
  \E v \in Workers \ {w} : at[v] \in {"run", "check"} /\ mine[v] = mine[w]

\* The line is NULL, the PCB has been freed and need not read as it was, or the
\* program counter is another worker's too and need not be what both counted.
RunWild(w) ==
  /\ At(w, "run")
  /\ \/ HasLine(w) /\ (flushed \/ pc[mine[w]] \notin LoadedLines)
     \/ mine[w] \in freed
     \/ Quitting /\ Shared(w)
  /\ crashed' = TRUE
  /\ UNCHANGED <<main, threads, queue, heap, drain, lock, num_active_threads,
                 slice, execs, flushed>>

LastLineDone(w) ==
  /\ At(w, "run") /\ ~HasLine(w)
  /\ counter' = [counter EXCEPT ![w] = 0]
  /\ Goto(w, "check")
  /\ UNCHANGED <<main, mine, queue, heap, drain, lock,
                 num_active_threads, slice, execs, flushed, crashed>>

\* next of each PCB when q is the queue; a PCB taken out keeps what it had.
Linked(q) ==
  [p \in PIDs |->
     IF \E i \in 1 .. Len(q) : q[i] = p
       THEN LET i == CHOOSE i \in 1 .. Len(q) : q[i] = p
            IN  IF i = Len(q) THEN NoPID ELSE q[i + 1]
       ELSE next[p]]

\* Mutant: the break after the requeue is missing.
Requeue_KeepsRunning(w) ==
  /\ At(w, "requeue") /\ ~Quitting /\ lock = NoThread
  /\ queue' = Append(queue, mine[w])
  /\ Goto(w, "run")
  /\ next' = Linked(queue')
  /\ UNCHANGED <<main, mine, counter, pc, freed, drain, lock,
                 num_active_threads, slice, execs, flushed, crashed>>

\* Mutant: popFromQueue leaves tail at the process it took last, so the next
\* process added goes behind one that is not in the queue.
Requeue_StaleTail(w) ==
  /\ At(w, "requeue") /\ ~Quitting /\ lock = NoThread
  /\ queue' = IF queue = <<>> THEN <<>> ELSE Append(queue, mine[w])
  /\ Goto(w, "broadcast")
  /\ next' = Linked(queue')
  /\ UNCHANGED <<main, mine, counter, pc, freed, drain, lock,
                 num_active_threads, slice, execs, flushed, crashed>>

\* addToQueue under queue_mutex
Requeue(w) ==
  /\ At(w, "requeue") /\ ~Quitting /\ lock = NoThread
  /\ queue' = Append(queue, mine[w])
  /\ Goto(w, "broadcast")
  /\ next' = Linked(queue')
  /\ UNCHANGED <<main, mine, counter, pc, freed, drain, lock,
                 num_active_threads, slice, execs, flushed, crashed>>

\* pthread_cond_broadcast(&queue_not_empty)
Broadcast(w) ==
  /\ At(w, "broadcast")
  /\ at' = [v \in Workers |-> IF v = w THEN "count_out"
                              ELSE IF at[v] = "waiting" THEN "woken"
                              ELSE at[v]]
  /\ UNCHANGED <<main, mine, counter, queue, heap, drain, lock,
                 num_active_threads, slice, execs, flushed, crashed>>

CountOut(w) ==
  /\ At(w, "count_out")
  /\ num_active_threads' = num_active_threads - 1
  /\ Goto(w, "check")
  /\ UNCHANGED <<main, mine, counter, queue, heap, drain, lock, slice, execs,
                 flushed, crashed>>

\* What the test of the program counter finds: anything, once the PCB is freed.
HasLineReads(w) == IF mine[w] \in freed THEN BOOLEAN ELSE { HasLine(w) }

\* Is the process complete?  Asked after a requeue too, of a process another
\* worker may have popped, completed and freed by now.
Complete(w) ==
  /\ At(w, "check")
  /\ \E more \in HasLineReads(w) :
       Goto(w, IF more THEN "start" ELSE "count_out_complete")
  /\ UNCHANGED <<main, mine, counter, queue, heap, drain, lock,
                 num_active_threads, slice, execs, flushed, crashed>>

\* Mutant: the worker stays counted in after it has completed a process.
CountOutComplete_StaysIn(w) ==
  /\ At(w, "count_out_complete")
  /\ Goto(w, "free")
  /\ UNCHANGED <<main, mine, counter, queue, heap, drain, lock,
                 num_active_threads, slice, execs, flushed, crashed>>

CountOutComplete(w) ==
  /\ At(w, "count_out_complete")
  /\ num_active_threads' = num_active_threads - 1
  /\ Goto(w, "free")
  /\ UNCHANGED <<main, mine, counter, queue, heap, drain, lock, slice, execs,
                 flushed, crashed>>

\* free aborts the program when the PCB has been freed already.
FreePCB(w) ==
  /\ At(w, "free")
  /\ freed' = freed \cup {mine[w]}
  /\ crashed' = (mine[w] \in freed)
  /\ Goto(w, "start")
  /\ UNCHANGED <<main, mine, counter, queue, pc, next, drain, lock,
                 num_active_threads, slice, execs, flushed>>

-----------------------------------------------------------------------------
(* popFromQueue and addToQueue once quit drains the queue: one step for    *)
(* each load or store of a pointer that another thread may have changed.   *)

\* Thread t is in popFromQueue: main without the mutex, a worker with it.
Popping(t) ==
  Alive /\ Quitting /\ IF t = Main THEN main = "quit_pop" ELSE at[t] = "pop"

Step(t, from, to) == call[t] = from /\ call' = [call EXCEPT ![t] = to]

\* head and head->next are loaded anew each time the code names them.
PopFromQueue(t) ==
  /\ Popping(t)
  /\ \/ /\ Step(t, "test", IF head = NoPID THEN "return" ELSE "take")
        /\ UNCHANGED <<head, tail, process, node>>
     \/ /\ Step(t, "take", "look")
        /\ process' = [process EXCEPT ![t] = head]
        /\ UNCHANGED <<head, tail, node>>
     \/ /\ Step(t, "look", "follow") \/ Step(t, "move", "move_follow")
        /\ node' = [node EXCEPT ![t] = head]
        /\ UNCHANGED <<head, tail, process>>
     \/ /\ node[t] # NoPID
        /\ Step(t, "follow", IF next[node[t]] = NoPID THEN "clear_tail" ELSE "move")
        /\ node' = [node EXCEPT ![t] = NoPID]
        /\ UNCHANGED <<head, tail, process>>
     \/ /\ Step(t, "clear_tail", "clear_head")
        /\ tail' = NoPID
        /\ UNCHANGED <<head, process, node>>
     \/ /\ Step(t, "clear_head", "return")
        /\ head' = NoPID
        /\ UNCHANGED <<tail, process, node>>
     \/ /\ Step(t, "move_follow", "move_head")
        /\ node[t] # NoPID
        /\ node' = [node EXCEPT ![t] = next[node[t]]]
        /\ UNCHANGED <<head, tail, process>>
     \/ /\ Step(t, "move_head", "return")
        /\ head' = node[t]
        /\ node' = [node EXCEPT ![t] = NoPID]
        /\ UNCHANGED <<tail, process>>
  /\ UNCHANGED <<main, threads, queue, heap, lock, num_active_threads, slice,
                 execs, flushed, crashed>>

\* Mutant: the NULL that popFromQueue returns for an empty queue is not tested.
PopReturn_NullNotTested(w) ==
  /\ Popping(w) /\ Step(w, "return", "test")
  /\ lock' = NoThread
  /\ process' = [process EXCEPT ![w] = NoPID]
  /\ mine' = [mine EXCEPT ![w] = process[w]]
  /\ Goto(w, "popped")
  /\ UNCHANGED <<main, counter, queue, heap, head, tail, node,
                 num_active_threads, slice, execs, flushed, crashed>>

PopReturn(w) ==
  /\ Popping(w) /\ Step(w, "return", "test")
  /\ lock' = NoThread
  /\ process' = [process EXCEPT ![w] = NoPID]
  /\ IF process[w] = NoPID
       THEN Goto(w, "start") /\ UNCHANGED mine
       ELSE Goto(w, "popped") /\ mine' = [mine EXCEPT ![w] = process[w]]
  /\ UNCHANGED <<main, counter, queue, heap, head, tail, node,
                 num_active_threads, slice, execs, flushed, crashed>>

AddLock(w) ==
  /\ At(w, "requeue") /\ Quitting /\ lock = NoThread
  /\ lock' = w
  /\ Goto(w, "add")
  /\ UNCHANGED <<main, mine, counter, queue, heap, drain, num_active_threads,
                 slice, execs, flushed, crashed>>

AddToQueue(w) ==
  /\ At(w, "add")
  /\ \/ /\ Step(w, "test", IF tail = NoPID THEN "set_head" ELSE "load_tail")
        /\ UNCHANGED <<head, tail, node, next>>
     \/ /\ Step(w, "set_head", "set_tail")
        /\ head' = mine[w]
        /\ UNCHANGED <<tail, node, next>>
     \/ /\ Step(w, "load_tail", "link") \/ Step(w, "load_last", "end")
        /\ node' = [node EXCEPT ![w] = tail]
        /\ UNCHANGED <<head, tail, next>>
     \/ /\ Step(w, "link", "set_tail")
        /\ node[w] # NoPID
        /\ next' = [next EXCEPT ![node[w]] = mine[w]]
        /\ node' = [node EXCEPT ![w] = NoPID]
        /\ UNCHANGED <<head, tail>>
     \/ /\ Step(w, "set_tail", "load_last")
        /\ tail' = mine[w]
        /\ UNCHANGED <<head, node, next>>
  /\ UNCHANGED <<main, threads, queue, pc, freed, process, lock,
                 num_active_threads, slice, execs, flushed, crashed>>

\* tail->next = NULL, and the mutex is released.
AddEnd(w) ==
  /\ At(w, "add") /\ Step(w, "end", "test")
  /\ node[w] # NoPID
  /\ next' = [next EXCEPT ![node[w]] = NoPID]
  /\ node' = [node EXCEPT ![w] = NoPID]
  /\ lock' = NoThread
  /\ Goto(w, "broadcast")
  /\ UNCHANGED <<main, mine, counter, queue, pc, freed, head, tail, process,
                 num_active_threads, slice, execs, flushed, crashed>>

\* next of NULL is loaded or stored, or of a freed PCB, which need not be what
\* it was, nor be only this queue's.
WildPointer(t) ==
  /\ Alive
  /\ call[t] \in {"follow", "move_follow", "link", "end"}
  /\ node[t] = NoPID \/ node[t] \in freed
  /\ crashed' = TRUE
  /\ UNCHANGED <<main, threads, queue, heap, drain, lock, num_active_threads,
                 slice, execs, flushed>>

Worker(w) ==
  \/ LockQueue(w) \/ SeeWork(w) \/ SeeNoWork(w) \/ EndThread(w) \/ WaitForWork(w)
  \/ Pop(w) \/ PopFromQueue(w) \/ PopReturn(w) \/ CountIn(w)
  \/ RunLine(w) \/ RunWild(w) \/ LastLineDone(w)
  \/ Requeue(w) \/ AddLock(w) \/ AddToQueue(w) \/ AddEnd(w) \/ WildPointer(w)
  \/ Broadcast(w) \/ CountOut(w)
  \/ Complete(w) \/ CountOutComplete(w) \/ FreePCB(w)

-----------------------------------------------------------------------------
(* The main thread: exec in MT mode, and quit.                             *)

\* exec creates its processes and adds them to the queue, without a signal.
ExecAdd ==
  /\ MainAt("prompt") /\ execs < MaxExecs /\ lock = NoThread
  /\ execs' = execs + 1
  /\ queue' = queue \o [k \in Programs |-> <<execs + 1, k>>]
  /\ next' = Linked(queue')
  /\ main' = "create"
  /\ UNCHANGED <<threads, pc, freed, drain, lock, num_active_threads, slice,
                 flushed, crashed>>

\* The threads are created once, with the policy of the first exec.
CreateThreads ==
  /\ MainAt("create")
  /\ main' = "prompt"
  /\ IF slice # 0 THEN UNCHANGED <<slice, at>>
     ELSE /\ slice' \in Slices
          /\ at' = [w \in Workers |-> "start"]
  /\ UNCHANGED <<mine, counter, queue, heap, drain, lock, num_active_threads,
                 execs, flushed, crashed>>

QuitCommand ==
  /\ MainAt("prompt")
  /\ main' = "quit_drain"
  /\ head' = IF queue = <<>> THEN NoPID ELSE Head(queue)
  /\ tail' = IF queue = <<>> THEN NoPID ELSE queue[Len(queue)]
  /\ queue' = <<>>
  /\ UNCHANGED <<threads, heap, calls, lock, num_active_threads, slice, execs,
                 flushed, crashed>>

\* quit pops and frees without queue_mutex until it finds the queue empty.
QuitSeeProcess ==
  /\ MainAt("quit_drain") /\ head # NoPID
  /\ main' = "quit_pop"
  /\ UNCHANGED <<threads, queue, heap, drain, lock, num_active_threads, slice,
                 execs, flushed, crashed>>

QuitFree ==
  /\ Popping(Main) /\ Step(Main, "return", "test")
  /\ main' = "quit_drain"
  /\ process' = [process EXCEPT ![Main] = NoPID]
  /\ freed' = freed \cup ({process[Main]} \ {NoPID})
  /\ crashed' = (process[Main] \in freed)
  /\ UNCHANGED <<threads, queue, pc, next, head, tail, node, lock,
                 num_active_threads, slice, execs, flushed>>

\* The frame store and the LRU tracker are freed, whoever is executing.
QuitFlush ==
  /\ MainAt("quit_drain") /\ head = NoPID
  /\ flushed' = TRUE
  /\ main' = IF slice # 0 THEN "quit_wait" ELSE "exited"
  /\ UNCHANGED <<threads, queue, heap, drain, lock, num_active_threads, slice,
                 execs, crashed>>

\* pthread_cond_wait(&all_done, ...) until no worker is active.
QuitWait ==
  /\ MainAt("quit_wait")
  /\ main' = IF num_active_threads > 0 THEN "wait_all_done" ELSE "join"
  /\ UNCHANGED <<threads, queue, heap, drain, lock, num_active_threads, slice,
                 execs, flushed, crashed>>

MainWakesUnsignalled ==
  /\ MainAt("wait_all_done")
  /\ main' = "quit_wait"
  /\ UNCHANGED <<threads, queue, heap, drain, lock, num_active_threads, slice,
                 execs, flushed, crashed>>

Join ==
  /\ MainAt("join")
  /\ \A w \in Workers : at[w] = "ended"
  /\ main' = "exited"
  /\ UNCHANGED <<threads, queue, heap, drain, lock, num_active_threads, slice,
                 execs, flushed, crashed>>

\* main returns at the end of the input: the process ends, workers and all.
EndOfInput ==
  /\ MainAt("prompt")
  /\ main' = "exited"
  /\ UNCHANGED <<threads, queue, heap, drain, lock, num_active_threads, slice,
                 execs, flushed, crashed>>

Quit ==
  \/ QuitSeeProcess \/ PopFromQueue(Main) \/ QuitFree \/ WildPointer(Main)
  \/ QuitFlush \/ QuitWait \/ Join

-----------------------------------------------------------------------------
Next ==
  \/ \E w \in Workers : Worker(w) \/ SpuriousWakeup(w)
  \/ ExecAdd \/ CreateThreads \/ QuitCommand \/ EndOfInput
  \/ Quit \/ MainWakesUnsignalled

Spec == Init /\ [][Next]_vars

\* Every thread that can go on does; a thread waiting for queue_mutex gets it
\* when the mutex keeps becoming free.
Fairness ==
  /\ \A w \in Workers :
       WF_vars(Worker(w)) /\ SF_vars(LockQueue(w) \/ Requeue(w) \/ AddLock(w))
  /\ WF_vars(CreateThreads)
  /\ WF_vars(Quit)

FairSpec == Spec /\ Fairness

-----------------------------------------------------------------------------
(* Properties.                                                             *)

\* A worker owns its process from the pop to the end of its slice.
Owning(w) == at[w] \in {"popped", "run", "requeue", "add"}

Labels == { "uncreated", "start", "test", "empty", "waiting", "woken", "pop",
            "popped", "run", "requeue", "add", "broadcast", "count_out",
            "check", "count_out_complete", "free", "ended" }

PopSteps == { "test", "take", "look", "follow", "clear_tail", "clear_head",
              "move", "move_follow", "move_head", "return" }

AddSteps == { "test", "set_head", "load_tail", "link", "set_tail", "load_last",
              "end" }

\* The type invariant; a worker past the pop has a process, whatever quit does
\* to the queue meanwhile.
TypeOK ==
  /\ main \in { "prompt", "create", "quit_drain", "quit_pop", "quit_wait",
                "wait_all_done", "join", "exited" }
  /\ at \in [Workers -> Labels]
  /\ mine \in [Workers -> PIDs \cup {NoPID}]
  /\ \A w \in Workers : Owning(w) => mine[w] \in PIDs
  /\ counter \in [Workers -> Nat]
  /\ queue \in Seq(PIDs)
  /\ head \in PIDs \cup {NoPID} /\ tail \in PIDs \cup {NoPID}
  /\ next \in [PIDs -> PIDs \cup {NoPID}]
  /\ call \in [Threads -> PopSteps \cup AddSteps]
  /\ process \in [Threads -> PIDs \cup {NoPID}]
  /\ node \in [Threads -> PIDs \cup {NoPID}]
  /\ pc \in [PIDs -> Nat]
  /\ freed \in SUBSET PIDs
  /\ lock \in Workers \cup {NoThread}
  /\ num_active_threads \in Int
  /\ slice \in Slices \cup {0}
  /\ execs \in 0 .. MaxExecs
  /\ flushed \in BOOLEAN
  /\ crashed \in BOOLEAN

Queued(p) == \E i \in 1 .. Len(queue) : queue[i] = p

\* Until the user quits, a process is executed by one worker at a time, and by
\* none while it is in the ready queue, although a worker keeps its PCB for a
\* while after putting it back (lines 218-229 and 250 of interpreter.c).
OneExecutor ==
  ~Quitting => \A w \in Workers : Owning(w) =>
    /\ ~Queued(mine[w])
    /\ \A v \in Workers : Owning(v) /\ mine[v] = mine[w] => v = w

\* Until the user quits, the ready queue, filled and drained by three threads,
\* holds a process at most once and never one whose PCB has been freed.
QueueIntact ==
  ~Quitting =>
    /\ \A i, j \in 1 .. Len(queue) : queue[i] = queue[j] => i = j
    /\ \A i \in 1 .. Len(queue) : queue[i] \notin freed

\* Until the user quits, a process of any exec that has lines left is in the
\* ready queue or with the worker that executes it: none falls between
\* popFromQueue and addToQueue, or is taken for complete while another worker
\* is at it (lines 191-262 of interpreter.c).
UnfinishedKept ==
  ~Quitting => \A p \in PIDs : p[1] <= execs /\ pc[p] < End(p) =>
    Queued(p) \/ \E w \in Workers : Owning(w) /\ mine[w] = p

NoSliceExpires == \A p \in PIDs : End(p) <= slice

\* The workers that have counted themselves in and, unless they have put a
\* process back, not yet out.
Active == { w \in Workers : at[w] \in {"run", "check", "count_out_complete"} }

\* When no slice can expire, and until the user quits, the number of active
\* threads is the number of workers that have counted themselves in and not
\* yet out.
CountExactWithoutRequeue ==
  slice # 0 /\ ~Quitting /\ NoSliceExpires => num_active_threads = Cardinality(Active)

Completes(p) == Queued(p) ~> (p \in freed \/ Quitting \/ crashed)

\* Every process of the exec that creates the workers is completed, unless the
\* user quits or the program crashes, even when the count of active threads
\* makes one of the workers end early.
FirstExecCompletes == \A p \in PIDs : p[1] = 1 => Completes(p)

AllDone ==
  /\ Empty
  /\ \A p \in freed : pc[p] = End(p)
  /\ \A w \in Workers : at[w] \in {"start", "test", "empty", "waiting", "woken", "ended"}

\* "Wait for threads to finish" (interpreter.c, line 484): the join of a quit
\* given after all processes are completed ends.
QuitTerminates == (main = "join" /\ AllDone) ~> ~Alive

=============================================================================
