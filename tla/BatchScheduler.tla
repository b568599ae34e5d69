--------------------------- MODULE BatchScheduler ---------------------------
(***************************************************************************)
(* exec and run of the second assignment's shell (A2-2024/solution): the   *)
(* scripts are loaded line by line into linememory, their PCBs go to a     *)
(* linked queue, and runSchedule dequeues, runs and enqueues again under   *)
(* one of five policies.  With #, the rest of the shell's own input        *)
(* becomes a process like the others, whose exec lines join the schedule   *)
(* that is already running.                                                *)
(*                                                                         *)
(* Everything happens on one thread.  A step is the loading of one script, *)
(* the execution of one line, or one call of a policy's function.          *)
(***************************************************************************)
EXTENDS Integers, SequencesExt

CONSTANTS
  Programs,    \* script names
  Missing,     \* those that cannot be opened
  Text,        \* the commands of each script, one per line read by fgets
  Inputs,      \* the inputs the shell may be given: sequences of commands
  MEM_SIZE     \* lines of linememory

Other == [op |-> "other"]      \* a command that leaves the scheduler alone
QuitCmd == [op |-> "quit"]

Policies == {"FCFS", "SJF", "RR", "RR30", "AGING"}
NoPolicy == "NULL"

\* The handout and shellmemory.c:39 exclude scripts that exec or run others.
\* A script has a line: the last read of an empty file returns an empty one.
ASSUME ScriptsAssumption ==
  /\ Missing \subseteq Programs
  /\ Text \in [Programs -> Seq({Other, QuitCmd}) \ {<<>>}]

ASSUME InputsAssumption ==
  \A s \in Inputs :
    /\ s \in Seq(Range(s))
    /\ \A i \in DOMAIN s :
         \/ s[i] \in {Other, QuitCmd}
         \/ /\ s[i].op = "exec"
            /\ s[i].progs \in Seq(Programs)
            /\ s[i].hash \in BOOLEAN

ASSUME MemoryAssumption == MEM_SIZE \in Nat

\* The process of the shell's own input; its name is the empty string.
Shell == ""

ASSUME ShellAssumption == Shell \notin Programs

\* Where there is no PCB.
NoPCB == [pid |-> 0, name |-> Shell, line_base |-> 0, line_count |-> 0,
          duration |-> 0, pc |-> 0]

\* An entry of linememory that is not allocated.
NoLine == [pid |-> 0, cmd |-> Other]

VARIABLES
  input,           \* what the shell is given
  read,            \* lines of it read so far
  status,          \* "prompt", "loading", "running", "exited" or "crashed"
  call,            \* the exec under way: scripts and input still to load
  background,      \* sticky: set by the first #
  policy,          \* the global policy, that of the last exec
  schedule,        \* the policy runSchedule was called with
  hasQueue,        \* the global q is not NULL
  queue,           \* the PCBs of the queue, the head first
  current,         \* the PCB that runs
  steps,           \* lines it may still execute before it is put back
  linememory,      \* [pid, cmd] of each allocated line
  next_free_line,
  fresh_pid

store == <<linememory, next_free_line, fresh_pid>>
vars == <<input, read, status, call, background, policy, schedule, hasQueue,
          queue, current, steps, store>>

NoCall == [progs |-> <<>>, shell |-> FALSE, nested |-> FALSE]

Init ==
  /\ input \in Inputs
  /\ read = 0
  /\ status = "prompt"
  /\ call = NoCall
  /\ background = FALSE
  /\ policy = NoPolicy
  /\ schedule = NoPolicy
  /\ hasQueue = FALSE
  /\ queue = <<>>
  /\ current = NoPCB
  /\ steps = 0
  /\ linememory = [i \in 0 .. MEM_SIZE - 1 |-> NoLine]
  /\ next_free_line = 0
  /\ fresh_pid = 1

-----------------------------------------------------------------------------
(* pcb.c and shellmemory.c                                                 *)

\* Mutant: one line more than there are.
pcb_has_next_instruction_OneMore(p) == p.pc <= p.line_count

pcb_has_next_instruction(p) == p.pc < p.line_count

LinesOf(p) == p.line_base .. p.line_base + p.line_count - 1

\* Whether allocate_line returns -1 before the last of n lines.
OutOfMemory(n) == next_free_line + n > MEM_SIZE

\* create_process_from_FILE: a PCB for the commands of text, as it is ...
NewPCB(name, text) ==
  [pid |-> fresh_pid, name |-> name,
   line_base |-> IF text = <<>> THEN 0 ELSE next_free_line,
   line_count |-> Len(text), duration |-> Len(text), pc |-> 0]

\* ... and its lines, at the end of the allocated part of linememory.
StoreLines(text) ==
  /\ linememory' =
       [i \in DOMAIN linememory |->
          IF i - next_free_line + 1 \in DOMAIN text
            THEN [pid |-> fresh_pid, cmd |-> text[i - next_free_line + 1]]
            ELSE linememory[i]]
  /\ next_free_line' = next_free_line + Len(text)
  /\ fresh_pid' = fresh_pid + 1

\* Mutant: the last line of a process is forgotten.
free_pcbs_OffByOne(ps) ==
  [i \in DOMAIN linememory |->
     IF \E p \in ps : i \in LinesOf(p) \ {p.line_base + p.line_count - 1}
       THEN NoLine ELSE linememory[i]]

\* free_pcb for each of a set of PCBs.
free_pcbs(ps) ==
  [i \in DOMAIN linememory |->
     IF \E p \in ps : i \in LinesOf(p) THEN NoLine ELSE linememory[i]]

-----------------------------------------------------------------------------
(* queue.c and schedule_policy.c                                           *)

enqueue_ignoring_priority(q, p) == <<p>> \o q

\* Mutant: the same, by the wrong end.
enqueue_fcfs_AtHead(q, p) == enqueue_ignoring_priority(q, p)

enqueue_fcfs(q, p) == Append(q, p)

\* Mutant: jobs of equal length are passed.
enqueue_sjf_BeforeTies(q, p) ==
  LET longer == { i \in DOMAIN q : q[i].duration >= p.duration }
  IN  IF longer = {} THEN Append(q, p) ELSE InsertAt(q, Min(longer), p)

\* Mutant: the job put in the middle is not linked to those behind it.
enqueue_sjf_CutsOff(q, p) ==
  LET longer == { i \in DOMAIN q : q[i].duration > p.duration }
  IN  IF longer = {} THEN Append(q, p)
                     ELSE Append(SubSeq(q, 1, Min(longer) - 1), p)

\* In front of the first longer job.
enqueue_sjf(q, p) ==
  LET longer == { i \in DOMAIN q : q[i].duration > p.duration }
  IN  IF longer = {} THEN Append(q, p) ELSE InsertAt(q, Min(longer), p)

\* Mutant: a process put back is queued behind those it ties with.
enqueue_aging_BehindTies(q, p) == enqueue_sjf(q, p)

\* A process that has run, so one that is put back, keeps the head in a tie.
enqueue_aging(q, p) ==
  IF q # <<>> /\ q[1].duration = p.duration /\ p.pc # 0
    THEN enqueue_ignoring_priority(q, p)
    ELSE enqueue_sjf(q, p)

Enqueue(pol, q, p) ==
  CASE pol = "SJF"   -> enqueue_sjf(q, p)
    [] pol = "AGING" -> enqueue_aging(q, p)
    [] OTHER         -> enqueue_fcfs(q, p)

Aged(p) == [p EXCEPT !.duration = IF @ > 0 THEN @ - 1 ELSE 0]

\* What dequeue leaves of the queue; AGING ages every PCB that stays.
AfterDequeue(pol, q) ==
  IF pol = "AGING" THEN [i \in DOMAIN Tail(q) |-> Aged(Tail(q)[i])] ELSE Tail(q)

\* Mutant: the preemptive functions count down before they compare.
Slice_OffByOne(pol, p) ==
  CASE pol = "AGING" -> 0
    [] pol = "RR"    -> 1
    [] pol = "RR30"  -> 29
    [] OTHER         -> p.line_count

\* The lines a PCB may execute before it is put back.
Slice(pol, p) ==
  CASE pol = "AGING" -> 1
    [] pol = "RR"    -> 2
    [] pol = "RR30"  -> 30
    [] OTHER         -> p.line_count

Scheduled(name) == \E i \in DOMAIN queue : queue[i].name = name

-----------------------------------------------------------------------------
(* my_exec, up to its loop over the scripts.  c is [op, progs, policy,     *)
(* hash]; run s is exec s FCFS.                                            *)

\* No script, more than three, or an unknown policy.  # has been seen by then.
RejectExec(c) ==
  /\ Len(c.progs) \notin 1 .. 3 \/ c.policy \notin Policies
  /\ background' = (background \/ c.hash)
  /\ policy' = IF Len(c.progs) \in 1 .. 3 THEN NoPolicy ELSE policy
  /\ UNCHANGED <<status, call, hasQueue, queue, store>>

AcceptExec(c) ==
  /\ Len(c.progs) \in 1 .. 3 /\ c.policy \in Policies
  /\ background' = (background \/ c.hash)
  /\ policy' = c.policy

\* The exec of a top-level call: a new queue, an allocator that starts at 0.
OpenQueue(c) ==
  /\ AcceptExec(c)
  /\ ~background
  /\ status' = "loading"
  /\ call' = [progs |-> c.progs, shell |-> c.hash, nested |-> FALSE]
  /\ hasQueue' = TRUE
  /\ queue' = <<>>
  /\ next_free_line' = 0
  /\ UNCHANGED <<linememory, fresh_pid>>

\* Mutant: every exec resets the allocator.
JoinQueue_Resets(c) ==
  /\ AcceptExec(c)
  /\ background /\ hasQueue
  /\ status' = "loading"
  /\ call' = [progs |-> c.progs, shell |-> FALSE, nested |-> TRUE]
  /\ next_free_line' = 0
  /\ UNCHANGED <<hasQueue, queue, linememory, fresh_pid>>

\* The exec of a line of the input that became a process.
JoinQueue(c) ==
  /\ AcceptExec(c)
  /\ background /\ hasQueue
  /\ status' = "loading"
  /\ call' = [progs |-> c.progs, shell |-> FALSE, nested |-> TRUE]
  /\ UNCHANGED <<hasQueue, queue, store>>

\* assert(q) is compiled out (-DNDEBUG): q->head is read through NULL.
ExecWithoutQueue(c) ==
  /\ AcceptExec(c)
  /\ background /\ ~hasQueue
  /\ status' = "crashed"
  /\ UNCHANGED <<call, hasQueue, queue, store>>

Execute(c) ==
  \/ /\ c.op = "other"
     /\ UNCHANGED <<status, call, background, policy, hasQueue, queue, store>>
  \/ /\ c.op = "quit"
     /\ status' = "exited"
     /\ UNCHANGED <<call, background, policy, hasQueue, queue, store>>
  \/ /\ c.op = "exec"
     /\ \/ RejectExec(c)
        \/ OpenQueue(c)
        \/ JoinQueue(c)
        \/ ExecWithoutQueue(c)

\* main: the next line of the input, read at the prompt.
ReadLine ==
  /\ status = "prompt"
  /\ read < Len(input)
  /\ read' = read + 1
  /\ Execute(input[read + 1])
  /\ UNCHANGED <<input, schedule, current, steps>>

-----------------------------------------------------------------------------
(* my_exec, from its loop on                                               *)

NextText == Text[Head(call.progs)]

\* Mutant: the queue is not searched for the script.
LoadProgram_NoSearch ==
  /\ status = "loading" /\ call.progs # <<>>
  /\ Head(call.progs) \notin Missing
  /\ ~OutOfMemory(Len(NextText))
  /\ StoreLines(NextText)
  /\ queue' = Enqueue(policy, queue, NewPCB(Head(call.progs), NextText))
  /\ call' = [call EXCEPT !.progs = Tail(@)]
  /\ UNCHANGED <<input, read, status, background, policy, schedule, hasQueue,
                 current, steps>>

LoadProgram ==
  /\ status = "loading" /\ call.progs # <<>>
  /\ ~Scheduled(Head(call.progs)) /\ Head(call.progs) \notin Missing
  /\ ~OutOfMemory(Len(NextText))
  /\ StoreLines(NextText)
  /\ queue' = Enqueue(policy, queue, NewPCB(Head(call.progs), NextText))
  /\ call' = [call EXCEPT !.progs = Tail(@)]
  /\ UNCHANGED <<input, read, status, background, policy, schedule, hasQueue,
                 current, steps>>

\* create_process names the PCB it did not get: a write through NULL.
LoadProgramOutOfMemory ==
  /\ status = "loading" /\ call.progs # <<>>
  /\ ~Scheduled(Head(call.progs)) /\ Head(call.progs) \notin Missing
  /\ OutOfMemory(Len(NextText))
  /\ status' = "crashed"
  /\ UNCHANGED <<input, read, call, background, policy, schedule, hasQueue,
                 queue, current, steps, store>>

\* The end of a top-level exec.
ReleaseQueue ==
  /\ status' = "prompt"
  /\ call' = NoCall
  /\ linememory' = free_pcbs(Range(queue))
  /\ queue' = <<>>
  /\ hasQueue' = FALSE
  /\ policy' = NoPolicy

\* Mutant: a nested exec that fails also goes to top_level_cleanup.
Cleanup_NotNested ==
  /\ status = "loading" /\ call.progs # <<>>
  /\ Scheduled(Head(call.progs)) \/ Head(call.progs) \in Missing
  /\ ReleaseQueue
  /\ UNCHANGED <<input, read, background, schedule, current, steps,
                 next_free_line, fresh_pid>>

\* cleanup: a nested exec leaves what it has queued, a top-level one nothing.
Cleanup ==
  /\ status = "loading" /\ call.progs # <<>>
  /\ Scheduled(Head(call.progs)) \/ Head(call.progs) \in Missing
  /\ IF call.nested
       THEN /\ status' = "running"
            /\ call' = NoCall
            /\ UNCHANGED <<linememory, queue, hasQueue, policy>>
       ELSE ReleaseQueue
  /\ UNCHANGED <<input, read, background, schedule, current, steps,
                 next_free_line, fresh_pid>>

RestOfInput == SubSeq(input, read + 1, Len(input))

\* The rest of the input becomes a process, at the head whatever its length.
LoadShell ==
  /\ status = "loading" /\ call.progs = <<>> /\ call.shell
  /\ ~OutOfMemory(Len(RestOfInput))
  /\ StoreLines(RestOfInput)
  /\ queue' = enqueue_ignoring_priority(queue, NewPCB(Shell, RestOfInput))
  /\ read' = Len(input)
  /\ call' = [call EXCEPT !.shell = FALSE]
  /\ UNCHANGED <<input, status, background, policy, schedule, hasQueue, current,
                 steps>>

\* exec cleans up, but its caller goes on to read the input it has closed.
LoadShellOutOfMemory ==
  /\ status = "loading" /\ call.progs = <<>> /\ call.shell
  /\ OutOfMemory(Len(RestOfInput))
  /\ status' = "crashed"
  /\ UNCHANGED <<input, read, call, background, policy, schedule, hasQueue,
                 queue, current, steps, store>>

\* runSchedule, or the return of a nested exec to the line that called it.
EndOfLoading ==
  /\ status = "loading" /\ call.progs = <<>> /\ ~call.shell
  /\ status' = "running"
  /\ schedule' = IF call.nested THEN schedule ELSE policy
  /\ call' = NoCall
  /\ UNCHANGED <<input, read, background, policy, hasQueue, queue, current,
                 steps, store>>

-----------------------------------------------------------------------------
(* runSchedule and the run_pcb functions                                   *)

Dispatch ==
  /\ status = "running" /\ current = NoPCB /\ queue # <<>>
  /\ current' = Head(queue)
  /\ queue' = AfterDequeue(schedule, queue)
  /\ steps' = Slice(schedule, Head(queue))
  /\ UNCHANGED <<input, read, status, call, background, policy, schedule,
                 hasQueue, store>>

RunLine ==
  /\ status = "running"
  /\ steps > 0 /\ pcb_has_next_instruction(current)
  /\ steps' = steps - 1
  /\ current' = [current EXCEPT !.pc = @ + 1]
  /\ Execute(linememory[current.line_base + current.pc].cmd)
  /\ UNCHANGED <<input, read, schedule>>

\* Enqueued under the policy of the schedule, not under the global one.
PutBack ==
  /\ status = "running" /\ current # NoPCB
  /\ steps = 0 /\ pcb_has_next_instruction(current)
  /\ queue' = Enqueue(schedule, queue, current)
  /\ current' = NoPCB
  /\ UNCHANGED <<input, read, status, call, background, policy, schedule,
                 hasQueue, steps, store>>

FinishProcess ==
  /\ status = "running" /\ current # NoPCB
  /\ ~pcb_has_next_instruction(current)
  /\ linememory' = free_pcbs({current})
  /\ current' = NoPCB
  /\ steps' = 0
  /\ UNCHANGED <<input, read, status, call, background, policy, schedule,
                 hasQueue, queue, next_free_line, fresh_pid>>

\* Nothing is left to run: back to the prompt, or quit if there is no input.
ScheduleDone ==
  /\ status = "running" /\ current = NoPCB /\ queue = <<>>
  /\ IF background
       THEN /\ status' = "exited"
            /\ UNCHANGED <<call, linememory, queue, hasQueue, policy>>
       ELSE ReleaseQueue
  /\ UNCHANGED <<input, read, background, schedule, current, steps,
                 next_free_line, fresh_pid>>

Next ==
  \/ ReadLine
  \/ LoadProgram
  \/ LoadProgramOutOfMemory
  \/ Cleanup
  \/ LoadShell
  \/ LoadShellOutOfMemory
  \/ EndOfLoading
  \/ Dispatch
  \/ RunLine
  \/ PutBack
  \/ FinishProcess
  \/ ScheduleDone

\* The shell is one thread, and the system lets it run.
Spec == Init /\ [][Next]_vars /\ WF_vars(Next)

-----------------------------------------------------------------------------
(* Properties                                                              *)

Live == Range(queue) \union ({current} \ {NoPCB})

\* The commands a process was created from.
SourceOf(p) ==
  IF p.name = Shell
    THEN SubSeq(input, Len(input) - p.line_count + 1, Len(input))
    ELSE Text[p.name]

\* Every variable keeps the type of its declaration, every PCB lies inside
\* linememory and its program counter inside its lines (struct PCB, pcb.h).
TypeOK ==
  /\ read \in 0 .. Len(input)
  /\ status \in {"prompt", "loading", "running", "exited", "crashed"}
  /\ call.progs \in Seq(Programs)
  /\ {background, hasQueue, call.shell, call.nested} \subseteq BOOLEAN
  /\ policy \in Policies \union {NoPolicy}
  /\ schedule \in Policies \union {NoPolicy}
  /\ \A p \in Live :
       /\ p.pid \in 1 .. fresh_pid - 1
       /\ p.name \in Programs \union {Shell}
       /\ p.pc \in 0 .. p.line_count
       /\ p.duration \in 0 .. p.line_count
       /\ p.line_base + p.line_count <= next_free_line
  /\ steps \in Nat
  /\ next_free_line \in 0 .. MEM_SIZE
  /\ DOMAIN linememory = 0 .. MEM_SIZE - 1

\* Between invocations of run and exec, linememory is empty, whatever failed
\* in the last one: what reset_linememory_allocator relies on when it sets
\* next_free_line back to 0 (shellmemory.c:36-41).
LineMemoryEmptyAtPrompt ==
  status = "prompt" => \A i \in DOMAIN linememory : linememory[i] = NoLine

\* A live process finds its own lines, all of them and in order, where its PCB
\* says, and every other entry is free: no process that came or went since
\* it was loaded has touched them (allocate_line, free_line, free_pcb).
OwnsItsLines ==
  /\ \A p \in Live :
       /\ Len(SourceOf(p)) = p.line_count
       /\ \A i \in LinesOf(p) :
            linememory[i] = [pid |-> p.pid,
                             cmd |-> SourceOf(p)[i - p.line_base + 1]]
  /\ \A i \in DOMAIN linememory :
       linememory[i] # NoLine => \E p \in Live : i \in LinesOf(p)

\* The execs of the session ask for policy pol and no other.
AllAskFor(pol) ==
  \A i \in DOMAIN input : input[i].op = "exec" => input[i].policy = pol

OnePolicy == AllAskFor(policy)

\* A shell that was put first and has not run takes no part in the order
\* (enqueue_ignoring_priority).
Ranked(p) == p.name # Shell \/ p.pc # 0

\* The shorter job first; of two jobs of one length that have not run, the
\* one that was given first.
Precedes(p, q) ==
  /\ p.duration <= q.duration
  /\ p.pc = 0 /\ q.pc = 0 /\ p.line_count = q.line_count => p.pid < q.pid

\* Under SJF and AGING the queue is in the order of durations, through aging,
\* put-backs and execs of the background, and jobs of one length that have
\* not run are in the order they were given (schedule_policy.h:25-34; the
\* test T_AGING4, queue.c:108-111).
QueueByPriority ==
  OnePolicy /\ policy \in {"SJF", "AGING"} =>
    \A i, j \in DOMAIN queue :
      i < j /\ Ranked(queue[i]) /\ Ranked(queue[j]) => Precedes(queue[i], queue[j])

\* No script is live twice, although only the queue is searched and the
\* process that runs is not on it (program_already_scheduled, my_exec 521-524).
ScriptsScheduledOnce ==
  /\ \A i, j \in DOMAIN queue : i # j => queue[i].name # queue[j].name
  /\ current # NoPCB => \A i \in DOMAIN queue : queue[i].name # current.name

\* AGING: a process that is put back is the head again exactly when nothing
\* that waits has a lower duration (schedule_policy.h:28-31).
PreemptedOnlyByShorter ==
  [][ /\ OnePolicy /\ schedule = "AGING"
      /\ current # NoPCB /\ Len(queue') = Len(queue) + 1 /\ current' = NoPCB
      => (queue'[1] = current
            <=> \A i \in DOMAIN queue : queue[i].duration >= current.duration)
    ]_vars

\* Once the schedule runs with the input as a process, the prompt, whose input
\* is closed, never comes back: not even when a nested exec fails
\* (my_exec:558-562 and the two cleanup labels).
BatchNeverPrompts ==
  [][ background /\ (status = "running" \/ call.nested) => status' # "prompt" ]_vars

\* p is still there after a step, and has executed one line at most.
Carried(p) == \E q \in Live' : q.pid = p.pid /\ q.pc \in p.pc .. p.pc + 1

\* No process is lost before its last line, whatever policy or mixture of
\* policies the queue is kept by and whatever becomes of execs in the background.
\* Only an exec at the prompt that fails takes back what it has loaded, and none
\* of that has run (queue.c:52-167; my_exec:566-591).
RunsToItsEnd ==
  [][ \A p \in Live :
        \/ Carried(p)
        \/ p = current /\ ~pcb_has_next_instruction(p)
        \/ status = "loading" /\ status' = "prompt" /\ p.pc = 0
    ]_vars

\* Every schedule ends: all the processes it was given, and those its shell
\* adds, run to their last line, unless a line quits or memory runs out.
SchedulesEnd ==
  status = "running" ~> status \in {"prompt", "exited", "crashed"}

\* my_exec:506-507, "Ensure that a queue exists": an exec that finds the
\* background flag set finds a queue.  (The crash for want of memory has one.)
BackgroundHasQueue == status = "crashed" => hasQueue

\* The execs of the session ask for policies that append to the queue.
TakesTurns ==
  \A i \in DOMAIN input :
    input[i].op = "exec" => input[i].policy \notin {"SJF", "AGING"}

\* Of two scripts under FCFS, RR and RR30, the one given later is never ahead
\* of the other, not even when it comes with an exec of the background that
\* asks for another of these policies than the schedule runs under; and under
\* a schedule of FCFS it waits until the other is done (my_exec:537, the
\* policies of schedule_policy.c:14-40).
LaterNeverAhead ==
  TakesTurns =>
    \A p, q \in Live :
      p.name # Shell /\ q.name # Shell /\ p.pid < q.pid =>
        q.pc <= p.pc /\ (schedule = "FCFS" => q.pc = 0)

=============================================================================
