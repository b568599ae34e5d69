---------------------------- MODULE DemandPaging ----------------------------
(***************************************************************************)
(* The single-threaded demand-paging shell (A1-2024/starter-code): run and *)
(* exec create processes, create_process_PCB preloads the first two pages  *)
(* of a script that is not registered yet, and RR_scheduler interleaves    *)
(* the processes, handling page faults with LRU replacement.               *)
(*                                                                         *)
(* A line of a script is named by its script and its number (from 0), a    *)
(* frame's contents by the script and the number of its first line.  The   *)
(* LRU tracker is its abstraction, a ranking of the frames (FrameRankings; *)
(* LRUTracker is shown to implement it).                                   *)
(***************************************************************************)
EXTENDS FrameRankings, Sequences, FiniteSets

CONSTANTS
  Scripts,              \* file names
  Dirs,                 \* directories my_cd can reach
  Home,                 \* the directory the shell starts in
  Text,                 \* the lines of each script, as written by the user
  Missing,              \* names no file of Home has
  Commands,             \* the command lines a session may contain
  MaxCommands,          \* bound: commands read in one session
  MAX_PAGE_TABLE_SIZE   \* 40 in pcb.h

FRAME_SIZE == 3

MAX_SCRIPTS == 3        \* Script *scripts[3]

\* What a line does to this component's state: change directory, truncate
\* (or create) a file, end the shell, or nothing of the kind ("other": echo,
\* set, print, my_ls, my_mkdir and unknown commands).
Instructions ==
  [op : {"other", "quit"}] \cup [op : {"my_cd"}, dir : Dirs]
    \cup [op : {"my_touch"}, file : Scripts]

Policies == {"FCFS", "SJF", "AGING", "RR", "RR30"}

ASSUME SessionAssumption ==
  /\ Home \in Dirs
  /\ Missing \subseteq Scripts
  /\ Text \in [Scripts -> Seq(Instructions)]
  /\ MAX_PAGE_TABLE_SIZE \in Nat \ {0}
  /\ \A s \in Scripts : Len(Text[s]) <= FRAME_SIZE * MAX_PAGE_TABLE_SIZE
  /\ MaxCommands \in Nat
  /\ \A c \in Commands : c.progs \in Seq(Scripts)

NoFile  == -1           \* fopen returns NULL
Invalid == -1           \* a page-table entry with no frame

PageNumbers == 0 .. MAX_PAGE_TABLE_SIZE - 1

\* The frame contents: Empty when the frame's first entry is NULL.
Page(s, line) == [script |-> s, first |-> line]
Pages == [script : Scripts, first : Nat]
Empty == [script |-> "", first |-> -1]

PCBs == [pid : Nat \ {0}, script : Scripts, pc : Nat]
NoProcess == [pid |-> 0, script |-> "", pc |-> 0]

VARIABLES
  status,     \* "prompt", "loading", "running", "exited" or "crashed"
  policy,     \* of the command being executed; "run" for run
  todo,       \* programs exec has still to create
  queue,      \* the ready queue
  current,    \* RR_scheduler's current_process, NoProcess between two pops
  counter,    \* RR_counter
  slice,      \* slice_size
  store,      \* frame_store, by frame
  scripts,    \* the registered scripts
  length,     \* the registered length of each script
  page_table, \* of each registered script
  rank,       \* the LRU order
  lines,      \* lines of each file in each directory, NoFile if there is none
  cwd,        \* the working directory
  PCB_PID,    \* the next pid
  read        \* commands read so far

process == <<queue, current, counter, slice>>
memory  == <<store, scripts, length, page_table, rank>>
disk    == <<lines, cwd>>
shell   == <<status, policy, todo, PCB_PID, read>>

vars == <<process, memory, disk, shell>>

-----------------------------------------------------------------------------
Init ==
  /\ status = "prompt" /\ policy = "run" /\ todo = <<>>
  /\ queue = <<>> /\ current = NoProcess /\ counter = 0 /\ slice = 0
  /\ store = [f \in Frames |-> Empty]
  /\ scripts = {}
  /\ length = [s \in Scripts |-> 0]
  /\ page_table = [s \in Scripts |-> [p \in PageNumbers |-> Invalid]]
  /\ rank = [f \in Frames |-> f + 1]
  /\ lines = [d \in Dirs |-> [s \in Scripts |->
                IF d = Home /\ s \notin Missing THEN Len(Text[s]) ELSE NoFile]]
  /\ cwd = Home
  /\ PCB_PID = 1
  /\ read = 0

-----------------------------------------------------------------------------
(* The commands.                                                           *)

\* quit() frees the queued processes and the frame store and exits.
quit ==
  /\ status' = "exited"
  /\ queue' = <<>>
  /\ store' = [f \in Frames |-> Empty]

Accepted(c) == c.name = "run" \/ (c.name = "exec" /\ c.policy \in Policies)

\* A run, or an exec with a known policy: its programs are to be created.
Accept(c) ==
  /\ status = "prompt" /\ read < MaxCommands
  /\ Accepted(c)
  /\ status' = "loading"
  /\ policy' = IF c.name = "run" THEN "run" ELSE c.policy
  /\ todo' = c.progs
  /\ read' = read + 1
  /\ UNCHANGED <<process, memory, disk, PCB_PID>>

\* quit, and exec with an unknown policy, which quits the shell.
QuitCommand(c) ==
  /\ status = "prompt" /\ read < MaxCommands
  /\ ~Accepted(c)
  /\ quit
  /\ read' = read + 1
  /\ UNCHANGED <<current, counter, slice, scripts, length, page_table, rank,
                 disk, policy, todo, PCB_PID>>

EndOfInput ==
  /\ status = "prompt"
  /\ status' = "exited"
  /\ UNCHANGED <<process, memory, disk, policy, todo, PCB_PID, read>>

-----------------------------------------------------------------------------
(* create_process_PCB, for the first program still to create.              *)

FreeFrames(st) == { f \in Frames : st[f] = Empty }

\* Mutant: the scan stops before the last frame.
find_free_frame_Short(st) ==
  LET free == FreeFrames(st) \ {NumFrames - 1}
  IN  IF free = {} THEN -1 ELSE CHOOSE f \in free : \A g \in free : f <= g

\* The first free frame, or -1.
find_free_frame(st) ==
  IF FreeFrames(st) = {} THEN -1
  ELSE CHOOSE f \in FreeFrames(st) : \A g \in FreeFrames(st) : f <= g

FileLines(s) == lines[cwd][s]

NewPCB(s) == [pid |-> PCB_PID, script |-> s, pc |-> 0]

Creating(s) == status = "loading" /\ todo # <<>> /\ s = Head(todo)

\* The script is registered already: its pages and length are reused.
CreateFromRegistered(s) ==
  /\ Creating(s)
  /\ s \in scripts
  /\ queue' = Append(queue, NewPCB(s))
  /\ PCB_PID' = PCB_PID + 1
  /\ todo' = Tail(todo)
  /\ UNCHANGED <<current, counter, slice, memory, disk, status, policy, read>>

FileNotFound(s) ==
  /\ Creating(s)
  /\ s \notin scripts
  /\ FileLines(s) = NoFile
  /\ todo' = Tail(todo)
  /\ UNCHANGED <<process, memory, disk, status, policy, PCB_PID, read>>

\* The pages loaded before the process runs, and the frames they go to: the
\* second page takes the first frame that is free once the first is loaded.
HasPage(s, p) == FileLines(s) > p * FRAME_SIZE

PreloadFrame0 == find_free_frame(store)

PreloadFrame1(s) ==
  find_free_frame([store EXCEPT ![PreloadFrame0] = Page(s, 0)])

\* With no free frame (find_free_frame gives -1), or with the scripts array
\* full, the code writes outside its arrays.
FramesSuffice(s) ==
  /\ HasPage(s, 0) => PreloadFrame0 # -1
  /\ HasPage(s, 1) => PreloadFrame1(s) # -1

PreloadFits(s) == FramesSuffice(s) /\ Cardinality(scripts) < MAX_SCRIPTS

Preloaded(s, p) == HasPage(s, p) /\ p \in {0, 1}

PreloadedFrame(s, p) == IF p = 0 THEN PreloadFrame0 ELSE PreloadFrame1(s)

CreateFromFile(s) ==
  /\ Creating(s)
  /\ s \notin scripts
  /\ FileLines(s) # NoFile
  /\ PreloadFits(s)
  /\ store' =
       [ f \in Frames |->
           IF HasPage(s, 0) /\ f = PreloadFrame0 THEN Page(s, 0)
           ELSE IF HasPage(s, 1) /\ f = PreloadFrame1(s) THEN Page(s, FRAME_SIZE)
           ELSE store[f] ]
  /\ rank' = IF HasPage(s, 1)
               THEN Touch(Touch(rank, PreloadFrame0), PreloadFrame1(s))
             ELSE IF HasPage(s, 0) THEN Touch(rank, PreloadFrame0)
             ELSE rank
  /\ page_table' =
       [page_table EXCEPT ![s] =
          [p \in PageNumbers |-> IF Preloaded(s, p) THEN PreloadedFrame(s, p)
                                 ELSE Invalid]]
  /\ length' = [length EXCEPT ![s] = FileLines(s)]
  /\ scripts' = scripts \cup {s}
  /\ queue' = Append(queue, NewPCB(s))
  /\ PCB_PID' = PCB_PID + 1
  /\ todo' = Tail(todo)
  /\ UNCHANGED <<current, counter, slice, disk, status, policy, read>>

CreateOverflows(s) ==
  /\ Creating(s)
  /\ s \notin scripts
  /\ FileLines(s) # NoFile
  /\ ~PreloadFits(s)
  /\ status' = "crashed"
  /\ UNCHANGED <<process, memory, disk, policy, todo, PCB_PID, read>>

\* create_process_PCB does not initialise instructions: of a file of fewer than
\* two lines it frees, and with one line it copies, what is found in entries
\* it has not set.  Where that is NULL the process is created all the same
\* (CreateFromFile); anything else ends in a crash.
CreateReadsUnset(s) ==
  /\ Creating(s)
  /\ s \notin scripts
  /\ FileLines(s) \in {0, 1}
  /\ status' = "crashed"
  /\ UNCHANGED <<process, memory, disk, policy, todo, PCB_PID, read>>

\* run's slice is the length of its process.
SliceSize ==
  CASE policy = "run"  -> length[Head(queue).script]
    [] policy = "RR"   -> 2
    [] policy = "RR30" -> 30
    [] OTHER           -> 0

\* All programs are created: the scheduler starts.  FCFS_scheduler, which
\* FCFS, SJF and AGING share, reads current_script before assigning it.
StartScheduler ==
  /\ status = "loading" /\ todo = <<>> /\ queue # <<>>
  /\ IF policy \in {"run", "RR", "RR30"}
       THEN status' = "running" /\ slice' = SliceSize
       ELSE status' = "crashed" /\ UNCHANGED slice
  /\ UNCHANGED <<queue, current, counter, memory, disk, policy, todo, PCB_PID,
                 read>>

\* No program could be created: back to the prompt.
NothingToRun ==
  /\ status = "loading" /\ todo = <<>> /\ queue = <<>>
  /\ status' = "prompt"
  /\ UNCHANGED <<process, memory, disk, policy, todo, PCB_PID, read>>

-----------------------------------------------------------------------------
(* RR_scheduler.                                                           *)

\* Mutant: the page is rounded up.
PageOf_Rounded(pcb) == (pcb.pc + 1) \div FRAME_SIZE

PageOf(pcb) == pcb.pc \div FRAME_SIZE

Entry(pcb) == page_table[pcb.script][PageOf(pcb)]

Running == status = "running" /\ current # NoProcess

Dispatch ==
  /\ status = "running" /\ current = NoProcess /\ queue # <<>>
  /\ current' = Head(queue)
  /\ queue' = Tail(queue)
  /\ counter' = 0
  /\ UNCHANGED <<slice, memory, disk, shell>>

SchedulerDone ==
  /\ status = "running" /\ current = NoProcess /\ queue = <<>>
  /\ status' = "prompt"
  /\ UNCHANGED <<process, memory, disk, policy, todo, PCB_PID, read>>

\* Mutant: the requeued process goes on running.
Requeue_KeepsRunning ==
  /\ queue' = Append(queue, current)
  /\ current' = current

\* The current process goes to the back of the ready queue.
Requeue ==
  /\ queue' = Append(queue, current)
  /\ current' = NoProcess

SliceExpired ==
  /\ Running
  /\ counter >= slice
  /\ Requeue
  /\ UNCHANGED <<counter, slice, memory, disk, shell>>

\* load_frame_into_store skips as many lines as the program counter says; if
\* the file is gone or too short it returns before the frame is touched.
Loadable(pcb) == FileLines(pcb.script) >= pcb.pc

StoreAfterLoad(st, f, pcb) ==
  IF FileLines(pcb.script) > pcb.pc
    THEN [st EXCEPT ![f] = Page(pcb.script, pcb.pc)]
    ELSE st

\* Mutant: the page table is not updated.
LoadPage_Unmapped(f, st) ==
  /\ store' = StoreAfterLoad(st, f, current)
  /\ rank' = IF Loadable(current) THEN Touch(rank, f) ELSE rank
  /\ Requeue
  /\ UNCHANGED <<page_table, counter, slice, scripts, length, disk, shell>>

\* Mutant: a process whose page cannot be loaded is given up.
LoadPage_GivesUp(f, st) ==
  /\ store' = StoreAfterLoad(st, f, current)
  /\ rank' = IF Loadable(current) THEN Touch(rank, f) ELSE rank
  /\ page_table' = [page_table EXCEPT ![current.script][PageOf(current)] = f]
  /\ queue' = IF Loadable(current) THEN Append(queue, current) ELSE queue
  /\ current' = NoProcess
  /\ UNCHANGED <<counter, slice, scripts, length, disk, shell>>

\* A page fault brings the page into frame f of the store st, maps it, and
\* puts the process at the back of the queue.
LoadPage(f, st) ==
  /\ store' = StoreAfterLoad(st, f, current)
  /\ rank' = IF Loadable(current) THEN Touch(rank, f) ELSE rank
  /\ page_table' = [page_table EXCEPT ![current.script][PageOf(current)] = f]
  /\ Requeue
  /\ UNCHANGED <<counter, slice, scripts, length, disk, shell>>

PageFault ==
  /\ Running
  /\ counter < slice
  /\ Entry(current) = Invalid

FaultWithFreeFrame ==
  /\ PageFault
  /\ FreeFrames(store) # {}
  /\ LoadPage(find_free_frame(store), store)

\* The least recently used frame is evicted.  Its page stays mapped: no page
\* table is told.
FaultWithEviction ==
  /\ PageFault
  /\ FreeFrames(store) = {}
  /\ LoadPage(Victim(rank), [store EXCEPT ![Victim(rank)] = Empty])

\* The line in physical memory at the current process's program counter; a
\* NULL entry is reported and skipped.
FetchedPage == store[Entry(current)]
FetchedLine == FetchedPage.first + (current.pc % FRAME_SIZE)
FetchedNull ==
  FetchedPage = Empty \/ FetchedLine >= Len(Text[FetchedPage.script])
Fetched == Text[FetchedPage.script][FetchedLine + 1]
FetchedOp == IF FetchedNull THEN "NULL" ELSE Fetched.op

CanExecute ==
  /\ Running
  /\ counter < slice
  /\ Entry(current) # Invalid

\* The program counter advances, past the last line the process is freed.
Advance ==
  /\ rank' = Touch(rank, Entry(current))
  /\ counter' = counter + 1
  /\ current' = IF current.pc + 1 >= length[current.script]
                  THEN NoProcess
                  ELSE [current EXCEPT !.pc = current.pc + 1]

ExecuteLine ==
  /\ CanExecute
  /\ FetchedOp \in {"NULL", "other"}
  /\ Advance
  /\ UNCHANGED <<queue, slice, store, scripts, length, page_table, disk, shell>>

ExecuteCd ==
  /\ CanExecute
  /\ FetchedOp = "my_cd"
  /\ cwd' = Fetched.dir
  /\ Advance
  /\ UNCHANGED <<queue, slice, store, scripts, length, page_table, lines, shell>>

ExecuteTouch ==
  /\ CanExecute
  /\ FetchedOp = "my_touch"
  /\ lines' = [lines EXCEPT ![cwd][Fetched.file] = 0]
  /\ Advance
  /\ UNCHANGED <<queue, slice, store, scripts, length, page_table, cwd, shell>>

ExecuteQuit ==
  /\ CanExecute
  /\ FetchedOp = "quit"
  /\ quit
  /\ rank' = Touch(rank, Entry(current))
  /\ UNCHANGED <<current, counter, slice, scripts, length, page_table, disk,
                 policy, todo, PCB_PID, read>>

-----------------------------------------------------------------------------
CreateProcess ==
  \E s \in Scripts : \/ CreateFromRegistered(s)
                     \/ FileNotFound(s)
                     \/ CreateFromFile(s)
                     \/ CreateOverflows(s)
                     \/ CreateReadsUnset(s)

Schedule ==
  \/ StartScheduler \/ NothingToRun
  \/ Dispatch \/ SchedulerDone \/ SliceExpired
  \/ FaultWithFreeFrame \/ FaultWithEviction
  \/ ExecuteLine \/ ExecuteCd \/ ExecuteTouch \/ ExecuteQuit

Next ==
  \/ \E c \in Commands : Accept(c) \/ QuitCommand(c)
  \/ EndOfInput
  \/ CreateProcess
  \/ Schedule

\* The shell runs a command without waiting for its user.
Fairness == WF_vars(CreateProcess) /\ WF_vars(Schedule)

Spec == Init /\ [][Next]_vars

FairSpec == Spec /\ Fairness


-----------------------------------------------------------------------------
(* Properties.                                                             *)

TypeOK ==
  /\ status \in {"prompt", "loading", "running", "exited", "crashed"}
  /\ policy \in Policies \cup {"run"}
  /\ todo \in Seq(Scripts)
  /\ queue \in Seq(PCBs)
  /\ current \in PCBs \cup {NoProcess}
  /\ counter \in Nat /\ slice \in Nat
  /\ store \in [Frames -> Pages \cup {Empty}]
  /\ scripts \in SUBSET Scripts
  /\ length \in [Scripts -> Nat]
  /\ page_table \in [Scripts -> [PageNumbers -> Frames \cup {Invalid}]]
  /\ rank \in Rankings
  /\ lines \in [Dirs -> [Scripts -> Nat \cup {NoFile}]]
  /\ cwd \in Dirs
  /\ PCB_PID \in Nat \ {0}
  /\ read \in 0 .. MaxCommands

\* A page that is in the frame store is where its script's page table says,
\* and starts at a page boundary: so no page is ever in two frames, whatever
\* is loaded, shared by duplicates, evicted or found truncated.
ResidentPageIsMapped ==
  \A f \in Frames : store[f] # Empty =>
    /\ store[f].script \in scripts
    /\ store[f].first % FRAME_SIZE = 0
    /\ page_table[store[f].script][store[f].first \div FRAME_SIZE] = f

\* A process only faults on the first line of a page.  (load_frame_into_store
\* loads from the program counter on, so a fault anywhere else would shift the
\* whole page in its frame.)
FaultsAtPageStart == PageFault => current.pc % FRAME_SIZE = 0

\* Processes are never scheduled twice: no two live PCBs are the same one, and
\* the running process is not also in the ready queue.
LiveProcessesDistinct ==
  /\ \A i, j \in 1 .. Len(queue) : queue[i].pid = queue[j].pid => i = j
  /\ \A i \in 1 .. Len(queue) : queue[i].pid # current.pid

Live == { queue[i] : i \in 1 .. Len(queue) } \cup ({current} \ {NoProcess})

\* Until quit, a process stays in the ready queue or runs while its program
\* counter has lines to go through, and passes them one by one when they are
\* executed: no expired slice, page fault or failed load drops it, repeats a
\* line or skips one (RR_scheduler, interpreter.c:583-648).
ProcessesRunOn ==
  [][ status' # "exited" =>
        \A p \in Live :
          \/ p \in Live'
          \/ /\ p = current /\ CanExecute
             /\ \/ [p EXCEPT !.pc = p.pc + 1] \in Live'
                \/ p.pc + 1 >= length[p.script]
    ]_vars

\* The line a process executes is the line of its own script that its program
\* counter names (a script with no line has none to execute).
ExecutesOwnCode ==
  CanExecute /\ length[current.script] > 0 =>
    FetchedPage = Page(current.script, FRAME_SIZE * PageOf(current))

\* No access falls outside the frame store or the scripts array, and no
\* pointer is used that was never set.
NeverCrashes == status # "crashed"

\* Every scheduler with a positive time slice gives the prompt back or ends
\* the shell: faults and requeues never go on forever.
SchedulerFinishes == (status = "running" /\ slice > 0) ~> (status # "running")

=============================================================================
