# A TLA+ verification project for the ECSE 427 shell

The repository holds three generations of a teaching operating-system shell:

* `A1-2024/starter-code`: the working shell, extended over the course up to the
  third assignment: demand paging with LRU replacement, round robin, background
  batches and a multithreaded (MT) execution mode. `Makefile` builds `mysh`
  from it with a frame store of `X` lines and a variable store of `Y` slots.
* `A2-2024/solution`: the reference solution of the second assignment: program
  lines in one line memory, five scheduling policies, background execution.
* `A1-2024/solution`: the reference solution of the first assignment.

This directory models the first of them, the scheduler of the second, the control
of the third, and the parsers and variables of all three.

## Inventory

File names without a directory are in `A1-2024/starter-code`.

| Component | State | Operations | Correct when |
| --- | --- | --- | --- |
| LRU tracker, `lru_tracker.c` | doubly linked list of frame nodes, `frames[]` | `lru_init`, `get_lru_frame`, `update_frame_access`, `destroy_lru_tracker` | the list threads every frame once, in both directions, in the order of last access; cleanup frees each node once |
| Frame store and faults, `interpreter.c` 51-124, 563-650 | `frame_store`, `scripts[3]` with their page tables | `find_free_frame`, `evict_frame`, `load_frame_into_store`, the fault branch of `RR_scheduler` | a process executes its own lines in order; a resident page is mapped, once; a fault loads the page that is wanted |
| Process creation, `interpreter.c` 690-975 | `scripts[]`, `num_unique_scripts`, `PCB_PID`, files on disk | `create_process_PCB`, `run`, `exec` | the first two pages find frames; duplicates share pages; a program that fails to load leaves nothing behind |
| Scheduler and ready queue, `interpreter.c` 563-686, `ready_queue.c` | `head`, `tail`, PCBs, the time slice | `RR_scheduler`, `FCFS_scheduler`, `addToQueue`, `popFromQueue`, `ageReadyQueue` | no process is lost or scheduled twice; every command ends |
| MT worker pool, `interpreter.c` 165-262, 450-496, 925-947 | two threads, `queue_mutex`, `num_active_threads`, two condition variables | `worker_thread`, `exec ... MT`, `quit` | one executor per process, every process is completed, quit ends |
| Prompt and parser, `shell.c`, `interpreter.c` 277-436 | input line, `remaining_input`, `background_mode`, `mt_mode` | `main`, `parseInput`, `interpreter` | each command of a `;` chain is executed once, in order, with its own words; `exec` gets the programs, policy and modes that were written |
| Shell memory, `shellmemory.c` | slots of name and value | `mem_set_value`, `mem_get_value`, `set`, `print`, `echo` | the table is a map: print gives the last value set, a full table drops new names and nothing else |
| Files, `interpreter.c` 988-1092 | the working directory and its files | `my_ls`, `my_mkdir`, `my_touch`, `my_cd` | I/O only; what they do to the scripts on disk concerns the paging code |
| A2 scheduler, `A2-2024/solution/{interpreter,queue,schedule_policy,pcb,shellmemory}.c` | linked queue, line memory, background flag | `exec`, `run`, `runSchedule`, enqueue and dequeue of each policy, `allocate_line` | the queue is ordered by the policy, the line memory is empty between schedules, background exec joins the running schedule |
| A1 solution, `A1-2024/solution` | standard input, the scripts being run, the working directory | `main`, `run`, `cd`, `my_mkdir`, `touch`, `quit`, `set`, `print` | nested scripts execute in the order of the text; the prompt comes back although scripts may run themselves |

How they interact. Everything but MT mode is one thread and plain calls: `main`
reads a line, `parseInput` cuts it into commands, `interpreter` dispatches, and
`run` or `exec` call `create_process_PCB` and then a scheduler, which feeds lines
of the frame store back to `parseInput`. So a script may change the state of the
shell in the middle of its own schedule: change directory, truncate the very
file it is paged from, or quit. In the A1 solution a script may run others, and
itself, through the same parser. Processes share frames through the registered
scripts and the LRU list. In MT mode two workers and the main thread share the
ready queue, the PCBs and the frame store; `quit` tears these down concurrently.

What is hard about it: page tables, frames and the LRU list change in different
functions and must keep agreeing; what one command leaves behind (registered
scripts, mapped pages, the working directory) is found by later ones; loading
can fail half way; and the thread pool has unlocked accesses, waits whose
wakeups are missing and a counter updated outside the lock it is read under.
`PROJECT.json` lists these hazards line by line.

## Modules

| Module | Models |
| --- | --- |
| `FrameRankings` | frames and their recency rankings: `Touch`, `Victim` |
| `RecencyOrder` | abstract specification of the LRU tracker: one ranking, one action |
| `LRUTracker` | `lru_tracker.c` pointer by pointer; implements `RecencyOrder` |
| `DemandPaging` | `run`, `exec`, `create_process_PCB`, `RR_scheduler`, page faults, `quit`, `my_cd`, `my_touch` |
| `WorkerPool` | `worker_thread`, MT `exec`, `quit` with workers at work |
| `BatchScheduler` | A2: `exec`, `run`, `runSchedule`, the queue of each policy, `linememory`, background batches |
| `VariableMap` | abstract specification of the variables: a map with bounded room |
| `ShellMemory` | `shellmemory.c` slot by slot, for threads without a lock; implements `VariableMap` |
| `LineSyntax` | what a line stands for: its commands, and their words |
| `CommandChain` | abstract specification of a parser: the commands of a line, one by one |
| `StarterParser` | `parseInput` of the third assignment's shell |
| `SolutionParser` | `parseInput` of the two reference shells |
| `StarterInput` | from a line to the calls of `exec`: background mode, parser, arguments |
| `CommandLines` | one line in either parser; both implement `CommandChain` |
| `TextExpansion` | abstract specification of nested scripts: one text, in which the run of a script is replaced by its text |
| `ReferenceShell` | A1 solution: `main`, nested `run`, `cd`, `my_mkdir`, `touch`, `quit`; implements `TextExpansion` |
| `MC...` | instances for TLC |
| `..._proofs` | theorems and their proofs |

### LRUTracker

`head`, `tail`, `prev` and `next` are the pointers of the C structures, a node
being its frame number. `lru_init` never writes `head->prev` (nor `head->next`
when there is only one frame); `Init` gives those fields any value, including a
pointer to a node and a stray pointer. `update_frame_access` is one action, its
pointer updates in the order of the code, and the cleanup loop of `quit` takes
one step per node.

### DemandPaging

A frame holds a page of a script or is empty; a line is its script and its
number; what a line does is one of the instructions that matter here (change
directory, truncate a file, quit, anything else). The LRU list is replaced by
the ranking `LRUTracker` is shown to implement. `page_table`, `length` and
`scripts` are the fields of `scripts[]`; a PCB keeps its pid, script and program
counter. Each program of a command is created by one action, as the code creates
it in one call; each iteration of the scheduler's inner loop is one action: a
slice that expires, a fault served from a free or an evicted frame, a line
executed. A fault that fails to load (file missing, or shorter than the program
counter) leaves the frame empty and maps it, as the code does. Eviction does not
touch the victim's page table, because the code does not.

A command that would write outside `frame_store` or `scripts[3]`, or start
`FCFS_scheduler`, which dereferences an uninitialised pointer, goes to `crashed`,
the outcome after which nothing more is said. So may the creation of a process from
a file of fewer than two lines: `create_process_PCB` leaves `instructions`
uninitialised (line 739), and for such a file frees, or copies from, entries it has not
set (`CreateReadsUnset`). What the stack holds there decides; where it is NULL, the
process is created as any other, so both outcomes are in the model. Left out: `run` and `exec`
inside a script, `exec ... #`, whose shell process has no script name and cannot
be scheduled, malloc failures, and the limit on open files: `load_frame_into_store` does not
close its file when it succeeds (lines 87-124), so after a thousand faults or so `fopen`
fails, as it does in the model for a file that is gone.

### WorkerPool

The main thread and the workers are processes with a location (`main`, `at`).
`queue_mutex` is a variable, held from the test of the queue to the end of the
pop; sections of `num_active_threads_mutex` are single steps, since nothing
blocks inside them. `pthread_cond_wait` releases the mutex and sleeps in one
step; wakeups may be spurious, as POSIX allows. A freed PCB may read as anything. The
program counter starts at 0, as in the code, although the worker compares it with
`base_address + length`: a process runs the lines of the programs loaded before it, too.

Until the user quits, every access to the ready queue is made with `queue_mutex` held,
so the queue is a sequence (`queue`), and a pop (`Pop`) and an append (`Requeue`) are
one step. `quit` pops without the mutex (`interpreter.c` 454-455) while workers pop
and append with it. From then on (`Quitting`) the queue is the linked list of
`ready_queue.c`: `QuitCommand` turns the sequence into `head`, `tail` and the `next`
of each PCB, and every load and every store of these is a step of its own
(`PopFromQueue`, `AddToQueue`, `AddEnd`), each thread with the value it has loaded
in `process` and `node`. So a thread may store back a `head` that others have moved on
from, and a process that is being executed is taken again; it may find `head` emptied
between its test and its use; or follow the `next` of a PCB that has been freed. The last
two go to `crashed` (`WildPointer`). A line executed while two workers have the same
process, or from a freed PCB or a freed line, may do anything and may crash (`RunWild`).
What the locking promises is therefore said of the time until the user quits; of what
follows, only that the types survive (`TypeOK`, which says above all that a worker
never goes on without a process) and whether `quit` returns.

Left out: lines that change directory, run programs or quit from inside a worker, and
programs of fewer than two lines (`PoolAssumption`), which are created from
uninitialised pointers, see above. The unlocked accesses of workers to the shell memory
are the matter of `ShellMemory`.

### BatchScheduler

The linked queue of `queue.c` is a sequence, its head first; a PCB is a record
with the fields of `struct PCB` but `next`. A line of `linememory` is a command
and the pid it was allocated for (a ghost, to tell lines apart). A command is
`quit`, an `exec` (`run s` is `exec s FCFS`, as in the code) or one that leaves
the scheduler alone. `input` is all the shell will read: chosen at the start,
because `#` turns its unread part into a process. `my_exec` is cut where its
outcome is decided: refused before anything is loaded, one step per script,
the shell's process, the start of the schedule. The global `policy` and the
parameter of `runSchedule` are two variables, because a nested exec changes the
first while the schedule goes on with the second; so are `background` and
`call.nested` (`background_exec`), because one exec may set the flag and not be nested.

The assertions of this program are compiled out (`CFLAGS=-DNDEBUG`), so an exec
in the background without a queue goes on and reads through `NULL`: the model
goes to `crashed`, as it does when `create_process` names a PCB it did not get.
`create_process` has no `return` for its success: the build returns the PCB it
has in its register, and that is what is modelled. Left out: scripts that exec or
run others outside a background batch (the comment at `shellmemory.c:39` and the
handout exclude them; `ScriptsAssumption` says so), and `MT`, which sets a flag
nothing reads. What follows the end of the input (the terminal) is not modelled.

### ShellMemory

`var` and `value` are the two fields of each slot. The loops advance one slot per
step and read or write one field per step, each thread with its own counter, so
threads interleave at every comparison: the shell alone is one thread, the
workers of an MT exec are two. `set` writes a slot's name before its value, and a
reader may come in between. The slot that `FindFreeSpot` has found is not held:
another thread may find it too (`variables_race`).

`SpecNewNamesAlone` restricts `Spec` to behaviours in which a thread that sets a
new variable does so alone (`NewNamesAlone`). This is what every command outside MT
mode does, and what an MT batch does that sets its variables beforehand;
overwriting and printing stay concurrent. It is the precondition under which the
table is a map, and the weakest simple one: two new names, or a new name and a
reader of it, are enough to break it. The second precondition is that no command
names the mark of an empty slot. In A1 and in the third assignment the mark is `none`,
which can be typed: `set none 5` is then undone by the next new name. A2 marks
slots with a name that cannot be typed.

### The parsers

A line is a sequence of characters; a word the shell knows counts as one
character, since nothing looks inside it. `LineSyntax` says what a line stands
for without a loop. An action of a parser is one turn of its loop: a word taken,
a command ended. `StarterParser` works on `main`'s buffer, which is filled with
zeros behind the line; it reports empty commands but passes over those
of blanks only, and after a line of blanks only it returns an `errorCode` it never
assigned, which `main` compares with -1. Its test for a blank last command (line
130) is never true, because `commandStart` is then `ix`. `SolutionParser` is the
loop, the call of `interpreter` and the recursion of the reference shells, which
hand on every command, blank or not. The refinements differ accordingly:
`StarterExecutesChain` is about the commands that have words,
`SolutionExecutesChain` about all of them; `LineIsExecuted` says that both chains
come to their end. `Lines` may be any lines as `fgets` returns them: a newline comes
last or not at all.

`StarterInput` adds what decides an `exec`: `background_mode`, which `main` sets
when `exec` and `#` occur anywhere in the line, `mt_mode`, which is never reset, and
the arguments read from the right. An exec of four programs or more loses all
but the first and the last two without a word; `exec p MT` has no policy, and
`exec` compares NULL. The model follows these; `ExecReadsItsArguments` is about
execs written as the comment in `interpreter.c` 337-338 says. Lines longer than the
buffers, and stored lines without a newline that end in blanks, are left out.

### ReferenceShell

`frames` is the stack of calls of `run`, with `main`'s loop at the bottom: the file,
the number of lines read, and the commands of the current line that are still to
come (the recursion of `parseInput`, flattened). `fgets` and `feof` are modelled by
what they do: a file that ends with a newline gives one more, empty, line; the
batch file on standard input may end with or without one, and is then replaced
by the terminal, if there is one. A path is the sequence of names below the
directory the shell was started in; `dirs` and `files` are what there is on disk. An empty
script, or a directory, which `fopen` opens as well, leaves the line uninitialised,
and `touch` closes NULL when it cannot open: the model goes to `undefined`, after
which nothing is said. `MaxOpen` stands for the limit on open files, the only bound
on the nesting of scripts. The reference for the order of execution, in
`MCReferenceShell`, is a recursive function on the scripts as data.

`TextExpansion` says the same without a stack: one text, and the run of a script is
replaced by its text (`Texts`). What is mapped to it is the text each call has yet to do
(`Pending`), that of the innermost first and that of `main` last. Each command is tagged
with the number of files that can still be opened where it stands, since a run beyond
`MaxOpen` is reported instead of replaced.

## Runs

| Run | Instance | Shows |
| --- | --- | --- |
| `lru_list` | 4 frames, all values of uninitialised fields | list well formed, implements the recency order, freed once |
| `paging_fresh` | 6 frames, one RR exec of 1-3 different scripts of two lines or more | every process executes its own lines and nothing crashes, although evictions leave stale page-table entries |
| `paging_session` | 4 frames, sessions of 3 commands, scripts that cd, touch and quit | residency, alignment of faults, processes scheduled once and never lost, schedulers end |
| `paging_rerun` | 2 frames, one script run twice | violation: stale page-table entry after an eviction |
| `mt_pool` | 2 workers, up to two execs of one program, slice 2 or 30, quits | until the user quits: one executor, queue intact, no unfinished process lost, count exact without requeues, the first exec completes; after it: the types survive a drain that tears pops and appends |
| `mt_quit` | 2 workers, one exec of one program, quit at any time | violation: quit joins a worker nobody wakes |
| `batch` | A2, sessions around two execs, every policy, 10 lines of memory | line memory owned and emptied, queue ordered by policy, under `FCFS`, `RR` and `RR30` a later script never ahead, scripts live once and run to their end, batches and schedules end |
| `batch_rejected` | A2, execs with `#` that fail | violation: background without a queue |
| `variables` | 2 threads, 2 slots, 3 names, 2 values, new names set alone | the loops over the slots are a map with bounded room; no stored value is overwritten by another name |
| `variables_race` | the same, new names set at any time | violation: a slot claimed twice |
| `command_lines` | every line of up to 5 words, blanks and semicolons, and execs of up to 4 words or 4 programs with their modes | both parsers call every command of the chain, once, in order, and come to its end; `exec` gets what was written |
| `reference_shell` | 8 scripts in two directories, 3 lines of input, 3 files open at once | execution in the order of the text, in the right directory; the shell implements `TextExpansion`; the prompt returns |

Why the bounds are enough. Four frames give the list a head, a tail and two
inner nodes, adjacent and not: all the cases of unlinking. `paging_fresh` has two
frames per script, the smallest store the code's own assumption admits, and
scripts longer than two pages, so that evictions, evictions of pages not yet
used, and refaults happen. `paging_session` has fewer frames than pages and three
commands, which is what a stale entry takes: one to map, one to evict, one to
use; the limit on commands is `MaxCommands`. The scripts of
`paging_session` include an empty one and one that is truncated, so creation from unset
pointers is among its behaviours. The program of `mt_pool` makes a slice of two
expire once in its middle and once with its last line; two workers is the number the
code has, and two execs (`MaxExecs`) let the second add its process while the workers
are at that of the first, wait or have ended. When the drain is torn step by step the
states multiply, so the user quits at any time in a session of at most one exec, and after the
second exec only when one of the workers has ended (`QuitsWhenBounded`). Every step of the pops
and appends is among these, those on a queue of two included; drains of two processes
with both workers at them are left to the theorem about the types (`TypeCorrect`),
and the other properties of `mt_pool` speak of the time before.
In `batch` an exec of none to four scripts (too few, too many, twice the same,
one missing, two of one length, one that quits) is followed, at the prompt or in
the batch, by another one, under the same policy, `FCFS`, `RR` or an unknown one, so
schedules of one policy are given scripts under another. The scripts are as long as it takes for jobs of different length to tie after
aging, and for RR slices to end on the last line and before it; ten lines hold
three scripts and a short batch but not all of them.
In `variables` two slots and three names make the table overflow, and two threads
meet in every pair of positions of their loops. In `command_lines` five characters
hold three empty commands with a blank among them, or two commands of two words
(`MaxLength`, `MaxArguments`). In `reference_shell` a script that runs itself
twice fills the three open files (`MaxOpen`) and leaves by every level; three lines of
input (`MaxInput`) are one to change the disk, one to act on it, one to follow.

Each of the properties of the passing runs has a mutant in the module it belongs
to: the code with a plausible mistake, under which the run fails. They sit
above the definition they alter, under a comment that begins `Mutant:`.

### What the violations say

* The entry of an evicted page stays valid (`interpreter.c` 603-613). One round
  robin exec of different scripts is not affected: a process goes through its
  pages once, in order (that is `paging_fresh`). The next process of the same
  script is.
* In MT mode a worker may sleep for ever, and `quit`, which joins it, with it.
* In A2, `background` is set before `exec` knows that it will succeed and is never
  reset: after a failed `exec ... #` the next `exec` crashes.
* Two workers that set new variables may claim the same slot.

The models also do the following, which the passing properties exclude in their
statements (see the hazards in `PROJECT.json`): `find_free_frame` returns -1 in
`create_process_PCB`, because completed programs keep their frames (`crashed` in
`paging_session`); `run` of an empty file spins, its slice being 0
(`SchedulerFinishes` is about positive slices); a script of fewer than two lines is
created from uninitialised pointers (`crashed` in `paging_session`; `NeverCrashes` is
about longer ones); in MT mode the count of active threads
is decremented twice for a process that another worker finished in between
(`CountExactWithoutRequeue` is about slices that do not expire); only the first
exec is sure to be executed (`FirstExecCompletes`); and a quit while the workers are
busy may give one process to both, or lose one (`OneExecutor`, `QueueIntact` and
`UnfinishedKept` are about the time until then).

## Fairness

`DemandPaging` is a sequential program: `FairSpec` says that once a command is
read, the shell goes on executing it (weak fairness of creation and scheduling);
the user need not type anything. In `WorkerPool` each thread that can take a step
takes one (weak fairness per worker, and for `quit`), the scheduling pthreads
and the kernel provide; a worker at `pthread_mutex_lock` gets the mutex if it is
free again and again (strong fairness), so that liveness properties do not fail
for starvation. Spurious wakeups, commands and the end of input are not fair. `BatchScheduler`
is sequential too: weak fairness of its next step (the whole input is there from the
start) says that the one thread runs. So does that of `CommandLines`, and in
`ReferenceShell` the weak fairness of `Work`, which is the execution of a line; the
user, the batch file and the terminal need not give any. All
temporal counterexamples are found under these assumptions.

## Proofs

TLAPS proves, for every value of the constants that meets the named assumptions
(`NumFramesAssumption`: at least one frame; `SessionAssumption`: scripts fit
their page tables; `PoolAssumption`: finitely many workers, programs of two lines or more; `ScriptsAssumption`
and `InputsAssumption`: A2 scripts have a line and do not exec or run others;
`LineSyntaxAssumption` and `CommandLinesAssumption`: separators are no letters, and
a newline ends a line; the other assumptions only give the constants their types):

* `FrameRankings_proofs`: `Touch` maps rankings to rankings (`TouchRanking`);
  `Victim` is the one frame of the last rank (`VictimIsLast`).
* `LRUTracker_proofs`: `TypeCorrect`, `ListStaysWellFormed`,
  `CleanupFreesEachNodeOnce` and `Refinement` (`Spec => Abstract!Spec`). The
  argument: some ranking threads the list (`Threads(r)`), it is unique
  (`ThreadingUnique`), and moving a node to the head threads `Touch(r, f)`
  (`MoveToHeadThreads`). The invariant adds, for the cleanup, that the freed
  nodes are those of a rank smaller than the cursor's.
* `ShellMemory_proofs`: `TypeCorrect`, for threads that interleave in any way, and,
  assuming `Untypable` (no command names the mark of an empty slot) and
  `NewNamesAlone`, `SpotsKept` and `Refinement` (`SpecNewNamesAlone =>
  Abstract!Spec`), for every table size and any number of threads. The inductive
  invariant says that no two slots hold one name, that a slot has a value exactly
  when it holds a variable (`ValueWhenTaken`), and what each loop has established
  about the slots behind its counter (`Searched`). Without `NewNamesAlone` the last
  is not inductive: another thread fills a slot already passed.
* `ReferenceShell_proofs`: `TypeCorrect`, for any scripts and input. It says that
  `run` nests no deeper than files can be opened, that no script is read past its
  end, and that the working directory exists. `Refinement` is `Spec =>
  RefinesTextExpansion`: replacing every call of `run` by the text of its script, however
  scripts run each other, explains what is executed and in which order. Each step of the
  shell takes one command off that text, puts a script's text in place of its run, or
  leaves the text alone (a line read, a script ended). What a call has yet to do is the rest of
  its line and the lines it has not read (`Pending`); the lemmas say what the steps on
  the innermost call mean for the concatenation over all calls (`TextOfRun`,
  `TextOfNextLine`, `TextOfEndScript`). They rest on `FlattenSeq` of a sequence with a
  member put before or behind it (`FlattenCons`, `FlattenAppend`); since no induction
  can be used, these are proved by the smallest counterexample (`LeastMember`).
* `DemandPaging_proofs`: `TypeCorrect`, `ResidentPagesMapped`, `FaultsAligned`,
  `ProcessesDistinct`. The inductive invariant `IInv` adds to the properties
  what carries them: every live process is of a registered script, has a pid
  below `PCB_PID` and a program counter within its script's page table, and
  every page behind its program counter is mapped (`HealthyPCBs`); no file, length or
  loaded page is longer than a page table (`LengthsBounded`). The mapped pages
  are why faults are aligned: a process in the middle of a page has executed
  the line before, and nothing ever removes a page-table entry. Residency
  turns on the converse: a page is only loaded when its entry is invalid or newly
  made, so no other frame can hold it.

  `NoneIsLost` is the action property `ProcessesRunOn`: until quit, no expired slice, page
  fault or failed load drops a process, repeats a line or skips one. Together with
  `LiveProcessesDistinct` it says that a process is at every moment in exactly one place.

  `FirstCommandExecutesOwnCode` and `FirstCommandNeverCrashes` are about the first
  command of a session (`read <= 1`), where nothing stale is left from commands
  before it, and have a hypothesis, `FirstCommandFits`: scripts whose lines leave the
  disk alone or quit, a `run` or a round-robin exec (of one script if the slice is
  not RR's), of different scripts, at most three, with two frames for each. The
  instance of `paging_fresh` satisfies it. `FirstCommandNeverCrashes` has a second
  one, `NoShortScripts`: every file has two lines or more, which is what
  `create_process_PCB` needs to set all the pointers it uses; its invariant adds that no
  file gets shorter (`FirstCommandSound`). Scripts may have any length and the store
  any size above that, so pages are evicted without a page table being told, and still every line
  executed is the process's own. The invariant, `FirstCommand`, explains why. While the
  processes are created there are two free frames for each one to come
  (`Loading`). In the pages loaded beforehand round robin keeps all processes within
  one turn of each other (`Lockstep`), so the first eviction comes when nobody has
  lines left to execute there. From then on each turn touches at most two frames
  and the page a process is in the middle of is among the `2K - 1` most recently
  used ones when its turn comes (`Turns`, `Recent`), so it is never the
  victim; the pages behind it are never needed again, and those ahead of it
  are not mapped (`PagesAhead`).

* `WorkerPool_proofs`: `TypeCorrect`, `OneExecutorAtATime`, `QueueStaysIntact`,
  `NoneIsLost` and `CountExact`, for any number of workers, programs and exec commands.
  All but the first are about the time until the user quits, because the unlocked pops
  of `quit` break what they say. The inductive invariant is made of what holds at all
  times (the types, that a worker past the pop has a process, and that a worker is between
  the steps of an append only when the user has quit) and of what holds until the
  quit. That a queued process has no freed PCB is the delicate part, because a worker
  asks whether a process is complete after it has put it back. The invariant says why
  this does no harm: only a process without lines left is freed, one that is
  put back has lines left, and so has one that is queued while some worker still
  holds its PCB (`FreedWhenComplete`). Nothing about `queue_mutex` is needed, since
  until the quit a pop or an append is one step. `NoneIsLost` adds the other half to `OneExecutorAtATime`:
  until quit, a process with lines left is queued or does have an executor (`AllKept`).
  A worker lets go of a process in two places only: where it puts it back, and where
  it has read that no line is left, which is true because nobody else advances the
  program counter and a freed PCB has none either (`FreedWhenComplete`).
  `CountExact` is about a pool without
  expired slices: there nobody puts a process back, so a worker has what it
  popped to itself until it has freed it, and goes from counting itself in to
  counting itself out without a second test in between (`Undisturbed`); `Counted` adds
  that a worker's slice counter is not ahead of the program counter, which is why
  a slice no shorter than the last line of any program does not expire.
* `BatchScheduler_proofs`: `TypeCorrect`, `LinesStayOwned`, `MemoryEmptyAtPrompt`,
  `ScriptsLiveOnce` and `BatchDoesNotPrompt`, for any scripts, inputs and memory
  size, from the assumptions of the module. The invariant adds to `OwnsItsLines` that no two
  live processes share a pid or a name (`ProcessesApart`) and what the one thread
  may find where it is (`Phases`): nothing is alive at the prompt, and an exec
  that loads while a process runs was called by the shell's process, which is
  alive only in the background. So the allocator is reset, and the queue released,
  only when nothing is alive, and freeing one process's lines touches no
  other's. That every policy's enqueue adds one process and loses none
  is `EnqueueAdds`. `QueueSorted` and `PreemptedByShorter` follow from a second invariant,
  `Order`: when all execs of the input ask for one policy, the schedule has that
  policy from its first load to its end, and under SJF and AGING the queue is
  sorted, except that a batch's shell, which has no rank, may wait at its head
  until the first dequeue. Aging keeps the order because it lowers every
  positive score by one and leaves the zeros, and a process that is put back keeps
  the head in a tie and otherwise goes in front of the first longer one.

  `EveryProcessRuns` is `RunsToItsEnd`: under every mixture of policies, a process that
  is loaded stays in the queue or runs, line by line, until it has none left. It needs,
  besides the lemmas on the queues, that nothing has run yet when an exec at the prompt
  fails and takes back what it loaded (`Unbegun`). `LaterIsNeverAhead` is about sessions under
  `FCFS`, `RR` and `RR30`, where a nested exec may ask for a policy other than the
  running schedule's. Its invariant, `Taken`, relates any two jobs of the queue: of
  the one in front, if it was given first, it says that it has run at least as far,
  and otherwise that it is behind by one slice, the one it is about to have
  (`InTurn`); the running one has already used part of that (`RunsInTurn`). A
  schedule that is not preemptive never has a job with lines behind it on the queue, so
  there the later one has not run at all; and a schedule begins with jobs of which none
  has run, in the order they were given (`NoneHasRun`, `AsGiven`).
* `CommandLines_proofs`: `TypeCorrect`, `StarterCallsInOrder`,
  `SolutionCallsInOrder` and `ArgumentsReadAsWritten`, for lines of any length.
  Each parser implements `CommandChain`. The reference definition picks the positions of commands
  and words out of the whole line, the parsers go through it once, so the lemmas
  relate the two: `InOrder` lists a finite set of positions by rank (`InOrderAt`,
  `InOrderRank`, `InOrderAppend`); what has been read of the current command is its
  words up to the position (`Scanned`), which a word (`ScanWord`), blanks (`ScanBlanks`)
  and the end of a command (`ScanEnd`) carry on. The invariant says that a parser has
  called the commands that end before the one it reads (`SolutionReads`), or as many of them
  as have words (`StarterReads`). It needs that a newline comes last: the starter's
  loop only stops at the zeros behind the line, and would execute what follows a
  newline in the middle.
  `ArgumentsReadAsWritten` is about `exec`. Reading an argument list from the right
  finds what was written from the left (`ArgumentsRead`); each exec so far is
  recorded with what its own words give, and with the modes at the time
  (`ExecsRecorded`): `mt_mode` is on once some exec has asked for it, and of a
  line with one command there is at most one exec, still in the mode `main` has
  chosen. That choice is right (`BackgroundAsked`) only of lines where no `#` is part of a longer
  word, `HashStandsAlone`: `strstr` finds the `#` of `exec a#b RR` as well. This is the
  theorem's one hypothesis beside the module's assumptions; TLC confirms it of the run's lines.

Only model-checked: all liveness properties (`SchedulerFinishes`,
`FirstExecCompletes`, `SchedulesEnd`, `PromptReturns`, `LineIsExecuted`);
`ExecutesOwnCode` and `NeverCrashes` are theorems for the first command that fits and
false in general (`paging_rerun`, and `crashed` in `paging_session`);
and `ExecutesInTextOrder`, whose reference is a recursive function on the scripts
as data. What it says of whole runs, the theorem on `TextExpansion` says step by step.

## Not modelled, and why

`my_ls`, `help`, `echo` and the printing are I/O. The comparator behind the A1
solution's `ls` is inconsistent when a digit meets the end of a name or a dot (each
is less than the other), so the order of a listing with such names is that of the
sort; and `scandir` is given no filter, so names with a dot are listed although the
comment at `interpreter.c` 207-210 says they are hidden. `my_mkdir` is modelled in
the A1 solution only. `ageReadyQueue` has no
caller. Memory exhaustion is left out where the code would abort anyway. The
prebuilt `mysh` and object files, the test scripts, and the assignment texts (docx,
pdf) hold no logic of their own. The rest is in the plan.

## Plan

1. Sessions of the A2 shell that mix `SJF` or `AGING` with other policies: a nested run
   may put a short job behind longer ones there. `RunsToItsEnd` and `SchedulesEnd`
   say what remains true; the repository leaves the order open. An abstract scheduler, a
   policy as the choice of the next process, would have to settle it first.
2. Nested `run` and `exec` in paged scripts; `exec ... #` of the third assignment,
   whose shell process has no script name.
