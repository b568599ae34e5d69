------------------------ MODULE DemandPaging_proofs -------------------------
(***************************************************************************)
(* Safety of the demand-paging shell for every set of scripts, every text, *)
(* every number of frames and every session; and, of the first command of  *)
(* a session, that its processes execute their own code.                   *)
(***************************************************************************)
EXTENDS DemandPaging, FrameRankings_proofs, SequenceTheorems, FiniteSetTheorems

-----------------------------------------------------------------------------
(* The operators.                                                          *)

\* find_free_frame returns a free frame whenever there is one.
LEMMA FreeFrameFound ==
  ASSUME NEW st
  PROVE  /\ FreeFrames(st) # {} => find_free_frame(st) \in FreeFrames(st)
         /\ FreeFrames(st) = {} <=> find_free_frame(st) = -1
<1>1. FreeFrames(st) \in SUBSET Frames
  BY DEF FreeFrames
<1>2. -1 \notin Frames
  BY NumFramesAssumption DEF Frames
<1>3. CASE FreeFrames(st) = {}
  BY <1>3 DEF find_free_frame
<1>4. CASE FreeFrames(st) # {}
  <2>1. \E f \in FreeFrames(st) : \A g \in FreeFrames(st) : f <= g
    BY <1>1, <1>4, FirstFrame
  <2>2. find_free_frame(st) \in FreeFrames(st)
    BY <1>4, <2>1 DEF find_free_frame
  <2> QED
    BY <1>1, <1>2, <1>4, <2>2
<1> QED
  BY <1>3, <1>4

\* The pages a page table has room for are those of the longest script.
LEMMA PageInTable ==
  ASSUME NEW pc \in Nat, pc < FRAME_SIZE * MAX_PAGE_TABLE_SIZE
  PROVE  pc \div FRAME_SIZE \in PageNumbers
BY SessionAssumption DEF FRAME_SIZE, PageNumbers

\* The lines before a program counter that is not at a page boundary include
\* one of the page it is in.
LEMMA PreviousLineSamePage ==
  ASSUME NEW pc \in Nat, pc % FRAME_SIZE # 0
  PROVE  pc - 1 \in 0 .. pc - 1 /\ (pc - 1) \div FRAME_SIZE = pc \div FRAME_SIZE
BY DEF FRAME_SIZE

LEMMA EmptyIsNoPage == Empty \notin Pages /\ NoProcess \notin PCBs
<1>1. Empty.first \notin Nat
  BY DEF Empty
<1>2. NoProcess.pid \notin Nat \ {0}
  BY DEF NoProcess
<1> QED
  BY <1>1, <1>2 DEF Pages, PCBs

-----------------------------------------------------------------------------
(* The inductive invariant.                                                *)

\* Files never get longer than the user wrote them, so no length needs more
\* page-table entries than there are.
LengthsBounded ==
  /\ \A d \in Dirs, s \in Scripts : lines[d][s] <= Len(Text[s])
  /\ \A s \in Scripts : length[s] <= FRAME_SIZE * MAX_PAGE_TABLE_SIZE
  /\ \A f \in Frames : store[f] # Empty =>
       store[f].first < FRAME_SIZE * MAX_PAGE_TABLE_SIZE

\* A live process belongs to a registered script and has already had a frame
\* for every line behind its program counter.
HealthyPCBs ==
  { p \in PCBs :
      /\ p.script \in scripts
      /\ p.pid < PCB_PID
      /\ p.pc < FRAME_SIZE * MAX_PAGE_TABLE_SIZE
      /\ \A j \in 0 .. p.pc - 1 :
           page_table[p.script][j \div FRAME_SIZE] # Invalid }

ProcessesOK ==
  /\ \A i \in 1 .. Len(queue) : queue[i] \in HealthyPCBs
  /\ current # NoProcess => current \in HealthyPCBs

IInv ==
  /\ TypeOK
  /\ LengthsBounded
  /\ ProcessesOK
  /\ ResidentPageIsMapped
  /\ LiveProcessesDistinct

\* Why a fault is at a page boundary.
LEMMA FaultAligned ==
  ASSUME IInv, PageFault
  PROVE  /\ current \in PCBs
         /\ current.pc % FRAME_SIZE = 0
         /\ PageOf(current) \in PageNumbers
<1>1. current \in PCBs /\ current # NoProcess /\ Entry(current) = Invalid
  BY DEF IInv, TypeOK, PageFault, Running
<1>2. current \in HealthyPCBs
  BY <1>1 DEF IInv, ProcessesOK
<1>3. current.pc \in Nat
  BY <1>1 DEF PCBs
<1>4. ASSUME current.pc % FRAME_SIZE # 0
      PROVE  FALSE
  BY <1>1, <1>2, <1>3, <1>4, PreviousLineSamePage DEF HealthyPCBs, Entry, PageOf
<1> QED
  BY <1>1, <1>2, <1>3, <1>4, PageInTable DEF HealthyPCBs, PageOf

\* The shell starts without a process or a page, so the invariant holds.
THEOREM InitInvariant == Init => IInv
<1> SUFFICES ASSUME Init PROVE IInv
  OBVIOUS
<1>1. rank \in Rankings
  <2>0. NumFrames \in Nat \ {0}
    BY NumFramesAssumption
  <2>1. rank = [f \in Frames |-> f + 1]
    BY DEF Init
  <2>2. rank \in [Frames -> Ranks]
    BY <2>0, <2>1 DEF Frames, Ranks
  <2>3. \A f, g \in Frames : rank[f] = rank[g] => f = g
    BY <2>0, <2>1 DEF Frames
  <2>4. ASSUME NEW n \in Ranks
        PROVE  \E f \in Frames : rank[f] = n
    <3>1. n - 1 \in Frames /\ rank[n - 1] = n
      BY <2>0, <2>1 DEF Frames, Ranks
    <3> QED
      BY <3>1
  <2> QED
    BY <2>2, <2>3, <2>4 DEF Rankings
<1>2. lines \in [Dirs -> [Scripts -> Nat \cup {NoFile}]]
      /\ \A d \in Dirs, s \in Scripts : lines[d][s] <= Len(Text[s])
  <2>1. \A s \in Scripts : Len(Text[s]) \in Nat
    BY SessionAssumption
  <2> QED
    BY <2>1 DEF Init, NoFile
<1>3. TypeOK
  BY <1>1, <1>2, SessionAssumption DEF Init, TypeOK
<1>4. LengthsBounded
  BY <1>2, SessionAssumption DEF Init, LengthsBounded, FRAME_SIZE
<1>5. queue = <<>> /\ current = NoProcess /\ \A f \in Frames : store[f] = Empty
  BY DEF Init
<1>6. ProcessesOK /\ LiveProcessesDistinct /\ ResidentPageIsMapped
  BY <1>5 DEF ProcessesOK, LiveProcessesDistinct, ResidentPageIsMapped
<1> QED
  BY <1>3, <1>4, <1>6 DEF IInv

-----------------------------------------------------------------------------
(* The steps.                                                              *)

\* An executing process uses a frame its page table names.
LEMMA ExecutingEntry ==
  ASSUME IInv, CanExecute
  PROVE  /\ current \in HealthyPCBs /\ current \in PCBs
         /\ Entry(current) \in Frames
<1>1. current # NoProcess /\ current \in HealthyPCBs /\ Entry(current) # Invalid
  BY DEF IInv, ProcessesOK, CanExecute, Running
<1>2. current \in PCBs /\ PageOf(current) \in PageNumbers
  BY <1>1, PageInTable DEF HealthyPCBs, PCBs, PageOf
<1>3. Entry(current) \in Frames \cup {Invalid}
  BY <1>2 DEF IInv, TypeOK, Entry, PCBs
<1> QED
  BY <1>1, <1>2, <1>3

\* As long as scripts stay registered and mapped pages stay mapped, processes
\* stay healthy.
LEMMA HealthyKept ==
  ASSUME TypeOK, TypeOK',
         scripts \subseteq scripts', PCB_PID <= PCB_PID',
         \A s \in scripts, n \in PageNumbers :
           page_table[s][n] # Invalid => page_table'[s][n] # Invalid
  PROVE  HealthyPCBs \subseteq HealthyPCBs'
<1> SUFFICES ASSUME NEW p \in HealthyPCBs PROVE p \in HealthyPCBs'
  OBVIOUS
<1>1. /\ p \in PCBs /\ p.script \in scripts /\ p.pid < PCB_PID
      /\ p.pc < FRAME_SIZE * MAX_PAGE_TABLE_SIZE
      /\ p.pc \in Nat /\ p.pid \in Nat
  BY DEF HealthyPCBs, PCBs
<1>2. ASSUME NEW j \in 0 .. p.pc - 1
      PROVE  page_table'[p.script][j \div FRAME_SIZE] # Invalid
  <2>1. j \in Nat /\ j < FRAME_SIZE * MAX_PAGE_TABLE_SIZE
    BY <1>1, SessionAssumption DEF FRAME_SIZE
  <2>2. j \div FRAME_SIZE \in PageNumbers
    BY <2>1, PageInTable
  <2>3. page_table[p.script][j \div FRAME_SIZE] # Invalid
    BY DEF HealthyPCBs
  <2> QED
    BY <1>1, <2>2, <2>3
<1>3. p.pid < PCB_PID'
  BY <1>1 DEF TypeOK
<1> QED
  BY <1>1, <1>2, <1>3 DEF HealthyPCBs

LEMMA HealthyPid ==
  ASSUME TypeOK
  PROVE  \A p \in HealthyPCBs : p \in PCBs /\ p.pid \in Nat /\ p.pid # 0
                                /\ p.pid < PCB_PID
BY DEF HealthyPCBs, PCBs

\* Steps that leave the processes, the memory and the disk alone.
LEMMA IdleStep ==
  ASSUME IInv, TypeOK',
         UNCHANGED <<queue, current, memory, disk, PCB_PID>>
  PROVE  IInv'
<1> USE DEF memory, disk
<1>1. LengthsBounded'
  BY DEF IInv, LengthsBounded
<1>2. ProcessesOK'
  BY DEF IInv, ProcessesOK, HealthyPCBs
<1>3. ResidentPageIsMapped'
  BY DEF IInv, ResidentPageIsMapped
<1>4. LiveProcessesDistinct'
  BY DEF IInv, LiveProcessesDistinct
<1> QED
  BY <1>1, <1>2, <1>3, <1>4 DEF IInv

\* quit empties the queue and the frame store.
LEMMA QuitStep ==
  ASSUME IInv, TypeOK', quit,
         UNCHANGED <<current, scripts, length, page_table, lines, PCB_PID>>
  PROVE  IInv'
<1>1. queue' = <<>> /\ \A f \in Frames : store'[f] = Empty
  BY DEF quit
<1>2. LengthsBounded'
  BY <1>1 DEF IInv, LengthsBounded
<1>3. ProcessesOK'
  BY <1>1 DEF IInv, ProcessesOK, HealthyPCBs
<1>4. ResidentPageIsMapped'
  BY <1>1 DEF ResidentPageIsMapped
<1>5. LiveProcessesDistinct'
  BY <1>1 DEF LiveProcessesDistinct
<1> QED
  BY <1>2, <1>3, <1>4, <1>5 DEF IInv

\* A new process at the back of the queue, with a pid of its own.
LEMMA NewProcessStep ==
  ASSUME IInv, TypeOK', NEW s \in Scripts, s \in scripts',
         queue' = Append(queue, NewPCB(s)), PCB_PID' = PCB_PID + 1,
         current' = current,
         HealthyPCBs \subseteq HealthyPCBs'
  PROVE  ProcessesOK' /\ LiveProcessesDistinct'
<1> DEFINE new == NewPCB(s)
<1>1. TypeOK /\ PCB_PID \in Nat \ {0} /\ queue \in Seq(PCBs)
  BY DEF IInv, TypeOK
<1>2. new \in HealthyPCBs'
  BY <1>1, SessionAssumption DEF NewPCB, HealthyPCBs, PCBs, FRAME_SIZE
<1>3. new \in PCBs /\ new.pid = PCB_PID
  BY <1>1 DEF NewPCB, PCBs
<1> HIDE DEF new
<1>4. /\ Len(queue') = Len(queue) + 1 /\ Len(queue) \in Nat
      /\ \A i \in 1 .. Len(queue) : queue'[i] = queue[i]
      /\ queue'[Len(queue) + 1] = new
  BY <1>1, <1>3 DEF new
<1>5. ProcessesOK'
  BY <1>2, <1>4 DEF IInv, ProcessesOK
<1>6. \A i \in 1 .. Len(queue) : queue[i].pid < PCB_PID /\ queue[i].pid \in Nat
  BY <1>1, HealthyPid DEF IInv, ProcessesOK
<1>7. current.pid \in Nat /\ current.pid < PCB_PID
  <2>1. CASE current = NoProcess
    <3>1. current.pid = 0
      BY <2>1 DEF NoProcess
    <3>2. PCB_PID \in Nat /\ PCB_PID # 0
      BY <1>1
    <3>3. 0 < PCB_PID
      BY <3>2
    <3> QED
      BY <3>1, <3>3
  <2>2. CASE current # NoProcess
    BY <1>1, <2>2, HealthyPid DEF IInv, ProcessesOK
  <2> QED
    BY <2>1, <2>2
<1>8. LiveProcessesDistinct'
  <2>1. ASSUME NEW i \in 1 .. Len(queue'), NEW j \in 1 .. Len(queue'),
               queue'[i].pid = queue'[j].pid
        PROVE  i = j
    BY <1>1, <1>3, <1>4, <1>6, <2>1 DEF IInv, LiveProcessesDistinct
  <2>2. ASSUME NEW i \in 1 .. Len(queue')
        PROVE  queue'[i].pid # current'.pid
    BY <1>1, <1>3, <1>4, <1>7 DEF IInv, LiveProcessesDistinct
  <2> QED
    BY <2>1, <2>2 DEF LiveProcessesDistinct
<1> QED
  BY <1>5, <1>8

\* The running process at the back of the queue.
LEMMA RequeueStep ==
  ASSUME IInv, TypeOK', Running, Requeue,
         HealthyPCBs \subseteq HealthyPCBs'
  PROVE  ProcessesOK' /\ LiveProcessesDistinct'
<1>1. /\ TypeOK /\ queue \in Seq(PCBs)
      /\ current \in PCBs /\ current \in HealthyPCBs
  BY DEF IInv, TypeOK, ProcessesOK, Running
<1>2. queue' = Append(queue, current) /\ current' = NoProcess
  BY DEF Requeue
<1>3. /\ Len(queue') = Len(queue) + 1 /\ Len(queue) \in Nat
      /\ \A i \in 1 .. Len(queue) : queue'[i] = queue[i]
      /\ queue'[Len(queue) + 1] = current
  BY <1>1, <1>2
<1>4. ProcessesOK'
  BY <1>1, <1>2, <1>3 DEF IInv, ProcessesOK
<1>5. \A i \in 1 .. Len(queue') : queue'[i] \in PCBs
  BY DEF TypeOK
<1>6. LiveProcessesDistinct'
  <2>1. ASSUME NEW i \in 1 .. Len(queue'), NEW j \in 1 .. Len(queue'),
               queue'[i].pid = queue'[j].pid
        PROVE  i = j
    BY <1>3, <2>1 DEF IInv, LiveProcessesDistinct
  <2>2. ASSUME NEW i \in 1 .. Len(queue')
        PROVE  queue'[i].pid # current'.pid
    BY <1>2, <1>5 DEF NoProcess, PCBs
  <2> QED
    BY <2>1, <2>2 DEF LiveProcessesDistinct
<1> QED
  BY <1>4, <1>6

\* What create_process_PCB does with the pages and page table of a script
\* that was not registered.
LEMMA CreateFromFileStep ==
  ASSUME IInv, TypeOK', NEW s \in Scripts, CreateFromFile(s)
  PROVE  IInv'
<1> DEFINE f0 == PreloadFrame0
           f1 == PreloadFrame1(s)
           first == [store EXCEPT ![f0] = Page(s, 0)]
<1>1. /\ TypeOK /\ MAX_PAGE_TABLE_SIZE \in Nat \ {0}
      /\ FileLines(s) \in Nat /\ FileLines(s) <= Len(Text[s])
      /\ Len(Text[s]) <= FRAME_SIZE * MAX_PAGE_TABLE_SIZE
      /\ s \notin scripts
  <2>1. lines[cwd][s] \in Nat \cup {NoFile} /\ lines[cwd][s] <= Len(Text[s])
    BY DEF IInv, TypeOK, LengthsBounded
  <2> QED
    BY <2>1, SessionAssumption DEF IInv, CreateFromFile, FileLines
<1>2. HasPage(s, 0) => f0 \in Frames /\ store[f0] = Empty
  <2>1. HasPage(s, 0) => FreeFrames(store) # {}
    BY FreeFrameFound DEF CreateFromFile, PreloadFits, FramesSuffice, PreloadFrame0
  <2> QED
    BY <2>1, FreeFrameFound DEF FreeFrames, PreloadFrame0
<1>3. HasPage(s, 1) => HasPage(s, 0)
  BY <1>1 DEF HasPage, FRAME_SIZE
<1>4. HasPage(s, 1) => f1 \in Frames /\ first[f1] = Empty
  <2>1. HasPage(s, 1) => FreeFrames(first) # {}
    BY FreeFrameFound DEF CreateFromFile, PreloadFits, FramesSuffice, PreloadFrame1
  <2> QED
    BY <2>1, FreeFrameFound DEF FreeFrames, PreloadFrame1
<1>5. Page(s, 0) # Empty /\ Page(s, FRAME_SIZE) # Empty
  BY EmptyIsNoPage DEF Page, Pages, FRAME_SIZE
<1>6. HasPage(s, 1) => f1 # f0 /\ store[f1] = Empty
  <2>1. store \in [Frames -> Pages \cup {Empty}]
    BY <1>1 DEF TypeOK
  <2> QED
    BY <1>2, <1>3, <1>4, <1>5, <2>1
<1> HIDE DEF f0, f1, first
<1>7. \A f \in Frames :
        store'[f] = IF HasPage(s, 0) /\ f = f0 THEN Page(s, 0)
                    ELSE IF HasPage(s, 1) /\ f = f1 THEN Page(s, FRAME_SIZE)
                    ELSE store[f]
  BY DEF CreateFromFile, f0, f1
<1>8. /\ page_table'[s] =
           [p \in PageNumbers |-> IF Preloaded(s, p) THEN PreloadedFrame(s, p)
                                  ELSE Invalid]
      /\ \A t \in Scripts \ {s} : page_table'[t] = page_table[t]
  BY <1>1 DEF CreateFromFile, TypeOK
<1>9. /\ scripts' = scripts \cup {s} /\ lines' = lines /\ cwd' = cwd
      /\ length' = [length EXCEPT ![s] = FileLines(s)]
      /\ queue' = Append(queue, NewPCB(s)) /\ PCB_PID' = PCB_PID + 1
      /\ current' = current
  BY DEF CreateFromFile, disk
<1>10. HealthyPCBs \subseteq HealthyPCBs'
  <2>1. \A t \in scripts : t \in Scripts \ {s}
    BY <1>1 DEF TypeOK
  <2>2. PCB_PID \in Nat
    BY <1>1 DEF TypeOK
  <2> QED
    BY <1>1, <1>8, <1>9, <2>1, <2>2, HealthyKept
<1>11. ProcessesOK' /\ LiveProcessesDistinct'
  BY <1>9, <1>10, NewProcessStep
<1>12. LengthsBounded'
  <2>1. \A d \in Dirs, t \in Scripts : lines'[d][t] <= Len(Text[t])
    BY <1>9 DEF IInv, LengthsBounded
  <2>2. \A t \in Scripts : length'[t] <= FRAME_SIZE * MAX_PAGE_TABLE_SIZE
    BY <1>1, <1>9 DEF IInv, LengthsBounded, TypeOK, FRAME_SIZE
  <2>3. ASSUME NEW f \in Frames, store'[f] # Empty
        PROVE  store'[f].first < FRAME_SIZE * MAX_PAGE_TABLE_SIZE
    <3>1. CASE HasPage(s, 0) /\ f = f0
      BY <1>1, <1>7, <3>1 DEF Page, FRAME_SIZE
    <3>2. CASE ~(HasPage(s, 0) /\ f = f0) /\ HasPage(s, 1) /\ f = f1
      BY <1>1, <1>7, <3>2 DEF Page, FRAME_SIZE, HasPage
    <3>3. CASE ~(HasPage(s, 0) /\ f = f0) /\ ~(HasPage(s, 1) /\ f = f1)
      BY <1>7, <2>3, <3>3 DEF IInv, LengthsBounded
    <3> QED
      BY <3>1, <3>2, <3>3
  <2> QED
    BY <2>1, <2>2, <2>3 DEF LengthsBounded
<1>13. ResidentPageIsMapped'
  <2> SUFFICES ASSUME NEW f \in Frames, store'[f] # Empty
               PROVE  /\ store'[f].script \in scripts'
                      /\ store'[f].first % FRAME_SIZE = 0
                      /\ page_table'[store'[f].script]
                           [store'[f].first \div FRAME_SIZE] = f
    BY DEF ResidentPageIsMapped
  <2>1. CASE HasPage(s, 0) /\ f = f0
    <3>1. store'[f].script = s /\ store'[f].first = 0
      BY <1>7, <2>1 DEF Page
    <3>2. 0 \in PageNumbers /\ 0 \div FRAME_SIZE = 0 /\ 0 % FRAME_SIZE = 0
      BY <1>1 DEF PageNumbers, FRAME_SIZE
    <3>3. page_table'[s][0] = f0
      BY <1>8, <2>1, <3>2 DEF Preloaded, PreloadedFrame, f0
    <3> QED
      BY <1>9, <2>1, <3>1, <3>2, <3>3
  <2>2. CASE ~(HasPage(s, 0) /\ f = f0) /\ HasPage(s, 1) /\ f = f1
    <3>1. store'[f].script = s /\ store'[f].first = FRAME_SIZE
      BY <1>7, <2>2 DEF Page
    <3>2. /\ 1 \in PageNumbers /\ FRAME_SIZE \div FRAME_SIZE = 1
          /\ FRAME_SIZE % FRAME_SIZE = 0
      BY <1>1, <2>2 DEF PageNumbers, FRAME_SIZE, HasPage
    <3>3. page_table'[s][1] = f1
      BY <1>8, <2>2, <3>2 DEF Preloaded, PreloadedFrame, f1
    <3> QED
      BY <1>9, <2>2, <3>1, <3>2, <3>3
  <2>3. CASE ~(HasPage(s, 0) /\ f = f0) /\ ~(HasPage(s, 1) /\ f = f1)
    <3>1. store'[f] = store[f]
      BY <1>7, <2>3
    <3>2. /\ store[f].script \in scripts
          /\ store[f].first % FRAME_SIZE = 0
          /\ page_table[store[f].script][store[f].first \div FRAME_SIZE] = f
      BY <3>1 DEF IInv, ResidentPageIsMapped
    <3>3. store[f].script \in Scripts \ {s}
      BY <1>1, <3>2 DEF TypeOK
    <3> QED
      BY <1>8, <1>9, <3>1, <3>2, <3>3
  <2> QED
    BY <2>1, <2>2, <2>3
<1> QED
  BY <1>11, <1>12, <1>13 DEF IInv

\* A page fault, into a frame f that the store st holds free: a free frame of
\* the frame store, or the victim's.
LEMMA FaultStep ==
  ASSUME IInv, TypeOK', PageFault,
         NEW f \in Frames,
         NEW st, st = [store EXCEPT ![f] = Empty],
         LoadPage(f, st)
  PROVE  IInv'
<1> DEFINE s == current.script
           n == PageOf(current)
<1>1. /\ TypeOK /\ s \in Scripts /\ s \in scripts /\ current \in PCBs
      /\ current.pc \in Nat
      /\ current.pc % FRAME_SIZE = 0 /\ n \in PageNumbers
      /\ current.pc < FRAME_SIZE * MAX_PAGE_TABLE_SIZE
      /\ page_table[s][n] = Invalid
  <2>1. current \in HealthyPCBs
    BY DEF IInv, ProcessesOK, PageFault, Running
  <2> QED
    BY <2>1, FaultAligned DEF HealthyPCBs, PCBs, IInv, PageFault, Entry
<1>2. /\ page_table'[s][n] = f
      /\ \A t \in Scripts, m \in PageNumbers :
           t # s \/ m # n => page_table'[t][m] = page_table[t][m]
  BY <1>1 DEF LoadPage, TypeOK
<1>3. /\ Requeue
      /\ UNCHANGED <<scripts, length, lines, cwd, PCB_PID>>
  BY DEF LoadPage, disk, shell
<1>4. \A g \in Frames : \/ store'[g] = store[g] /\ g # f
                        \/ g = f /\ store'[g] = Empty
                        \/ g = f /\ store'[g] = Page(s, current.pc)
  BY <1>1 DEF LoadPage, StoreAfterLoad, TypeOK
<1>5. HealthyPCBs \subseteq HealthyPCBs'
  <2>1. \A t \in scripts, m \in PageNumbers :
          page_table[t][m] # Invalid => page_table'[t][m] # Invalid
    BY <1>1, <1>2 DEF TypeOK
  <2>2. PCB_PID \in Nat
    BY <1>1 DEF TypeOK
  <2> QED
    BY <1>1, <1>3, <2>1, <2>2, HealthyKept
<1> HIDE DEF n
<1>6. ProcessesOK' /\ LiveProcessesDistinct'
  BY <1>3, <1>5, RequeueStep DEF PageFault
<1>7. LengthsBounded'
  <2>1. \A g \in Frames : store'[g] # Empty =>
          store'[g].first < FRAME_SIZE * MAX_PAGE_TABLE_SIZE
    BY <1>1, <1>4 DEF IInv, LengthsBounded, Page
  <2> QED
    BY <1>3, <2>1 DEF IInv, LengthsBounded
<1>8. ResidentPageIsMapped'
  <2> SUFFICES ASSUME NEW g \in Frames, store'[g] # Empty
               PROVE  /\ store'[g].script \in scripts'
                      /\ store'[g].first % FRAME_SIZE = 0
                      /\ page_table'[store'[g].script]
                           [store'[g].first \div FRAME_SIZE] = g
    BY DEF ResidentPageIsMapped
  <2>1. CASE g = f
    <3>1. store'[g].script = s /\ store'[g].first = current.pc
      BY <1>4, <2>1 DEF Page
    <3> QED
      BY <1>1, <1>2, <1>3, <2>1, <3>1 DEF n, PageOf
  <2>2. CASE g # f
    <3>1. store'[g] = store[g] /\ store[g] # Empty
      BY <1>4, <2>2
    <3>2. /\ store[g].script \in scripts
          /\ store[g].first % FRAME_SIZE = 0
          /\ page_table[store[g].script][store[g].first \div FRAME_SIZE] = g
      BY <3>1 DEF IInv, ResidentPageIsMapped
    <3>3. store[g].first \div FRAME_SIZE \in PageNumbers
      <4>1. store[g].first \in Nat
        BY <1>1, <3>1 DEF TypeOK, Pages
      <4> QED
        BY <3>1, <4>1, PageInTable DEF IInv, LengthsBounded
    <3>4. g # Invalid
      BY NumFramesAssumption DEF Frames, Invalid
    <3>5. store[g].script # s \/ store[g].first \div FRAME_SIZE # n
      BY <1>1, <3>2, <3>4
    <3> QED
      BY <1>1, <1>2, <1>3, <3>1, <3>2, <3>3, <3>5 DEF TypeOK
  <2> QED
    BY <2>1, <2>2
<1> QED
  BY <1>6, <1>7, <1>8 DEF IInv

\* An executed line: the process advances or is freed.
LEMMA AdvanceStep ==
  ASSUME IInv, TypeOK', CanExecute, Advance,
         UNCHANGED <<queue, store, scripts, length, page_table, PCB_PID>>,
         \A d \in Dirs, s \in Scripts : lines'[d][s] <= Len(Text[s])
  PROVE  IInv'
<1>1. /\ TypeOK /\ current \in HealthyPCBs /\ current \in PCBs
      /\ Entry(current) # Invalid
      /\ length[current.script] <= FRAME_SIZE * MAX_PAGE_TABLE_SIZE
      /\ length[current.script] \in Nat
  BY ExecutingEntry DEF IInv, LengthsBounded, TypeOK, CanExecute, PCBs
<1>2. HealthyPCBs' = HealthyPCBs
  BY DEF HealthyPCBs
<1>3. CASE current' = NoProcess
  <2>1. \A i \in 1 .. Len(queue) : queue[i] \in PCBs
    BY <1>1 DEF TypeOK
  <2>2. \A i \in 1 .. Len(queue) : queue[i].pid # NoProcess.pid
    BY <2>1 DEF NoProcess, PCBs
  <2>3. ProcessesOK' /\ LiveProcessesDistinct'
    BY <1>2, <1>3, <2>2 DEF IInv, ProcessesOK, LiveProcessesDistinct
  <2> QED
    BY <2>3 DEF IInv, LengthsBounded, ResidentPageIsMapped
<1>4. CASE /\ current' = [current EXCEPT !.pc = current.pc + 1]
           /\ current.pc + 1 < length[current.script]
  <2>1. /\ current'.pid = current.pid /\ current'.script = current.script
        /\ current'.pc = current.pc + 1 /\ current' \in PCBs
        /\ current.pc \in Nat
    BY <1>1, <1>4 DEF PCBs
  <2>2. \A j \in 0 .. current'.pc - 1 :
          page_table[current.script][j \div FRAME_SIZE] # Invalid
    <3>1. \A j \in 0 .. current.pc - 1 :
            page_table[current.script][j \div FRAME_SIZE] # Invalid
      BY <1>1 DEF HealthyPCBs
    <3>2. page_table[current.script][current.pc \div FRAME_SIZE] # Invalid
      BY <1>1 DEF Entry, PageOf
    <3>3. \A j \in 0 .. current'.pc - 1 : j \in 0 .. current.pc - 1 \/ j = current.pc
      BY <2>1
    <3> QED
      BY <3>1, <3>2, <3>3
  <2>3. current'.pc < FRAME_SIZE * MAX_PAGE_TABLE_SIZE
    BY <1>1, <1>4, <2>1, SessionAssumption DEF FRAME_SIZE
  <2>4. current' \in HealthyPCBs
    BY <1>1, <2>1, <2>2, <2>3 DEF HealthyPCBs
  <2>5. ProcessesOK'
    BY <1>2, <2>4 DEF IInv, ProcessesOK
  <2>6. LiveProcessesDistinct'
    BY <2>1 DEF IInv, LiveProcessesDistinct
  <2> QED
    BY <2>5, <2>6 DEF IInv, LengthsBounded, ResidentPageIsMapped
<1>5. \/ current' = NoProcess
      \/ /\ current' = [current EXCEPT !.pc = current.pc + 1]
         /\ ~(current.pc + 1 >= length[current.script])
  BY DEF Advance
<1> QED
  BY <1>1, <1>3, <1>4, <1>5 DEF PCBs

LEMMA DispatchStep ==
  ASSUME IInv, TypeOK', Dispatch
  PROVE  IInv'
<1>1. /\ TypeOK /\ queue \in Seq(PCBs) /\ queue # <<>>
      /\ current' = Head(queue) /\ queue' = Tail(queue)
      /\ UNCHANGED <<memory, disk, PCB_PID>>
  BY DEF IInv, TypeOK, Dispatch, shell
<1>2. /\ Len(queue) \in Nat /\ Len(queue) > 0 /\ Len(queue') = Len(queue) - 1
      /\ current' = queue[1]
      /\ \A i \in 1 .. Len(queue') : queue'[i] = queue[i + 1]
  BY <1>1
<1>3. HealthyPCBs' = HealthyPCBs
  BY <1>1 DEF HealthyPCBs, memory
<1>4. ProcessesOK'
  BY <1>2, <1>3 DEF IInv, ProcessesOK
<1>5. LiveProcessesDistinct'
  <2>1. ASSUME NEW i \in 1 .. Len(queue'), NEW j \in 1 .. Len(queue'),
               queue'[i].pid = queue'[j].pid
        PROVE  i = j
    <3>1. i + 1 = j + 1
      BY <1>2, <2>1 DEF IInv, LiveProcessesDistinct
    <3> QED
      BY <3>1, <1>2
  <2>2. ASSUME NEW i \in 1 .. Len(queue'), queue'[i].pid = current'.pid
        PROVE  FALSE
    <3>1. i + 1 = 1
      BY <1>2, <2>2 DEF IInv, LiveProcessesDistinct
    <3> QED
      BY <3>1
  <2> QED
    BY <2>1, <2>2 DEF LiveProcessesDistinct
<1>6. LengthsBounded' /\ ResidentPageIsMapped'
  BY <1>1 DEF IInv, LengthsBounded, ResidentPageIsMapped, memory, disk
<1> QED
  BY <1>4, <1>5, <1>6 DEF IInv

-----------------------------------------------------------------------------
(* Types, action by action.                                                *)

LEMMA NewPCBType ==
  ASSUME TypeOK, NEW s \in Scripts
  PROVE  /\ Append(queue, NewPCB(s)) \in Seq(PCBs)
         /\ PCB_PID + 1 \in Nat \ {0}
BY DEF TypeOK, NewPCB, PCBs

LEMMA TodoTailType ==
  ASSUME TypeOK, todo # <<>>
  PROVE  Tail(todo) \in Seq(Scripts)
BY DEF TypeOK

LEMMA QuitType ==
  ASSUME TypeOK, quit
  PROVE  /\ status' \in {"prompt", "loading", "running", "exited", "crashed"}
         /\ queue' \in Seq(PCBs)
         /\ store' \in [Frames -> Pages \cup {Empty}]
BY DEF quit

LEMMA CreateFromFileType ==
  ASSUME IInv, NEW s \in Scripts, CreateFromFile(s)
  PROVE  TypeOK'
<1>0. TypeOK
  BY DEF IInv
<1>1. FileLines(s) \in Nat
  BY <1>0 DEF TypeOK, CreateFromFile, FileLines
<1>2. HasPage(s, 1) => HasPage(s, 0)
  BY <1>1 DEF HasPage, FRAME_SIZE
<1>3. /\ HasPage(s, 0) => PreloadFrame0 \in Frames
      /\ HasPage(s, 1) => PreloadFrame1(s) \in Frames
  BY FreeFrameFound DEF CreateFromFile, PreloadFits, FramesSuffice,
                        PreloadFrame0, PreloadFrame1, FreeFrames
<1>4. store' \in [Frames -> Pages \cup {Empty}]
  BY <1>0 DEF CreateFromFile, TypeOK, Page, Pages, FRAME_SIZE
<1>5. rank' \in Rankings
  BY <1>0, <1>2, <1>3, TouchRanking DEF CreateFromFile, TypeOK
<1>6. page_table' \in [Scripts -> [PageNumbers -> Frames \cup {Invalid}]]
  <2>1. \A p \in PageNumbers :
          Preloaded(s, p) => PreloadedFrame(s, p) \in Frames
    BY <1>3 DEF Preloaded, PreloadedFrame
  <2>2. [p \in PageNumbers |-> IF Preloaded(s, p) THEN PreloadedFrame(s, p)
                               ELSE Invalid]
          \in [PageNumbers -> Frames \cup {Invalid}]
    BY <2>1
  <2> QED
    BY <1>0, <2>2 DEF CreateFromFile, TypeOK
<1>7. length' \in [Scripts -> Nat] /\ scripts' \in SUBSET Scripts
  BY <1>0, <1>1 DEF CreateFromFile, TypeOK
<1>8. /\ queue' \in Seq(PCBs) /\ PCB_PID' \in Nat \ {0}
      /\ todo' \in Seq(Scripts)
  BY <1>0, NewPCBType, TodoTailType DEF CreateFromFile, Creating
<1> QED
  BY <1>0, <1>4, <1>5, <1>6, <1>7, <1>8 DEF CreateFromFile, TypeOK, disk

LEMMA LoadPageType ==
  ASSUME IInv, PageFault, NEW f \in Frames, NEW st,
         st \in [Frames -> Pages \cup {Empty}], LoadPage(f, st)
  PROVE  TypeOK'
<1>0. TypeOK /\ current \in PCBs /\ current.pc \in Nat /\ current.script \in Scripts
  BY FaultAligned DEF IInv, PCBs
<1>1. store' \in [Frames -> Pages \cup {Empty}]
  BY <1>0 DEF LoadPage, StoreAfterLoad, Page, Pages
<1>2. rank' \in Rankings
  BY <1>0, TouchRanking DEF LoadPage, TypeOK
<1>3. page_table' \in [Scripts -> [PageNumbers -> Frames \cup {Invalid}]]
  BY <1>0 DEF LoadPage, TypeOK
<1>4. queue' \in Seq(PCBs) /\ current' \in PCBs \cup {NoProcess}
  BY <1>0 DEF LoadPage, Requeue, TypeOK
<1> QED
  BY <1>0, <1>1, <1>2, <1>3, <1>4 DEF LoadPage, TypeOK, disk, shell

LEMMA AdvanceType ==
  ASSUME IInv, CanExecute, Advance
  PROVE  /\ rank' \in Rankings /\ counter' \in Nat
         /\ current' \in PCBs \cup {NoProcess}
<1>1. rank' \in Rankings
  BY ExecutingEntry, TouchRanking DEF IInv, TypeOK, Advance
<1>2. current' \in PCBs \cup {NoProcess}
  BY ExecutingEntry DEF Advance, PCBs
<1> QED
  BY <1>1, <1>2 DEF IInv, TypeOK, Advance

\* Files are truncated or created empty, never lengthened.
LEMMA TouchedLines ==
  ASSUME IInv, NEW s \in Scripts, lines' = [lines EXCEPT ![cwd][s] = 0]
  PROVE  /\ lines' \in [Dirs -> [Scripts -> Nat \cup {NoFile}]]
         /\ \A d \in Dirs, t \in Scripts : lines'[d][t] <= Len(Text[t])
<1>1. \A t \in Scripts : Len(Text[t]) \in Nat
  BY SessionAssumption
<1> QED
  BY <1>1 DEF IInv, TypeOK, LengthsBounded

\* The operations my_cd and my_touch act on directories and files that exist.
LEMMA FetchedInstruction ==
  ASSUME IInv, CanExecute, FetchedOp # "NULL"
  PROVE  Fetched \in Instructions /\ FetchedOp = Fetched.op
<1>1. ~FetchedNull /\ FetchedOp = Fetched.op
  BY DEF FetchedOp
<1>2. FetchedPage \in Pages /\ current.pc \in Nat
  BY <1>1, ExecutingEntry DEF FetchedNull, FetchedPage, IInv, TypeOK, PCBs
<1>3. /\ FetchedPage.script \in Scripts
      /\ FetchedLine \in Nat /\ FetchedLine < Len(Text[FetchedPage.script])
  <2>1. FetchedPage.script \in Scripts /\ FetchedPage.first \in Nat
    BY <1>2 DEF Pages
  <2>2. current.pc % FRAME_SIZE \in Nat
    BY <1>2 DEF FRAME_SIZE
  <2>3. Len(Text[FetchedPage.script]) \in Nat
    BY <2>1, SessionAssumption
  <2> QED
    BY <1>1, <2>1, <2>2, <2>3 DEF FetchedLine, FetchedNull
<1>4. Text[FetchedPage.script] \in Seq(Instructions)
  BY <1>3, SessionAssumption
<1>5. FetchedLine + 1 \in 1 .. Len(Text[FetchedPage.script])
  BY <1>3, <1>4
<1> QED
  BY <1>1, <1>4, <1>5 DEF Fetched

-----------------------------------------------------------------------------
\* No command, creation, fault, line or requeue breaks the invariant.
THEOREM NextInvariant == IInv /\ [Next]_vars => IInv'
<1> SUFFICES ASSUME IInv, [Next]_vars PROVE IInv'
  OBVIOUS
<1>0. TypeOK
  BY DEF IInv
<1> USE DEF process, shell
<1>1. ASSUME NEW c \in Commands, Accept(c)
      PROVE  IInv'
  <2>1. todo' \in Seq(Scripts) /\ policy' \in Policies \cup {"run"}
        /\ read' \in 0 .. MaxCommands
    BY <1>0, <1>1, SessionAssumption DEF Accept, Accepted, TypeOK
  <2>2. TypeOK'
    BY <1>0, <1>1, <2>1 DEF Accept, TypeOK, memory, disk
  <2> QED
    BY <1>1, <2>2, IdleStep DEF Accept
<1>2. ASSUME NEW c \in Commands, QuitCommand(c)
      PROVE  IInv'
  <2>1. read' \in 0 .. MaxCommands
    BY <1>0, <1>2, SessionAssumption DEF QuitCommand, TypeOK
  <2>2. TypeOK'
    BY <1>0, <1>2, <2>1, QuitType DEF QuitCommand, TypeOK, disk
  <2> QED
    BY <1>2, <2>2, QuitStep DEF QuitCommand, disk
<1>3. CASE EndOfInput
  <2>1. TypeOK'
    BY <1>0, <1>3 DEF EndOfInput, TypeOK, memory, disk
  <2> QED
    BY <1>3, <2>1, IdleStep DEF EndOfInput
<1>4. ASSUME NEW s \in Scripts, CreateFromRegistered(s)
      PROVE  IInv'
  <2>1. TypeOK'
    BY <1>0, <1>4, NewPCBType, TodoTailType
       DEF CreateFromRegistered, Creating, TypeOK, memory, disk
  <2>2. HealthyPCBs \subseteq HealthyPCBs'
    BY <1>0, <1>4, <2>1, HealthyKept DEF CreateFromRegistered, TypeOK, memory
  <2>3. ProcessesOK' /\ LiveProcessesDistinct'
    BY <1>4, <2>1, <2>2, NewProcessStep DEF CreateFromRegistered, memory
  <2>4. LengthsBounded' /\ ResidentPageIsMapped'
    BY <1>4 DEF CreateFromRegistered, IInv, LengthsBounded,
                ResidentPageIsMapped, memory, disk
  <2> QED
    BY <2>1, <2>3, <2>4 DEF IInv
<1>5. ASSUME NEW s \in Scripts, FileNotFound(s)
      PROVE  IInv'
  <2>1. TypeOK'
    BY <1>0, <1>5, TodoTailType DEF FileNotFound, Creating, TypeOK, memory, disk
  <2> QED
    BY <1>5, <2>1, IdleStep DEF FileNotFound
<1>6. ASSUME NEW s \in Scripts, CreateFromFile(s)
      PROVE  IInv'
  BY <1>6, CreateFromFileType, CreateFromFileStep
<1>7. ASSUME NEW s \in Scripts, CreateOverflows(s) \/ CreateReadsUnset(s)
      PROVE  IInv'
  <2>1. TypeOK'
    BY <1>0, <1>7 DEF CreateOverflows, CreateReadsUnset, TypeOK, memory, disk
  <2> QED
    BY <1>7, <2>1, IdleStep DEF CreateOverflows, CreateReadsUnset
<1>8. CASE StartScheduler
  <2>1. length[Head(queue).script] \in Nat
    <3>1. Head(queue) \in PCBs
      BY <1>0, <1>8 DEF StartScheduler, TypeOK
    <3> QED
      BY <1>0, <3>1 DEF TypeOK, PCBs
  <2>2. slice' \in Nat /\ status' \in {"running", "crashed"}
    BY <1>0, <1>8, <2>1 DEF StartScheduler, SliceSize, TypeOK
  <2>3. TypeOK'
    BY <1>0, <1>8, <2>2 DEF StartScheduler, TypeOK, memory, disk
  <2> QED
    BY <1>8, <2>3, IdleStep DEF StartScheduler
<1>9. CASE NothingToRun
  <2>1. TypeOK'
    BY <1>0, <1>9 DEF NothingToRun, TypeOK, memory, disk
  <2> QED
    BY <1>9, <2>1, IdleStep DEF NothingToRun
<1>10. CASE Dispatch
  <2>1. TypeOK'
    BY <1>0, <1>10 DEF Dispatch, TypeOK, memory, disk
  <2> QED
    BY <1>10, <2>1, DispatchStep
<1>11. CASE SchedulerDone
  <2>1. TypeOK'
    BY <1>0, <1>11 DEF SchedulerDone, TypeOK, memory, disk
  <2> QED
    BY <1>11, <2>1, IdleStep DEF SchedulerDone
<1>12. CASE SliceExpired
  <2>1. TypeOK'
    BY <1>0, <1>12 DEF SliceExpired, Running, Requeue, TypeOK, memory, disk
  <2>2. HealthyPCBs' = HealthyPCBs
    BY <1>12 DEF SliceExpired, HealthyPCBs, memory
  <2>3. ProcessesOK' /\ LiveProcessesDistinct'
    BY <1>12, <2>1, <2>2, RequeueStep DEF SliceExpired
  <2>4. LengthsBounded' /\ ResidentPageIsMapped'
    BY <1>12 DEF SliceExpired, IInv, LengthsBounded, ResidentPageIsMapped,
                 memory, disk
  <2> QED
    BY <2>1, <2>3, <2>4 DEF IInv
<1>13. CASE FaultWithFreeFrame
  <2> DEFINE f == find_free_frame(store)
  <2>1. f \in Frames /\ store[f] = Empty
    BY <1>13, FreeFrameFound DEF FaultWithFreeFrame, FreeFrames
  <2>2. store = [store EXCEPT ![f] = Empty] /\ LoadPage(f, store)
    BY <1>0, <1>13, <2>1 DEF FaultWithFreeFrame, TypeOK
  <2>3. TypeOK'
    BY <1>0, <1>13, <2>1, <2>2, LoadPageType DEF FaultWithFreeFrame, TypeOK
  <2> QED
    BY <1>13, <2>1, <2>2, <2>3, FaultStep DEF FaultWithFreeFrame
<1>14. CASE FaultWithEviction
  <2> DEFINE f == Victim(rank)
             st == [store EXCEPT ![f] = Empty]
  <2>1. f \in Frames
    BY <1>0, VictimIsLast DEF TypeOK
  <2>2. LoadPage(f, st) /\ PageFault
    BY <1>14 DEF FaultWithEviction
  <2>3. st \in [Frames -> Pages \cup {Empty}]
    BY <1>0, <2>1 DEF TypeOK
  <2>4. TypeOK'
    BY <2>1, <2>2, <2>3, LoadPageType
  <2> QED
    BY <2>1, <2>2, <2>4, FaultStep
<1>15. CASE ExecuteLine
  <2>1. TypeOK'
    BY <1>0, <1>15, AdvanceType DEF ExecuteLine, TypeOK, disk
  <2>2. \A d \in Dirs, s \in Scripts : lines'[d][s] <= Len(Text[s])
    BY <1>15 DEF ExecuteLine, IInv, LengthsBounded, disk
  <2> QED
    BY <1>15, <2>1, <2>2, AdvanceStep DEF ExecuteLine
<1>16. CASE ExecuteCd
  <2>1. cwd' \in Dirs
    BY <1>16, FetchedInstruction DEF ExecuteCd, Instructions
  <2>2. TypeOK'
    BY <1>0, <1>16, <2>1, AdvanceType DEF ExecuteCd, TypeOK
  <2>3. \A d \in Dirs, s \in Scripts : lines'[d][s] <= Len(Text[s])
    BY <1>16 DEF ExecuteCd, IInv, LengthsBounded
  <2> QED
    BY <1>16, <2>2, <2>3, AdvanceStep DEF ExecuteCd
<1>17. CASE ExecuteTouch
  <2>1. Fetched.file \in Scripts
    BY <1>17, FetchedInstruction DEF ExecuteTouch, Instructions
  <2>2. /\ lines' \in [Dirs -> [Scripts -> Nat \cup {NoFile}]]
        /\ \A d \in Dirs, t \in Scripts : lines'[d][t] <= Len(Text[t])
    BY <1>17, <2>1, TouchedLines DEF ExecuteTouch
  <2>3. TypeOK'
    BY <1>0, <1>17, <2>2, AdvanceType DEF ExecuteTouch, TypeOK
  <2> QED
    BY <1>17, <2>2, <2>3, AdvanceStep DEF ExecuteTouch
<1>18. CASE ExecuteQuit
  <2>1. rank' \in Rankings
    BY <1>18, ExecutingEntry, TouchRanking DEF ExecuteQuit, IInv, TypeOK
  <2>2. TypeOK'
    BY <1>0, <1>18, <2>1, QuitType DEF ExecuteQuit, TypeOK, disk
  <2> QED
    BY <1>18, <2>2, QuitStep DEF ExecuteQuit, disk
<1>19. CASE UNCHANGED vars
  <2>1. TypeOK'
    BY <1>0, <1>19 DEF vars, TypeOK, memory, disk
  <2> QED
    BY <1>19, <2>1, IdleStep DEF vars
<1> QED
  BY <1>1, <1>2, <1>3, <1>4, <1>5, <1>6, <1>7, <1>8, <1>9, <1>10, <1>11,
     <1>12, <1>13, <1>14, <1>15, <1>16, <1>17, <1>18, <1>19
     DEF Next, CreateProcess, Schedule

\* The strengthening the safety theorems follow from.
THEOREM Invariant == Spec => []IInv
BY InitInvariant, NextInvariant, PTL DEF Spec

\* Every reachable state is well typed: page-table entries name frames, and
\* the LRU order stays a ranking of all the frames.
THEOREM TypeCorrect == Spec => []TypeOK
<1>1. IInv => TypeOK
  BY DEF IInv
<1> QED
  BY <1>1, Invariant, PTL

\* A resident page is where its page table says: in no session are there two
\* copies of a page, or a resident page the table has lost.
THEOREM ResidentPagesMapped == Spec => []ResidentPageIsMapped
<1>1. IInv => ResidentPageIsMapped
  BY DEF IInv
<1> QED
  BY <1>1, Invariant, PTL

\* Page faults happen on the first line of a page only, whatever the slice and
\* however many processes share the page table.
THEOREM FaultsAligned == Spec => []FaultsAtPageStart
<1>1. IInv => FaultsAtPageStart
  BY FaultAligned DEF FaultsAtPageStart
<1> QED
  BY <1>1, Invariant, PTL

\* No process is in the ready queue twice, or both queued and running.
THEOREM ProcessesDistinct == Spec => []LiveProcessesDistinct
<1>1. IInv => LiveProcessesDistinct
  BY DEF IInv
<1> QED
  BY <1>1, Invariant, PTL

\* What an append and a pop do to the members of the ready queue.
LEMMA QueueMembers ==
  ASSUME NEW q \in Seq(PCBs)
  PROVE  /\ \A p \in PCBs : { Append(q, p)[i] : i \in 1 .. Len(Append(q, p)) }
                           = { q[i] : i \in 1 .. Len(q) } \cup {p}
         /\ q # <<>> => { q[i] : i \in 1 .. Len(q) }
                        = { Tail(q)[i] : i \in 1 .. Len(Tail(q)) } \cup {Head(q)}
<1>1. ASSUME NEW p \in PCBs
      PROVE  { Append(q, p)[i] : i \in 1 .. Len(Append(q, p)) }
             = { q[i] : i \in 1 .. Len(q) } \cup {p}
  <2>1. /\ Len(q) \in Nat /\ Len(Append(q, p)) = Len(q) + 1
        /\ Append(q, p)[Len(q) + 1] = p
        /\ \A i \in 1 .. Len(q) : Append(q, p)[i] = q[i]
    OBVIOUS
  <2>2. \A i \in 1 .. Len(q) + 1 : i \in 1 .. Len(q) \/ i = Len(q) + 1
    BY <2>1
  <2>3. Len(q) + 1 \in 1 .. Len(q) + 1 /\ 1 .. Len(q) \subseteq 1 .. Len(q) + 1
    BY <2>1
  <2> QED
    BY <2>1, <2>2, <2>3
<1>2. ASSUME q # <<>>
      PROVE  { q[i] : i \in 1 .. Len(q) }
             = { Tail(q)[i] : i \in 1 .. Len(Tail(q)) } \cup {Head(q)}
  <2>1. /\ Len(q) \in Nat /\ Len(q) >= 1 /\ Head(q) = q[1]
        /\ Len(Tail(q)) = Len(q) - 1
        /\ \A i \in 1 .. Len(q) - 1 : Tail(q)[i] = q[i + 1]
    BY <1>2
  <2>2. \A i \in 1 .. Len(q) : i = 1 \/ (i - 1 \in 1 .. Len(q) - 1 /\ (i - 1) + 1 = i)
    BY <2>1
  <2>3. 1 \in 1 .. Len(q) /\ \A i \in 1 .. Len(q) - 1 : i + 1 \in 1 .. Len(q)
    BY <2>1
  <2> QED
    BY <2>1, <2>2, <2>3
<1> QED
  BY <1>1, <1>2

\* What a step that does not end the shell may do to a live process.
Fate(p) ==
  \/ p \in Live'
  \/ /\ p = current /\ CanExecute
     /\ \/ [p EXCEPT !.pc = p.pc + 1] \in Live'
        \/ p.pc + 1 >= length[p.script]

LEMMA StepFates ==
  ASSUME IInv, [Next]_vars, status' # "exited", NEW p \in Live
  PROVE  Fate(p)
<1>1. queue \in Seq(PCBs) /\ current \in PCBs \cup {NoProcess}
  BY DEF IInv, TypeOK
<1>2. ASSUME UNCHANGED <<queue, current>> PROVE Fate(p)
  BY <1>2 DEF Live, Fate
<1>3. ASSUME NEW o \in PCBs, queue' = Append(queue, o), UNCHANGED current
      PROVE  Fate(p)
  BY <1>1, <1>3, QueueMembers DEF Live, Fate
<1>4. ASSUME current # NoProcess, Requeue PROVE Fate(p)
  BY <1>1, <1>4, QueueMembers DEF Requeue, Live, Fate
<1>5. ASSUME CanExecute, Advance, UNCHANGED queue PROVE Fate(p)
  <2>1. CASE p = current
    <3>1. CASE p.pc + 1 >= length[p.script]
      BY <1>5, <2>1, <3>1 DEF Fate
    <3>2. CASE ~(p.pc + 1 >= length[p.script])
      <4>1. current' = [p EXCEPT !.pc = p.pc + 1] /\ p \in PCBs
        BY <1>1, <1>5, <2>1, <3>2 DEF Advance, CanExecute, Running
      <4>2. current' # NoProcess
        BY <4>1 DEF PCBs, NoProcess
      <4> QED
        BY <1>5, <2>1, <4>1, <4>2 DEF Live, Fate
    <3> QED
      BY <3>1, <3>2
  <2>2. CASE p # current
    BY <1>5, <2>2 DEF Live, Fate
  <2> QED
    BY <2>1, <2>2
<1>6. CASE \E s \in Scripts : CreateFromRegistered(s) \/ CreateFromFile(s)
  <2>1. PICK s \in Scripts : CreateFromRegistered(s) \/ CreateFromFile(s)
    BY <1>6
  <2>2. NewPCB(s) \in PCBs
    BY DEF NewPCB, PCBs, IInv, TypeOK
  <2> QED
    BY <1>3, <2>1, <2>2 DEF CreateFromRegistered, CreateFromFile
<1>7. CASE Dispatch
  <2>1. /\ queue # <<>> /\ current = NoProcess
        /\ current' = Head(queue) /\ queue' = Tail(queue)
    BY <1>7 DEF Dispatch
  <2>2. Head(queue) \in PCBs /\ Head(queue) # NoProcess
    BY <1>1, <2>1, EmptyIsNoPage
  <2>3. p \in { queue[i] : i \in 1 .. Len(queue) }
    BY <2>1 DEF Live
  <2>4. p \in { queue'[i] : i \in 1 .. Len(queue') } \cup {current'}
    <3>1. p \in { Tail(queue)[i] : i \in 1 .. Len(Tail(queue)) } \cup {Head(queue)}
      BY <1>1, <2>1, <2>3, QueueMembers
    <3> QED
      BY <2>1, <3>1, Zenon
  <2>5. p \in Live'
    BY <2>1, <2>2, <2>4 DEF Live
  <2> QED
    BY <2>5 DEF Fate
<1>8. CASE SliceExpired \/ FaultWithFreeFrame \/ FaultWithEviction
  BY <1>4, <1>8 DEF SliceExpired, FaultWithFreeFrame, FaultWithEviction, PageFault,
     LoadPage, Running
<1>9. CASE ExecuteLine \/ ExecuteCd \/ ExecuteTouch
  BY <1>5, <1>9 DEF ExecuteLine, ExecuteCd, ExecuteTouch
<1>10. CASE UNCHANGED vars
  BY <1>2, <1>10 DEF vars, process
<1>11. CASE \/ \E c \in Commands : Accept(c)
            \/ \E s \in Scripts : \/ FileNotFound(s) \/ CreateOverflows(s)
                                  \/ CreateReadsUnset(s)
            \/ StartScheduler \/ NothingToRun \/ SchedulerDone
  BY <1>2, <1>11 DEF Accept, FileNotFound, CreateOverflows, CreateReadsUnset,
     StartScheduler, NothingToRun, SchedulerDone, process
<1>12. ~(EndOfInput \/ ExecuteQuit \/ \E c \in Commands : QuitCommand(c))
  BY DEF EndOfInput, ExecuteQuit, QuitCommand, quit
<1> QED
  BY <1>6, <1>7, <1>8, <1>9, <1>10, <1>11, <1>12 DEF Next, CreateProcess, Schedule

\* Until quit, no process is lost before its last line, and none executes a line
\* without moving to the next one: whatever faults, fails to load or is evicted.
THEOREM NoneIsLost == Spec => ProcessesRunOn
<1>1. IInv /\ [Next]_vars => [status' # "exited" => \A p \in Live : Fate(p)]_vars
  BY StepFates
<1>2. [status' # "exited" => \A p \in Live : Fate(p)]_vars =>
        [ status' # "exited" =>
            \A p \in Live :
              \/ p \in Live'
              \/ /\ p = current /\ CanExecute
                 /\ \/ [p EXCEPT !.pc = p.pc + 1] \in Live'
                    \/ p.pc + 1 >= length[p.script] ]_vars
  BY DEF Fate
<1> QED
  BY <1>1, <1>2, Invariant, PTL DEF Spec, ProcessesRunOn

-----------------------------------------------------------------------------
(* The first command of a session.                                         *)

\* Scripts that leave the disk alone, and commands that are a run or a round
\* robin exec of different scripts, for each of which there are two frames;
\* with a slice other than RR's, of one script.
FirstCommandFits ==
  /\ \A s \in Scripts : \A n \in 1 .. Len(Text[s]) :
       Text[s][n].op \in {"other", "quit"}
  /\ \A c \in Commands : Accepted(c) =>
       /\ c.name = "run" \/ c.policy \in {"RR", "RR30"}
       /\ Len(c.progs) <= 1 \/ (c.name # "run" /\ c.policy = "RR")
       /\ \A i, j \in 1 .. Len(c.progs) : c.progs[i] = c.progs[j] => i = j
       /\ Len(c.progs) <= MAX_SCRIPTS
       /\ 2 * Len(c.progs) <= NumFrames

\* The lines of the two pages that are loaded before a process runs.
EARLY == 2 * FRAME_SIZE

\* How far a process is in the part of its script in which nothing is evicted.
\* A script without lines has one process, which faults and then ends.
Progress(p) ==
  IF length[p.script] = 0 THEN IF Entry(p) = Invalid THEN 0 ELSE 2
  ELSE IF p.pc < EARLY THEN p.pc ELSE EARLY

\* A process that has not ended finds the page it is in, and those preloaded
\* that it has still to come to, where its page table says; no other page
\* from there on is mapped.
PagesAhead(p) ==
  length[p.script] > 0 =>
    \A n \in PageNumbers : n >= PageOf(p) =>
      IF page_table[p.script][n] = Invalid
        THEN n >= 2 \/ n * FRAME_SIZE >= length[p.script]
        ELSE /\ n <= 1 \/ n = PageOf(p)
             /\ store[page_table[p.script][n]] = Page(p.script, n * FRAME_SIZE)

WithinScript(p) ==
  p.pc < length[p.script] \/ (p.pc = 0 /\ length[p.script] = 0)

\* The fault of an empty script evicts nothing.
RoomForEmpty(p) ==
  length[p.script] = 0 /\ Entry(p) = Invalid => FreeFrames(store) # {}

Supplied(p) ==
  p.script \in scripts /\ PagesAhead(p) /\ WithinScript(p) /\ RoomForEmpty(p)

\* Past the preloaded pages, the page a process is in is among the bound most
\* recently used ones.
Recent(p, bound) ==
  length[p.script] > 0 /\ p.pc >= EARLY /\ Entry(p) # Invalid =>
    rank[Entry(p)] <= bound

\* The most processes there are two frames for.
K == NumFrames \div 2

InHand == IF current = NoProcess THEN 0 ELSE 1

DiskAsWritten ==
  /\ cwd = Home
  /\ \A s \in scripts : length[s] = lines[Home][s]

LiveProcesses ==
  /\ \A i \in 1 .. Len(queue) : Supplied(queue[i])
  /\ current # NoProcess => Supplied(current)
  /\ \A i, j \in 1 .. Len(queue) : queue[i].script = queue[j].script => i = j
  /\ current # NoProcess =>
       \A i \in 1 .. Len(queue) : queue[i].script # current.script
  /\ Len(queue) + InHand + Len(todo) <= K
  /\ Len(queue) + InHand + Len(todo) <= 1 \/ policy = "RR"

\* While processes are created there are two frames and a place in scripts
\* for each one to come, and a frame for those of empty scripts.
Loading ==
  /\ current = NoProcess
  /\ \A i \in 1 .. Len(queue) : queue[i].pc = 0 /\ Progress(queue[i]) = 0
  /\ \A i, j \in 1 .. Len(todo) : todo[i] = todo[j] => i = j
  /\ \A i \in 1 .. Len(todo) : todo[i] \notin scripts
  /\ IsFiniteSet(scripts) /\ Cardinality(scripts) + Len(todo) <= MAX_SCRIPTS
  /\ Cardinality(FreeFrames(store)) >= 2 * Len(todo)
  /\ (\E s \in scripts : length[s] = 0) =>
       Cardinality(FreeFrames(store)) > 2 * Len(todo)
  /\ policy \in {"run", "RR", "RR30"}

\* The progress of the running process when its turn began.
TurnStart ==
  IF length[current.script] = 0 THEN Progress(current)
  ELSE IF current.pc - counter < EARLY THEN current.pc - counter ELSE EARLY

\* In the first pages round robin keeps the processes within a turn of one
\* another, those who had their turn at the back.
Lockstep ==
  /\ \A i, j \in 1 .. Len(queue) : i <= j =>
       /\ Progress(queue[i]) <= Progress(queue[j])
       /\ Progress(queue[j]) <= Progress(queue[i]) + 2
  /\ \A i \in 1 .. Len(queue) : Progress(queue[i]) \in {0, 2, 4, 6}
  /\ current # NoProcess =>
       /\ TurnStart \in {0, 2, 4, 6}
       /\ \A i \in 1 .. Len(queue) :
            /\ TurnStart <= Progress(queue[i])
            /\ Progress(queue[i]) <= TurnStart + 2

\* A turn uses two frames at most, so the page of the process that is to run
\* next is the least recently used one at worst when all others had theirs.
Turns ==
  /\ current = NoProcess =>
       \A i \in 1 .. Len(queue) : Recent(queue[i], 2 * (K - i) + 1)
  /\ current # NoProcess =>
       /\ \A i \in 1 .. Len(queue) : Recent(queue[i], 2 * (K - i) - 1 + counter)
       /\ counter > 0 => Recent(current, 1) /\ length[current.script] > 0
       /\ counter <= slice /\ counter <= current.pc

Executing ==
  /\ todo = <<>>
  /\ slice # 2 => Len(queue) + InHand <= 1
  /\ slice = 0 =>
       /\ \A i \in 1 .. Len(queue) : length[queue[i].script] = 0
       /\ current # NoProcess => length[current.script] = 0
  /\ Turns
  /\ slice = 2 => Lockstep

Untouched ==
  /\ queue = <<>> /\ current = NoProcess /\ scripts = {} /\ cwd = Home
  /\ \A f \in Frames : store[f] = Empty

FirstCommand ==
  read <= 1 =>
    /\ status = "prompt" /\ read = 0 => Untouched
    /\ status \in {"loading", "running"} =>
         read = 1 /\ DiskAsWritten /\ LiveProcesses
    /\ status = "loading" => Loading
    /\ status = "running" => Executing

-----------------------------------------------------------------------------
(* Facts about one process.                                                *)

\* An access moves every other frame down by one place at most.
LEMMA TouchBound ==
  ASSUME NEW r \in Rankings, NEW f \in Frames, NEW g \in Frames
  PROVE  Touch(r, f)[g] <= r[g] + 1 /\ Touch(r, f)[f] = 1
<1>1. r \in [Frames -> Ranks] /\ r[f] \in Nat /\ r[g] \in Nat /\ r[g] >= 1
  BY NumFramesAssumption DEF Rankings, Ranks
<1> QED
  BY <1>1 DEF Touch

\* There are K times two frames.
LEMMA Halves == K \in Nat /\ 2 * K <= NumFrames
BY NumFramesAssumption DEF K

\* What is said of a process after a step is said of the process at its place.
LEMMA AtPlace ==
  ASSUME NEW i, NEW p, queue'[i] = p
  PROVE  /\ Supplied(queue[i])' <=> Supplied(p)'
         /\ Progress(queue[i])' = Progress(p)'
         /\ \A b : Recent(queue[i], b)' <=> Recent(p, b)'
<1>1. Supplied(queue[i])' <=> Supplied(p)'
  BY DEF Supplied, PagesAhead, WithinScript, RoomForEmpty, PageOf, Entry
<1>2. Progress(queue[i])' = Progress(p)'
  BY DEF Progress, PageOf, Entry
<1>3. \A b : Recent(queue[i], b)' <=> Recent(p, b)'
  BY DEF Recent, PageOf, Entry
<1> QED
  BY <1>1, <1>2, <1>3

\* The same of the running process.
LEMMA AtHand ==
  ASSUME NEW p, current' = p
  PROVE  /\ Supplied(current)' <=> Supplied(p)'
         /\ Progress(current)' = Progress(p)'
         /\ \A b : Recent(current, b)' <=> Recent(p, b)'
<1>1. Supplied(current)' <=> Supplied(p)'
  BY DEF Supplied, PagesAhead, WithinScript, RoomForEmpty, PageOf, Entry
<1>2. Progress(current)' = Progress(p)'
  BY DEF Progress, PageOf, Entry
<1>3. \A b : Recent(current, b)' <=> Recent(p, b)'
  BY DEF Recent, PageOf, Entry
<1> QED
  BY <1>1, <1>2, <1>3

\* What is said of a process depends on the memory only.
LEMMA SameMemory ==
  ASSUME UNCHANGED <<store, scripts, length, page_table>>, NEW p
  PROVE  /\ Supplied(p)' <=> Supplied(p)
         /\ Progress(p)' = Progress(p)
         /\ UNCHANGED rank => \A b : Recent(p, b)' <=> Recent(p, b)
<1>1. Supplied(p)' <=> Supplied(p)
  BY DEF Supplied, PagesAhead, WithinScript, RoomForEmpty, PageOf, Entry,
         FreeFrames
<1>2. Progress(p)' = Progress(p)
  BY DEF Progress, PageOf, Entry
<1>3. UNCHANGED rank => \A b : Recent(p, b)' <=> Recent(p, b)
  BY DEF Recent, PageOf, Entry
<1> QED
  BY <1>1, <1>2, <1>3

\* Progress is the program counter, up to the end of the preloaded pages.
LEMMA ProgressRange ==
  ASSUME TypeOK, NEW p \in PCBs
  PROVE  /\ length[p.script] \in Nat /\ p.pc \in Nat
         /\ Progress(p) \in 0 .. EARLY
         /\ length[p.script] > 0 /\ p.pc >= EARLY => Progress(p) = EARLY
         /\ length[p.script] > 0 /\ p.pc < EARLY => Progress(p) = p.pc
<1>1. length[p.script] \in Nat /\ p.pc \in Nat
  BY DEF TypeOK, PCBs
<1> QED
  BY <1>1 DEF Progress, EARLY, FRAME_SIZE

\* A page among the a most recently used is among the b, for b >= a.
LEMMA RecentWeaker ==
  ASSUME TypeOK', NEW p \in PCBs, NEW a \in Int, NEW b \in Int, a <= b,
         p.pc < FRAME_SIZE * MAX_PAGE_TABLE_SIZE, Recent(p, a)'
  PROVE  Recent(p, b)'
<1>1. PageOf(p) \in PageNumbers /\ PageOf(p)' = PageOf(p)
  BY PageInTable DEF PCBs, PageOf
<1>2. Entry(p)' # Invalid => Entry(p)' \in Frames
  BY <1>1 DEF TypeOK, Entry, PCBs
<1>3. Entry(p)' # Invalid => rank'[Entry(p)'] \in Int
  BY <1>2, NumFramesAssumption DEF TypeOK, Rankings, Ranks
<1> QED
  BY <1>3 DEF Recent

\* The ready queue after a requeue.
LEMMA PutBehind ==
  ASSUME NEW q \in Seq(PCBs), NEW p \in PCBs
  PROVE  /\ Len(q) \in Nat /\ Len(Append(q, p)) = Len(q) + 1
         /\ \A i \in 1 .. Len(q) : Append(q, p)[i] = q[i]
         /\ Append(q, p)[Len(q) + 1] = p
         /\ \A i \in 1 .. Len(q) + 1 : i \in 1 .. Len(q) \/ i = Len(q) + 1
OBVIOUS

\* The ready queue after a pop.
LEMMA TakeFirst ==
  ASSUME NEW q \in Seq(PCBs), q # <<>>
  PROVE  /\ Len(q) \in Nat /\ Len(q) > 0 /\ 1 \in 1 .. Len(q)
         /\ Head(q) = q[1] /\ Len(Tail(q)) = Len(q) - 1
         /\ \A i \in 1 .. Len(q) - 1 : Tail(q)[i] = q[i + 1] /\ i + 1 \in 1 .. Len(q)
OBVIOUS

\* A process keeps its pages when none of their frames is reused.
LEMMA OthersSupplied ==
  ASSUME NEW p \in PCBs, Supplied(p),
         scripts \subseteq scripts', length'[p.script] = length[p.script],
         page_table'[p.script] = page_table[p.script],
         \A n \in PageNumbers :
           n >= PageOf(p) /\ page_table[p.script][n] # Invalid /\ length[p.script] > 0 =>
             store'[page_table[p.script][n]] = store[page_table[p.script][n]],
         RoomForEmpty(p)'
  PROVE  Supplied(p)' /\ Progress(p)' = Progress(p)
<1>1. p.script \in scripts' /\ WithinScript(p)'
  BY DEF Supplied, WithinScript
<1>2. PagesAhead(p)'
  <2> SUFFICES ASSUME length'[p.script] > 0, NEW n \in PageNumbers, n >= PageOf(p)
               PROVE  IF page_table'[p.script][n] = Invalid
                        THEN n >= 2 \/ n * FRAME_SIZE >= length'[p.script]
                        ELSE /\ n <= 1 \/ n = PageOf(p)
                             /\ store'[page_table'[p.script][n]] = Page(p.script, n * FRAME_SIZE)
    BY DEF PagesAhead, PageOf, Page
  <2> QED
    BY DEF Supplied, PagesAhead
<1>3. Progress(p)' = Progress(p)
  BY DEF Progress, Entry, PageOf
<1> QED
  BY <1>1, <1>2, <1>3 DEF Supplied

\* The free frames can be counted.
LEMMA FreeFramesFinite ==
  ASSUME NEW st
  PROVE  /\ FreeFrames(st) \subseteq Frames /\ IsFiniteSet(FreeFrames(st))
         /\ Cardinality(FreeFrames(st)) \in Nat
         /\ Cardinality(FreeFrames(st)) > 0 <=> FreeFrames(st) # {}
<1>1. IsFiniteSet(Frames)
  BY NumFramesAssumption, FS_Interval DEF Frames
<1>2. FreeFrames(st) \subseteq Frames
  BY DEF FreeFrames
<1>3. IsFiniteSet(FreeFrames(st))
  BY <1>1, <1>2, FS_Subset
<1>4. Cardinality(FreeFrames(st)) \in Nat
  BY <1>3, FS_CardinalityType
<1>5. Cardinality(FreeFrames(st)) = 0 <=> FreeFrames(st) = {}
  BY <1>3, FS_EmptySet
<1> QED
  BY <1>2, <1>3, <1>4, <1>5

\* The command is read while nothing is loaded.
LEMMA AcceptFirst ==
  ASSUME IInv, IInv', FirstCommandFits, FirstCommand, NEW c \in Commands, Accept(c)
  PROVE  FirstCommand'
<1> SUFFICES ASSUME read' <= 1 PROVE FirstCommand'
  BY DEF FirstCommand
<1>1. /\ read \in Nat /\ read' = read + 1 /\ status = "prompt" /\ status' = "loading"
      /\ todo' = c.progs /\ Accepted(c)
      /\ policy' = IF c.name = "run" THEN "run" ELSE c.policy
      /\ UNCHANGED <<queue, current, store, scripts, length, lines, cwd>>
  BY DEF Accept, IInv, TypeOK, process, memory, disk
<1>2. read = 0 /\ Untouched
  BY <1>1 DEF FirstCommand
<1>3. /\ c.progs \in Seq(Scripts) /\ Len(c.progs) \in Nat
      /\ Len(c.progs) <= MAX_SCRIPTS /\ 2 * Len(c.progs) <= NumFrames
      /\ \A i, j \in 1 .. Len(c.progs) : c.progs[i] = c.progs[j] => i = j
      /\ Len(c.progs) <= 1 \/ (c.name # "run" /\ c.policy = "RR")
      /\ c.name = "run" \/ c.policy \in {"RR", "RR30"}
  BY <1>1, SessionAssumption DEF FirstCommandFits
<1>4. DiskAsWritten'
  BY <1>1, <1>2 DEF Untouched, DiskAsWritten
<1>5. LiveProcesses'
  <2>1. Len(c.progs) <= K
    BY <1>3, Halves, NumFramesAssumption DEF K
  <2>2. Len(c.progs) <= 1 \/ policy' = "RR"
    BY <1>1, <1>3
  <2>3. queue' = <<>> /\ current' = NoProcess /\ Len(queue') = 0 /\ InHand' = 0
    BY <1>1, <1>2 DEF Untouched, InHand
  <2> QED
    BY <1>1, <1>3, <2>1, <2>2, <2>3 DEF LiveProcesses
<1>6. Loading'
  <2>1. current' = NoProcess /\ queue' = <<>> /\ scripts' = {}
    BY <1>1, <1>2 DEF Untouched
  <2>2. FreeFrames(store') = 0 .. NumFrames - 1
    BY <1>1, <1>2 DEF Untouched, FreeFrames, Frames
  <2>3. Cardinality(FreeFrames(store')) = NumFrames
    BY <2>2, FS_Interval, NumFramesAssumption
  <2>4. IsFiniteSet(scripts') /\ Cardinality(scripts') = 0
    BY <2>1, FS_EmptySet
  <2>5. policy' \in {"run", "RR", "RR30"}
    BY <1>1, <1>3
  <2> QED
    BY <1>1, <1>3, <2>1, <2>3, <2>4, <2>5, NumFramesAssumption DEF Loading, MAX_SCRIPTS
<1> QED
  BY <1>1, <1>2, <1>4, <1>5, <1>6 DEF FirstCommand

\* todo after a program was taken from it.
LEMMA TodoTail ==
  ASSUME NEW q \in Seq(Scripts), q # <<>>
  PROVE  /\ Len(q) \in Nat /\ Len(q) > 0 /\ Head(q) = q[1] /\ Len(Tail(q)) = Len(q) - 1
         /\ \A i \in 1 .. Len(Tail(q)) : Tail(q)[i] = q[i + 1] /\ i + 1 \in 1 .. Len(q)
                                         /\ i + 1 # 1
OBVIOUS

\* A program that is not found takes no frame.
LEMMA NotFoundFirst ==
  ASSUME IInv, IInv', FirstCommand, read <= 1, NEW s \in Scripts, FileNotFound(s)
  PROVE  FirstCommand'
<1>1. /\ status = "loading" /\ todo # <<>> /\ todo' = Tail(todo) /\ todo \in Seq(Scripts)
      /\ UNCHANGED <<queue, current, store, scripts, length, page_table, rank, lines,
                     cwd, status, policy, read>>
  BY DEF FileNotFound, Creating, process, memory, disk, IInv, TypeOK
<1>2. read = 1 /\ DiskAsWritten /\ LiveProcesses /\ Loading
  BY <1>1 DEF FirstCommand
<1>3. /\ Len(todo) \in Nat /\ Len(todo') = Len(todo) - 1
      /\ \A i \in 1 .. Len(todo') : /\ todo'[i] = todo[i + 1] /\ i + 1 \in 1 .. Len(todo)
                                    /\ i \in Int
  BY <1>1, TodoTail
<1>4. DiskAsWritten'
  BY <1>1, <1>2 DEF DiskAsWritten
<1>5. \A p : Supplied(p)' <=> Supplied(p)
  BY <1>1, SameMemory
<1>6. LiveProcesses'
  <2>1. /\ \A i \in 1 .. Len(queue) : Supplied(queue[i])'
        /\ current' = NoProcess
    BY <1>1, <1>2, <1>5, AtPlace DEF LiveProcesses, Loading
  <2>2. Len(queue) \in Nat /\ InHand \in Nat /\ InHand' = InHand /\ K \in Nat
    BY <1>1, Halves DEF IInv, TypeOK, InHand
  <2> QED
    BY <1>1, <1>2, <1>3, <2>1, <2>2 DEF LiveProcesses
<1>7. Loading'
  <2>1. \A i \in 1 .. Len(queue) : queue'[i].pc = 0 /\ Progress(queue[i])' = 0
    BY <1>1, <1>2, AtPlace, SameMemory DEF Loading
  <2>2. /\ \A i, j \in 1 .. Len(todo') : todo'[i] = todo'[j] => i = j
        /\ \A i \in 1 .. Len(todo') : todo'[i] \notin scripts'
    BY <1>1, <1>2, <1>3 DEF Loading
  <2>3. Cardinality(FreeFrames(store)) \in Nat
    BY FreeFramesFinite
  <2>4. Cardinality(scripts) \in Nat
    BY <1>2, FS_CardinalityType DEF Loading
  <2> QED
    BY <1>1, <1>2, <1>3, <2>1, <2>2, <2>3, <2>4 DEF Loading, MAX_SCRIPTS, FreeFrames
<1> QED
  BY <1>1, <1>2, <1>4, <1>6, <1>7 DEF FirstCommand

\* create_process_PCB finds two frames and a place for the script.
LEMMA CreateFits ==
  ASSUME IInv, FirstCommand, read <= 1, NEW s \in Scripts, Creating(s),
         FileLines(s) # NoFile
  PROVE  /\ PreloadFits(s) /\ s \notin scripts
         /\ FileLines(s) \in Nat
<1>1. /\ status = "loading" /\ todo # <<>> /\ s = Head(todo) /\ todo \in Seq(Scripts)
  BY DEF Creating, IInv, TypeOK
<1>2. Loading
  BY <1>1 DEF FirstCommand
<1>3. Len(todo) \in Nat /\ Len(todo) > 0 /\ 1 \in 1 .. Len(todo) /\ s = todo[1]
  BY <1>1, TodoTail
<1>4. s \notin scripts
  BY <1>2, <1>3 DEF Loading
<1>5. Cardinality(scripts) < MAX_SCRIPTS
  BY <1>2, <1>3, FS_CardinalityType DEF Loading, MAX_SCRIPTS
<1>6. FileLines(s) \in Nat
  BY DEF IInv, TypeOK, FileLines
<1>7. Cardinality(FreeFrames(store)) > 1 /\ FreeFrames(store) # {}
  BY <1>2, <1>3, FreeFramesFinite DEF Loading
<1>8. PreloadFrame0 # -1
  BY <1>7, FreeFrameFound DEF PreloadFrame0
<1>9. ASSUME HasPage(s, 1) PROVE PreloadFrame1(s) # -1
  <2> DEFINE first == [store EXCEPT ![PreloadFrame0] = Page(s, 0)]
  <2>0. store \in [Frames -> Pages \cup {Empty}]
    BY DEF IInv, TypeOK
  <2>1. FreeFrames(store) \ {PreloadFrame0} \subseteq FreeFrames(first)
    BY <2>0 DEF FreeFrames
  <2>2. FreeFrames(store) \ {PreloadFrame0} # {}
    <3> DEFINE free == FreeFrames(store)
    <3>0. IsFiniteSet(free) /\ Cardinality(free) \in Nat
      BY FreeFramesFinite
    <3> HIDE DEF free
    <3>1. Cardinality(free \ {PreloadFrame0}) = IF PreloadFrame0 \in free
            THEN Cardinality(free) - 1 ELSE Cardinality(free)
      BY <3>0, FS_RemoveElement
    <3>2. Cardinality(free \ {PreloadFrame0}) # 0
      BY <1>7, <3>0, <3>1 DEF free
    <3> QED
      BY <3>2, FS_EmptySet DEF free
  <2>3. FreeFrames(first) # {}
    BY <2>1, <2>2
  <2> QED
    BY <2>3, FreeFrameFound DEF PreloadFrame1
<1> QED
  BY <1>4, <1>5, <1>6, <1>8, <1>9 DEF PreloadFits, FramesSuffice

\* What create_process_PCB does, in terms of the two frames it found.
LEMMA PreloadEffect ==
  ASSUME IInv, FirstCommand, read <= 1, NEW s \in Scripts, CreateFromFile(s)
  PROVE  LET f0 == PreloadFrame0
             f1 == PreloadFrame1(s)
             n  == FileLines(s)
         IN  /\ n \in Nat
             /\ n > 0 => f0 \in Frames /\ store[f0] = Empty /\ store'[f0] = Page(s, 0)
             /\ n > 3 => /\ f1 \in Frames /\ store[f1] = Empty /\ f1 # f0
                         /\ store'[f1] = Page(s, 3)
             /\ \A f \in Frames : /\ store[f] # Empty => store'[f] = store[f]
                                  /\ (n = 0 \/ f # f0) /\ (n <= 3 \/ f # f1) =>
                                       store'[f] = store[f]
             /\ \A t \in Scripts \ {s} : /\ page_table'[t] = page_table[t]
                                         /\ length'[t] = length[t]
             /\ length'[s] = n
             /\ \A p \in PageNumbers :
                  page_table'[s][p] = IF p = 0 /\ n > 0 THEN f0
                                      ELSE IF p = 1 /\ n > 3 THEN f1 ELSE Invalid
<1> DEFINE f0 == PreloadFrame0
           f1 == PreloadFrame1(s)
           n  == FileLines(s)
           first == [store EXCEPT ![f0] = Page(s, 0)]
<1>1. TypeOK /\ Creating(s) /\ n # NoFile
  BY DEF IInv, CreateFromFile
<1>2. PreloadFits(s) /\ n \in Nat
  BY <1>1, CreateFits
<1>3. (HasPage(s, 0) <=> n > 0) /\ (HasPage(s, 1) <=> n > 3)
  BY <1>2 DEF HasPage, FRAME_SIZE
<1>4. n > 0 => f0 \in Frames /\ store[f0] = Empty
  BY <1>2, <1>3, FreeFrameFound DEF PreloadFits, FramesSuffice, PreloadFrame0, FreeFrames
<1>5. n > 3 => f1 \in Frames /\ first[f1] = Empty
  BY <1>2, <1>3, FreeFrameFound DEF PreloadFits, FramesSuffice, PreloadFrame1, FreeFrames
<1>6. Page(s, 0) # Empty
  BY EmptyIsNoPage DEF Page, Pages
<1>7. n > 3 => f1 # f0 /\ store[f1] = Empty
  <2>1. store \in [Frames -> Pages \cup {Empty}]
    BY <1>1 DEF TypeOK
  <2> QED
    BY <1>2, <1>4, <1>5, <1>6, <2>1
<1> HIDE DEF first
<1>8. \A f \in Frames :
        store'[f] = IF n > 0 /\ f = f0 THEN Page(s, 0)
                    ELSE IF n > 3 /\ f = f1 THEN Page(s, 3)
                    ELSE store[f]
  BY <1>3 DEF CreateFromFile, FRAME_SIZE
<1>9. /\ \A t \in Scripts \ {s} : page_table'[t] = page_table[t] /\ length'[t] = length[t]
      /\ length'[s] = n
  BY <1>1 DEF CreateFromFile, TypeOK
<1>10. page_table'[s] =
         [p \in PageNumbers |-> IF Preloaded(s, p) THEN PreloadedFrame(s, p) ELSE Invalid]
  BY <1>1 DEF CreateFromFile, TypeOK
<1>11. \A p \in PageNumbers :
         page_table'[s][p] = IF p = 0 /\ n > 0 THEN f0
                             ELSE IF p = 1 /\ n > 3 THEN f1 ELSE Invalid
  BY <1>3, <1>10 DEF Preloaded, PreloadedFrame
<1> HIDE DEF f0, f1, n
<1>12. \A f \in Frames : /\ store[f] # Empty => store'[f] = store[f]
                         /\ (n = 0 \/ f # f0) /\ (n <= 3 \/ f # f1) => store'[f] = store[f]
  BY <1>2, <1>4, <1>7, <1>8
<1>13. n > 0 => store'[f0] = Page(s, 0)
  BY <1>4, <1>8
<1>14. n > 3 => store'[f1] = Page(s, 3)
  BY <1>5, <1>7, <1>8
<1> QED
  BY <1>2, <1>4, <1>5, <1>7, <1>9, <1>11, <1>12, <1>13, <1>14 DEF f0, f1, n

\* Preloading leaves the frames that those still to be created need.
LEMMA FramesLeft ==
  ASSUME IInv, IInv', FirstCommand, read <= 1, NEW s \in Scripts, CreateFromFile(s)
  PROVE  /\ Cardinality(FreeFrames(store')) >= 2 * Len(todo')
         /\ (\E t \in scripts' : length'[t] = 0) =>
              Cardinality(FreeFrames(store')) > 2 * Len(todo')
<1> DEFINE free == FreeFrames(store)
           f0 == PreloadFrame0
           f1 == PreloadFrame1(s)
           n  == FileLines(s)
           left == (free \ {f0}) \ {f1}
<1>1. Loading /\ todo # <<>> /\ todo \in Seq(Scripts) /\ todo' = Tail(todo)
  BY DEF FirstCommand, CreateFromFile, Creating, IInv, TypeOK
<1>2. Len(todo') = Len(todo) - 1 /\ Len(todo) \in Nat
  BY <1>1, TodoTail
<1>3. /\ IsFiniteSet(free) /\ Cardinality(free) \in Nat
      /\ Cardinality(FreeFrames(store')) \in Nat /\ IsFiniteSet(FreeFrames(store'))
  BY FreeFramesFinite
<1>4. /\ IsFiniteSet(free \ {f0}) /\ Cardinality(free \ {f0}) >= Cardinality(free) - 1
      /\ Cardinality(free \ {f0}) \in Nat
  <2>1. /\ IsFiniteSet(free \ {f0})
        /\ Cardinality(free \ {f0}) = IF f0 \in free THEN Cardinality(free) - 1
                                       ELSE Cardinality(free)
    BY <1>3, FS_RemoveElement
  <2>2. Cardinality(free \ {f0}) \in Nat
    BY <2>1, FS_CardinalityType
  <2> QED
    BY <1>3, <2>1, <2>2
<1>5. Cardinality(left) >= Cardinality(free) - 2 /\ IsFiniteSet(left) /\ Cardinality(left) \in Nat
  <2>1. /\ IsFiniteSet(left)
        /\ Cardinality(left) = IF f1 \in free \ {f0} THEN Cardinality(free \ {f0}) - 1
                               ELSE Cardinality(free \ {f0})
    BY <1>4, FS_RemoveElement
  <2> QED
    BY <1>3, <1>4, <2>1, FS_CardinalityType
<1>6. left \subseteq FreeFrames(store')
  BY PreloadEffect DEF FreeFrames
<1>7. Cardinality(FreeFrames(store')) >= Cardinality(left)
  BY <1>3, <1>6, FS_Subset
<1>8. n = 0 => free \subseteq FreeFrames(store')
  BY PreloadEffect DEF FreeFrames
<1>9. n = 0 => Cardinality(FreeFrames(store')) >= Cardinality(free)
  BY <1>3, <1>8, FS_Subset
<1>10. n \in Nat /\ length'[s] = n /\ scripts' = scripts \cup {s}
       /\ \A t \in Scripts \ {s} : length'[t] = length[t]
  BY PreloadEffect DEF CreateFromFile
<1> HIDE DEF free, left, n
<1>11. Cardinality(free) >= 2 * Len(todo)
       /\ ((\E t \in scripts : length[t] = 0) => Cardinality(free) > 2 * Len(todo))
  BY <1>1 DEF Loading, free
<1>12. Cardinality(FreeFrames(store')) >= 2 * Len(todo')
  BY <1>2, <1>3, <1>5, <1>7, <1>11
<1>13. ASSUME NEW t \in scripts', length'[t] = 0
       PROVE  Cardinality(FreeFrames(store')) > 2 * Len(todo')
  <2>1. CASE t = s
    BY <1>2, <1>3, <1>9, <1>10, <1>11, <1>13, <2>1
  <2>2. CASE t # s
    <3>1. t \in scripts /\ t \in Scripts
      BY <1>10, <2>2 DEF IInv, TypeOK
    <3>2. length[t] = 0
      BY <1>10, <1>13, <2>2, <3>1
    <3> QED
      BY <1>2, <1>3, <1>5, <1>7, <1>11, <3>1, <3>2
  <2> QED
    BY <2>1, <2>2
<1> QED
  BY <1>12, <1>13

\* Creating a process leaves the others theirs.
LEMMA CreateOthers ==
  ASSUME IInv, IInv', FirstCommand, read <= 1, NEW s \in Scripts, CreateFromFile(s),
         NEW p \in PCBs, Supplied(p)
  PROVE  Supplied(p)' /\ Progress(p)' = Progress(p) /\ p.script # s
<1>1. s \notin scripts
  BY DEF CreateFromFile
<1>2. p.script \in scripts /\ p.script \in Scripts \ {s}
  BY <1>1 DEF Supplied, PCBs
<1>3. page_table'[p.script] = page_table[p.script] /\ length'[p.script] = length[p.script]
  BY <1>2, PreloadEffect
<1>4. ASSUME NEW n \in PageNumbers, n >= PageOf(p), page_table[p.script][n] # Invalid,
             length[p.script] > 0
      PROVE  store'[page_table[p.script][n]] = store[page_table[p.script][n]]
  <2>1. page_table[p.script][n] \in Frames
    BY <1>2, <1>4 DEF IInv, TypeOK
  <2>2. store[page_table[p.script][n]] = Page(p.script, n * FRAME_SIZE)
    BY <1>4 DEF Supplied, PagesAhead
  <2>3. store[page_table[p.script][n]] # Empty
    BY <1>2, <2>2, EmptyIsNoPage DEF Page, Pages, PageNumbers, FRAME_SIZE
  <2> QED
    BY <2>1, <2>3, PreloadEffect
<1>5. RoomForEmpty(p)'
  <2>1. SUFFICES ASSUME length'[p.script] = 0 PROVE FreeFrames(store') # {}
    BY DEF RoomForEmpty, FreeFrames
  <2>2. p.script \in scripts'
    BY <1>2 DEF CreateFromFile
  <2>3. todo' \in Seq(Scripts) /\ Len(todo') \in Nat
    BY DEF IInv, TypeOK
  <2>4. Cardinality(FreeFrames(store')) > 2 * Len(todo')
    BY <2>1, <2>2, FramesLeft
  <2>5. Cardinality(FreeFrames(store')) > 0
    BY <2>3, <2>4, FreeFramesFinite
  <2> QED
    BY <2>5, FreeFramesFinite
<1>6. scripts \subseteq scripts'
  BY DEF CreateFromFile
<1> QED
  BY <1>2, <1>3, <1>4, <1>5, <1>6, OthersSupplied

\* The new process finds its first two pages.
LEMMA CreateNew ==
  ASSUME IInv, IInv', FirstCommand, read <= 1, NEW s \in Scripts, CreateFromFile(s),
         NEW p \in PCBs, p = NewPCB(s)
  PROVE  Supplied(p)' /\ Progress(p)' = 0 /\ p.pc = 0 /\ p.script = s
<1> DEFINE n == FileLines(s)
<1>1. p.pc = 0 /\ p.script = s
  BY DEF NewPCB
<1>2. PageOf(p) = 0 /\ 0 \in PageNumbers
  BY <1>1, SessionAssumption DEF PageOf, FRAME_SIZE, PageNumbers
<1>3. n \in Nat /\ length'[s] = n
  BY PreloadEffect
<1>4. \A m \in PageNumbers :
        page_table'[s][m] = IF m = 0 /\ n > 0 THEN PreloadFrame0
                            ELSE IF m = 1 /\ n > 3 THEN PreloadFrame1(s) ELSE Invalid
  BY PreloadEffect
<1>5. /\ n > 0 => store'[PreloadFrame0] = Page(s, 0)
      /\ n > 3 => store'[PreloadFrame1(s)] = Page(s, 3)
  BY PreloadEffect
<1> HIDE DEF n
<1>6. PagesAhead(p)'
  <2> SUFFICES ASSUME length'[s] > 0, NEW m \in PageNumbers
               PROVE  IF page_table'[s][m] = Invalid
                        THEN m >= 2 \/ m * FRAME_SIZE >= length'[s]
                        ELSE /\ m <= 1 \/ m = 0
                             /\ store'[page_table'[s][m]] = Page(s, m * FRAME_SIZE)
    BY <1>1, <1>2 DEF PagesAhead, PageOf, Page
  <2>1. CASE m = 0
    <3>1. page_table'[s][m] = PreloadFrame0
      BY <1>3, <1>4, <2>1
    <3>2. PreloadFrame0 # Invalid
      BY <1>3, PreloadEffect, NumFramesAssumption DEF Frames, Invalid, n
    <3> QED
      BY <1>3, <1>5, <2>1, <3>1, <3>2 DEF FRAME_SIZE
  <2>2. CASE m = 1 /\ n > 3
    <3>1. page_table'[s][m] = PreloadFrame1(s)
      BY <1>4, <2>2
    <3>2. PreloadFrame1(s) # Invalid
      BY <2>2, PreloadEffect, NumFramesAssumption DEF Frames, Invalid, n
    <3> QED
      BY <1>5, <2>2, <3>1, <3>2 DEF FRAME_SIZE
  <2>3. CASE m # 0 /\ ~(m = 1 /\ n > 3)
    BY <1>3, <1>4, <2>3 DEF FRAME_SIZE, PageNumbers
  <2> QED
    BY <2>1, <2>2, <2>3
<1>7. WithinScript(p)'
  BY <1>1, <1>3 DEF WithinScript
<1>8. RoomForEmpty(p)'
  <2>1. SUFFICES ASSUME length'[s] = 0 PROVE FreeFrames(store') # {}
    BY <1>1 DEF RoomForEmpty, FreeFrames
  <2>2. s \in scripts'
    BY DEF CreateFromFile
  <2>3. todo' \in Seq(Scripts) /\ Len(todo') \in Nat
    BY DEF IInv, TypeOK
  <2>4. Cardinality(FreeFrames(store')) > 2 * Len(todo')
    BY <2>1, <2>2, FramesLeft
  <2>5. Cardinality(FreeFrames(store')) > 0
    BY <2>3, <2>4, FreeFramesFinite
  <2> QED
    BY <2>5, FreeFramesFinite
<1>9. Progress(p)' = 0
  <2>1. CASE length'[s] = 0
    <3>1. page_table'[s][0] = Invalid
      BY <1>2, <1>3, <1>4, <2>1
    <3> QED
      BY <1>1, <1>2, <2>1, <3>1 DEF Progress, Entry, PageOf
  <2>2. CASE length'[s] # 0
    BY <1>1, <2>2 DEF Progress, EARLY, FRAME_SIZE
  <2> QED
    BY <2>1, <2>2
<1>10. p.script \in scripts'
  BY <1>1 DEF CreateFromFile
<1> QED
  BY <1>1, <1>6, <1>7, <1>8, <1>9, <1>10 DEF Supplied

\* A process is created, with its two pages, behind the others.
LEMMA CreateFirst ==
  ASSUME IInv, IInv', FirstCommand, read <= 1, NEW s \in Scripts, CreateFromFile(s)
  PROVE  FirstCommand'
<1>4. PICK new \in PCBs : new = NewPCB(s)
  BY DEF NewPCB, PCBs, IInv, TypeOK
<1>1. /\ status = "loading" /\ todo # <<>> /\ s = Head(todo) /\ todo' = Tail(todo)
      /\ todo \in Seq(Scripts) /\ queue \in Seq(PCBs)
      /\ queue' = Append(queue, new) /\ scripts' = scripts \cup {s}
      /\ UNCHANGED <<current, lines, cwd, status, policy, read>>
  BY <1>4 DEF CreateFromFile, Creating, disk, IInv, TypeOK
<1>2. read = 1 /\ DiskAsWritten /\ LiveProcesses /\ Loading
  BY <1>1 DEF FirstCommand
<1>3. /\ Len(todo) \in Nat /\ Len(todo') = Len(todo) - 1 /\ s = todo[1]
      /\ 1 \in 1 .. Len(todo)
      /\ \A i \in 1 .. Len(todo') : /\ todo'[i] = todo[i + 1] /\ i + 1 \in 1 .. Len(todo)
                                    /\ i \in Int /\ i + 1 # 1
  BY <1>1, TodoTail
<1>5. /\ Len(queue) \in Nat /\ Len(queue') = Len(queue) + 1
      /\ \A i \in 1 .. Len(queue) : queue'[i] = queue[i] /\ queue[i] \in PCBs
      /\ queue'[Len(queue) + 1] = new
      /\ \A i \in 1 .. Len(queue') : i \in 1 .. Len(queue) \/ i = Len(queue) + 1
  BY <1>1, <1>4, PutBehind
<1>6. DiskAsWritten'
  <2>1. length'[s] = lines[Home][s]
    BY <1>2, PreloadEffect DEF DiskAsWritten, FileLines
  <2>2. \A t \in scripts : t \in Scripts \ {s}
    BY DEF CreateFromFile, IInv, TypeOK
  <2>3. \A t \in scripts : length'[t] = length[t]
    BY <2>2, PreloadEffect
  <2> QED
    BY <1>1, <1>2, <2>1, <2>3 DEF DiskAsWritten
<1>7. \A i \in 1 .. Len(queue) :
        /\ Supplied(queue[i])' /\ Progress(queue[i])' = 0
        /\ queue'[i].pc = 0 /\ queue'[i].script # s
  <2> SUFFICES ASSUME NEW i \in 1 .. Len(queue)
               PROVE  /\ Supplied(queue[i])' /\ Progress(queue[i])' = 0
                      /\ queue'[i].pc = 0 /\ queue'[i].script # s
    OBVIOUS
  <2>1. PICK p \in PCBs : p = queue[i] /\ queue'[i] = p
    BY <1>5
  <2>2. Supplied(p) /\ p.pc = 0 /\ Progress(p) = 0
    BY <1>2, <2>1 DEF LiveProcesses, Loading
  <2>3. Supplied(p)' /\ Progress(p)' = 0 /\ p.script # s
    BY <2>2, CreateOthers
  <2> QED
    BY <2>1, <2>2, <2>3, AtPlace
<1>8. \A i \in 1 .. Len(queue') : i = Len(queue) + 1 =>
        /\ Supplied(queue[i])' /\ Progress(queue[i])' = 0
        /\ queue'[i].pc = 0 /\ queue'[i].script = s
  <2>1. Supplied(new)' /\ Progress(new)' = 0 /\ new.pc = 0 /\ new.script = s
    BY <1>4, CreateNew
  <2> QED
    BY <1>5, <2>1, AtPlace
<1>9. LiveProcesses'
  <2>1. \A i \in 1 .. Len(queue') : Supplied(queue[i])'
    BY <1>5, <1>7, <1>8
  <2>2. \A i, j \in 1 .. Len(queue') : queue'[i].script = queue'[j].script => i = j
    BY <1>2, <1>5, <1>7, <1>8 DEF LiveProcesses
  <2>3. current' = NoProcess /\ InHand' = 0 /\ InHand = 0
    BY <1>1, <1>2 DEF Loading, InHand
  <2>4. Len(queue') + Len(todo') = Len(queue) + Len(todo)
    BY <1>3, <1>5
  <2>5. Len(queue) + Len(todo) <= K /\ (Len(queue) + Len(todo) <= 1 \/ policy = "RR")
    BY <1>2, <1>3, <1>5, <2>3 DEF LiveProcesses
  <2>6. K' = K
    BY DEF K
  <2>7. /\ Len(queue') + InHand' + Len(todo') <= K'
        /\ Len(queue') + InHand' + Len(todo') <= 1 \/ policy' = "RR"
    BY <1>1, <1>3, <1>5, <2>3, <2>4, <2>5, <2>6
  <2> QED
    BY <2>1, <2>2, <2>3, <2>7 DEF LiveProcesses
<1>10. Loading'
  <2>1. \A i \in 1 .. Len(queue') : queue'[i].pc = 0 /\ Progress(queue[i])' = 0
    BY <1>5, <1>7, <1>8
  <2>2. /\ \A i, j \in 1 .. Len(todo') : todo'[i] = todo'[j] => i = j
        /\ \A i \in 1 .. Len(todo') : todo'[i] \notin scripts'
    BY <1>1, <1>2, <1>3 DEF Loading
  <2>3. IsFiniteSet(scripts') /\ Cardinality(scripts') = Cardinality(scripts) + 1
        /\ Cardinality(scripts) \in Nat
    <3>1. IsFiniteSet(scripts) /\ s \notin scripts
      BY <1>2 DEF Loading, CreateFromFile
    <3> QED
      BY <1>1, <3>1, FS_AddElement, FS_CardinalityType
  <2>4. Cardinality(scripts') + Len(todo') <= MAX_SCRIPTS
    BY <1>2, <1>3, <2>3 DEF Loading, MAX_SCRIPTS
  <2>5. /\ current' = NoProcess /\ policy' \in {"run", "RR", "RR30"}
    BY <1>1, <1>2 DEF Loading
  <2>6. /\ Cardinality(FreeFrames(store')) >= 2 * Len(todo')
        /\ (\E t \in scripts' : length'[t] = 0) =>
             Cardinality(FreeFrames(store')) > 2 * Len(todo')
    BY FramesLeft
  <2> QED
    BY <2>1, <2>2, <2>3, <2>4, <2>5, <2>6 DEF Loading, MAX_SCRIPTS, FreeFrames
<1> QED
  BY <1>1, <1>2, <1>6, <1>9, <1>10 DEF FirstCommand

\* The processes start level, none of them past its preloaded pages.
LEMMA StartFirst ==
  ASSUME IInv, IInv', FirstCommand, read <= 1, StartScheduler
  PROVE  FirstCommand'
<1>1. /\ status = "loading" /\ todo = <<>> /\ queue # <<>> /\ queue \in Seq(PCBs)
      /\ UNCHANGED <<queue, current, store, scripts, length, page_table, rank, lines,
                     cwd, policy, todo, read>>
  BY DEF StartScheduler, memory, disk, IInv, TypeOK
<1>2. read = 1 /\ DiskAsWritten /\ LiveProcesses /\ Loading
  BY <1>1 DEF FirstCommand
<1>3. status' = "running" /\ slice' = SliceSize
  BY <1>2 DEF StartScheduler, Loading
<1>4. /\ \A p : Supplied(p)' <=> Supplied(p)
      /\ \A p : Progress(p)' = Progress(p)
  BY <1>1, SameMemory
<1>5. DiskAsWritten'
  BY <1>1, <1>2 DEF DiskAsWritten
<1>6. LiveProcesses'
  <2>1. \A i \in 1 .. Len(queue) : Supplied(queue[i])'
    BY <1>1, <1>2, <1>4, AtPlace DEF LiveProcesses
  <2>2. current' = NoProcess /\ InHand' = InHand
    BY <1>1, <1>2 DEF Loading, InHand
  <2> QED
    BY <1>1, <1>2, <2>1, <2>2 DEF LiveProcesses, K
<1>7. Executing'
  <2>0. Len(queue) \in Nat /\ Len(queue) > 0 /\ Head(queue) = queue[1] /\ InHand = 0
        /\ Len(todo) = 0
    BY <1>1, <1>2 DEF Loading, InHand
  <2>1. slice' # 2 => Len(queue') + InHand' <= 1
    <3>1. policy = "RR" => slice' = 2
      BY <1>3 DEF SliceSize
    <3>2. Len(queue) <= 1 \/ policy = "RR"
      BY <1>2, <2>0 DEF LiveProcesses
    <3>3. InHand' = 0
      BY <1>1, <2>0 DEF InHand
    <3> QED
      BY <1>1, <2>0, <3>1, <3>2, <3>3
  <2>2. slice' = 0 => \A i \in 1 .. Len(queue') : length'[queue'[i].script] = 0
    <3>1. policy = "run" \/ slice' # 0
      BY <1>2, <1>3 DEF SliceSize, Loading
    <3>2. policy = "run" => slice' = length[queue[1].script] /\ Len(queue) <= 1
      BY <1>2, <1>3, <2>0 DEF SliceSize, LiveProcesses
    <3>3. policy = "run" => \A i \in 1 .. Len(queue) : i = 1
      BY <2>0, <3>2
    <3> QED
      BY <1>1, <3>1, <3>2, <3>3
  <2>3. \A i \in 1 .. Len(queue') : queue'[i].pc = 0 /\ Progress(queue[i])' = 0
    BY <1>1, <1>2, <1>4, AtPlace DEF Loading
  <2>4. Turns'
    BY <1>1, <1>2, <2>3 DEF Turns, Recent, Loading, EARLY, FRAME_SIZE
  <2>5. Lockstep'
    BY <1>1, <1>2, <2>3 DEF Lockstep, Loading
  <2> QED
    BY <1>1, <1>2, <2>1, <2>2, <2>4, <2>5 DEF Executing, Loading
<1> QED
  BY <1>1, <1>2, <1>3, <1>5, <1>6, <1>7 DEF FirstCommand

\* A process taken from the queue starts its turn where it is.
LEMMA DispatchFirst ==
  ASSUME IInv, IInv', FirstCommand, read <= 1, Dispatch
  PROVE  FirstCommand'
<1>1. /\ status = "running" /\ current = NoProcess /\ queue # <<>> /\ queue \in Seq(PCBs)
      /\ current' = Head(queue) /\ queue' = Tail(queue) /\ counter' = 0
      /\ UNCHANGED <<slice, store, scripts, length, page_table, rank, lines,
                     cwd, status, policy, todo, read>>
  BY DEF Dispatch, memory, disk, shell, IInv, TypeOK
<1>2. read = 1 /\ DiskAsWritten /\ LiveProcesses /\ Executing
  BY <1>1 DEF FirstCommand
<1>3. /\ Len(queue) \in Nat /\ Len(queue) > 0 /\ 1 \in 1 .. Len(queue)
      /\ Head(queue) = queue[1] /\ Len(queue') = Len(queue) - 1
      /\ \A i \in 1 .. Len(queue') : queue'[i] = queue[i + 1] /\ i + 1 \in 1 .. Len(queue)
                                     /\ i \in Int /\ i + 1 # 1
  BY <1>1, TakeFirst
<1>4. PICK p \in PCBs : p = queue[1] /\ current' = p
  BY <1>1, <1>3
<1>5. /\ \A o : Supplied(o)' <=> Supplied(o)
      /\ \A o : Progress(o)' = Progress(o)
      /\ \A o, b : Recent(o, b)' <=> Recent(o, b)
  BY <1>1, SameMemory
<1>6. p # NoProcess /\ InHand = 0 /\ InHand' = 1
  BY <1>1, <1>4, EmptyIsNoPage DEF InHand
<1>7. DiskAsWritten'
  BY <1>1, <1>2 DEF DiskAsWritten
<1>8. \A i \in 1 .. Len(queue') :
        /\ Supplied(queue[i])' <=> Supplied(queue[i + 1])
        /\ Progress(queue[i])' = Progress(queue[i + 1])
        /\ \A b : Recent(queue[i], b)' <=> Recent(queue[i + 1], b)
  BY <1>3, <1>5, AtPlace
<1>9. /\ Supplied(current)' <=> Supplied(p)
      /\ Progress(current)' = Progress(p)
  BY <1>4, <1>5, AtHand
<1>10. LiveProcesses'
  <2>1. \A i \in 1 .. Len(queue') : Supplied(queue[i])'
    BY <1>2, <1>3, <1>8 DEF LiveProcesses
  <2>2. Supplied(current)'
    BY <1>2, <1>3, <1>4, <1>9 DEF LiveProcesses
  <2>3. \A i, j \in 1 .. Len(queue') : queue'[i].script = queue'[j].script => i = j
    <3> SUFFICES ASSUME NEW i \in 1 .. Len(queue'), NEW j \in 1 .. Len(queue'),
                        queue'[i].script = queue'[j].script
                 PROVE  i = j
      OBVIOUS
    <3>1. i + 1 = j + 1
      BY <1>2, <1>3 DEF LiveProcesses
    <3> QED
      BY <1>3, <3>1
  <2>4. \A i \in 1 .. Len(queue') : queue'[i].script # current'.script
    BY <1>2, <1>3, <1>4 DEF LiveProcesses
  <2>5. Len(queue') + InHand' = Len(queue) + InHand
    BY <1>3, <1>6
  <2> QED
    BY <1>1, <1>2, <2>1, <2>2, <2>3, <2>4, <2>5 DEF LiveProcesses, K
<1>11. Turns'
  <2>1. \A i \in 1 .. Len(queue') : Recent(queue[i], 2 * (K - i) - 1 + counter)'
    <3> SUFFICES ASSUME NEW i \in 1 .. Len(queue')
                 PROVE  Recent(queue[i], 2 * (K - i) - 1 + counter)'
      OBVIOUS
    <3>1. Recent(queue[i + 1], 2 * (K - (i + 1)) + 1)
      BY <1>1, <1>2, <1>3 DEF Executing, Turns
    <3>2. 2 * (K - (i + 1)) + 1 = 2 * (K - i) - 1 + counter'
      BY <1>1, <1>3, Halves
    <3>3. Recent(queue[i + 1], 2 * (K - i) - 1 + counter')
      BY <3>1, <3>2
    <3>4. \A b : Recent(queue[i], b)' <=> Recent(queue[i + 1], b)
      BY <1>8
    <3>5. Recent(queue[i], 2 * (K - i) - 1 + counter)' <=> Recent(queue[i + 1], 2 * (K - i) - 1 + counter')
      BY <1>1, <1>3 DEF Recent, Entry, PageOf, K
    <3> QED
      BY <3>3, <3>5
  <2>2. counter' <= slice' /\ counter' <= current'.pc
    BY <1>1, <1>4 DEF PCBs, IInv, TypeOK
  <2> QED
    BY <1>1, <1>4, <1>6, <2>1, <2>2 DEF Turns
<1>12. slice = 2 => Lockstep'
  <2> SUFFICES ASSUME slice = 2 PROVE Lockstep'
    OBVIOUS
  <2>1. Lockstep
    BY <1>2 DEF Executing
  <2>2. TurnStart' = Progress(p)
    <3>1. length'[p.script] = length[p.script] /\ p.pc - 0 = p.pc
      BY <1>1 DEF PCBs
    <3> QED
      BY <1>1, <1>4, <1>5, <1>9, <3>1 DEF TurnStart, Progress
  <2>3. \A i \in 1 .. Len(queue) : Progress(p) <= Progress(queue[i])
                                   /\ Progress(queue[i]) <= Progress(p) + 2
    BY <1>3, <1>4, <2>1 DEF Lockstep
  <2>4. Progress(p) \in {0, 2, 4, 6}
    BY <1>3, <1>4, <2>1 DEF Lockstep
  <2>5. \A i, j \in 1 .. Len(queue') : i <= j =>
          /\ Progress(queue[i])' <= Progress(queue[j])'
          /\ Progress(queue[j])' <= Progress(queue[i])' + 2
    <3> SUFFICES ASSUME NEW i \in 1 .. Len(queue'), NEW j \in 1 .. Len(queue'), i <= j
                 PROVE  /\ Progress(queue[i])' <= Progress(queue[j])'
                        /\ Progress(queue[j])' <= Progress(queue[i])' + 2
      OBVIOUS
    <3>1. i + 1 \in 1 .. Len(queue) /\ j + 1 \in 1 .. Len(queue) /\ i + 1 <= j + 1
      BY <1>3
    <3>2. /\ Progress(queue[i + 1]) <= Progress(queue[j + 1])
          /\ Progress(queue[j + 1]) <= Progress(queue[i + 1]) + 2
      BY <2>1, <3>1 DEF Lockstep
    <3> QED
      BY <1>8, <3>2
  <2>6. \A i \in 1 .. Len(queue') : Progress(queue[i])' \in {0, 2, 4, 6}
    <3> SUFFICES ASSUME NEW i \in 1 .. Len(queue')
                 PROVE  Progress(queue[i])' \in {0, 2, 4, 6}
      OBVIOUS
    <3>1. Progress(queue[i + 1]) \in {0, 2, 4, 6}
      BY <1>3, <2>1 DEF Lockstep
    <3> QED
      BY <1>8, <3>1
  <2>7. \A i \in 1 .. Len(queue') : /\ TurnStart' <= Progress(queue[i])'
                                     /\ Progress(queue[i])' <= TurnStart' + 2
    BY <1>3, <1>8, <2>2, <2>3
  <2>8. TurnStart' \in {0, 2, 4, 6}
    BY <2>2, <2>4
  <2> QED
    BY <2>5, <2>6, <2>7, <2>8 DEF Lockstep
<1>13. Executing'
  <2>1. Len(queue') + InHand' = Len(queue) + InHand
    BY <1>3, <1>6
  <2> QED
    BY <1>1, <1>2, <1>3, <1>4, <1>11, <1>12, <2>1 DEF Executing
<1> QED
  BY <1>1, <1>2, <1>7, <1>10, <1>13 DEF FirstCommand

\* A turn that ends with the process at the back of the queue.
LEMMA RequeueFirst ==
  ASSUME IInv, IInv', FirstCommand, read <= 1, Running, Requeue, DiskAsWritten',
         UNCHANGED <<slice, counter, length, status, todo, policy, read>>,
         NEW p \in PCBs, p = current, Supplied(p)', Recent(p, 1)',
         ASSUME NEW i \in 1 .. Len(queue), NEW o \in PCBs, o = queue[i]
         PROVE  Supplied(o)' /\ Progress(o)' = Progress(o)
                /\ Recent(o, 2 * (K - i) + 1)',
         slice = 2 =>
           /\ Progress(p)' \in {0, 2, 4, 6}
           /\ \A i \in 1 .. Len(queue) : /\ Progress(queue[i]) <= Progress(p)'
                                         /\ Progress(p)' <= Progress(queue[i]) + 2
  PROVE  FirstCommand'
<1>1. /\ status = "running" /\ queue \in Seq(PCBs) /\ p # NoProcess
      /\ queue' = Append(queue, p) /\ current' = NoProcess
  BY DEF Running, Requeue, IInv, TypeOK
<1>2. read = 1 /\ DiskAsWritten /\ LiveProcesses /\ Executing
  BY <1>1 DEF FirstCommand
<1>3. /\ Len(queue) \in Nat /\ Len(queue') = Len(queue) + 1
      /\ \A i \in 1 .. Len(queue) : queue'[i] = queue[i] /\ queue[i] \in PCBs
      /\ queue'[Len(queue) + 1] = p /\ Len(queue) + 1 \in 1 .. Len(queue')
      /\ \A i \in 1 .. Len(queue') : i \in 1 .. Len(queue) \/ i = Len(queue) + 1
  BY <1>1, PutBehind
<1>4. InHand = 1 /\ InHand' = 0 /\ Len(todo) = 0 /\ Len(todo') = 0 /\ todo' = <<>>
  BY <1>1, <1>2 DEF InHand, Executing
<1>5. \A i \in 1 .. Len(queue) :
        /\ Supplied(queue[i])' /\ Progress(queue[i])' = Progress(queue[i])
        /\ Recent(queue[i], 2 * (K - i) + 1)'
  <2> SUFFICES ASSUME NEW i \in 1 .. Len(queue)
               PROVE  /\ Supplied(queue[i])' /\ Progress(queue[i])' = Progress(queue[i])
                      /\ Recent(queue[i], 2 * (K - i) + 1)'
    OBVIOUS
  <2>1. PICK o \in PCBs : o = queue[i] /\ queue'[i] = o
    BY <1>3
  <2>2. Supplied(o)' /\ Progress(o)' = Progress(o) /\ Recent(o, 2 * (K - i) + 1)'
    BY <2>1
  <2>3. Supplied(queue[i])' /\ Progress(queue[i])' = Progress(queue[i])
    BY <2>1, <2>2, AtPlace
  <2>4. Recent(queue[i], 2 * (K - i) + 1)'
    BY <2>1, <2>2 DEF Recent, Entry, PageOf
  <2> QED
    BY <2>3, <2>4
<1>6. \A i \in 1 .. Len(queue') : i = Len(queue) + 1 =>
        /\ Supplied(queue[i])' /\ Progress(queue[i])' = Progress(p)'
  BY <1>3, AtPlace
<1>7. LiveProcesses'
  <2>1. \A i \in 1 .. Len(queue') : Supplied(queue[i])'
    BY <1>3, <1>5, <1>6
  <2>2. \A i, j \in 1 .. Len(queue') : queue'[i].script = queue'[j].script => i = j
    BY <1>1, <1>2, <1>3 DEF LiveProcesses
  <2>3. Len(queue') + InHand' = Len(queue) + InHand
    BY <1>3, <1>4
  <2> QED
    BY <1>1, <1>2, <2>1, <2>2, <2>3 DEF LiveProcesses, K
<1>8. Turns'
  <2>1. Len(queue) + 1 <= K /\ K' = K
    BY <1>2, <1>3, <1>4, Halves DEF LiveProcesses, K
  <2>2. p.pc < FRAME_SIZE * MAX_PAGE_TABLE_SIZE
    BY <1>1 DEF IInv, ProcessesOK, HealthyPCBs
  <2>3. \A i \in 1 .. Len(queue') : Recent(queue[i], 2 * (K - i) + 1)'
    <3> SUFFICES ASSUME NEW i \in 1 .. Len(queue')
                 PROVE  Recent(queue[i], 2 * (K - i) + 1)'
      OBVIOUS
    <3>1. CASE i \in 1 .. Len(queue)
      BY <1>5, <3>1
    <3>2. CASE i = Len(queue) + 1
      <4>1. 2 * (K - i) + 1 \in Int /\ 1 <= 2 * (K - i) + 1
        BY <1>3, <2>1, <3>2, Halves
      <4>2. PICK b \in Int : b = 2 * (K - i) + 1 /\ 1 <= b
        BY <4>1
      <4>3. Recent(p, b)'
        BY <2>2, <4>2, RecentWeaker DEF IInv
      <4> QED
        BY <1>3, <2>1, <3>2, <4>2, <4>3 DEF Recent, Entry, PageOf
    <3> QED
      BY <1>3, <3>1, <3>2
  <2> QED
    BY <1>1, <2>3 DEF Turns
<1>9. slice = 2 => Lockstep'
  <2> SUFFICES ASSUME slice = 2 PROVE Lockstep'
    OBVIOUS
  <2>1. Lockstep
    BY <1>2 DEF Executing
  <2>2. \A i \in 1 .. Len(queue') : Progress(queue[i])' \in {0, 2, 4, 6}
    <3> SUFFICES ASSUME NEW i \in 1 .. Len(queue')
                 PROVE  Progress(queue[i])' \in {0, 2, 4, 6}
      OBVIOUS
    <3>1. CASE i \in 1 .. Len(queue)
      BY <1>5, <2>1, <3>1 DEF Lockstep
    <3>2. CASE i = Len(queue) + 1
      BY <1>6, <3>2
    <3> QED
      BY <1>3, <3>1, <3>2
  <2>3. ASSUME NEW i \in 1 .. Len(queue'), NEW j \in 1 .. Len(queue'), i <= j
        PROVE  /\ Progress(queue[i])' <= Progress(queue[j])'
               /\ Progress(queue[j])' <= Progress(queue[i])' + 2
    <3>1. CASE j \in 1 .. Len(queue)
      <4>1. i \in 1 .. Len(queue)
        BY <1>3, <2>3, <3>1
      <4>2. /\ Progress(queue[i]) <= Progress(queue[j])
            /\ Progress(queue[j]) <= Progress(queue[i]) + 2
        BY <2>1, <2>3, <3>1, <4>1 DEF Lockstep
      <4> QED
        BY <1>5, <3>1, <4>1, <4>2
    <3>2. CASE j = Len(queue) + 1 /\ i \in 1 .. Len(queue)
      BY <1>5, <1>6, <3>2
    <3>3. CASE j = Len(queue) + 1 /\ i = Len(queue) + 1
      BY <1>6, <2>2, <3>3
    <3> QED
      BY <1>3, <3>1, <3>2, <3>3
  <2> QED
    BY <1>1, <2>2, <2>3 DEF Lockstep
<1>10. Executing'
  <2>1. slice' # 2 => Len(queue') + InHand' <= 1
    BY <1>2, <1>3, <1>4 DEF Executing
  <2>2. slice' = 0 => \A i \in 1 .. Len(queue') : length'[queue'[i].script] = 0
    BY <1>1, <1>2, <1>3 DEF Executing
  <2> QED
    BY <1>1, <1>4, <1>8, <1>9, <2>1, <2>2 DEF Executing
<1> QED
  BY <1>1, <1>2, <1>7, <1>10 DEF FirstCommand

\* What the running process may be said to be.
LEMMA InTurn ==
  ASSUME IInv, FirstCommand, read <= 1, Running, NEW p, p = current
  PROVE  /\ p \in PCBs /\ p # NoProcess /\ InHand = 1
         /\ read = 1 /\ DiskAsWritten /\ LiveProcesses /\ Executing /\ Turns
         /\ Supplied(p) /\ p.script \in Scripts /\ length[p.script] \in Nat /\ p.pc \in Nat
         /\ p.pc < FRAME_SIZE * MAX_PAGE_TABLE_SIZE
         /\ counter \in Nat /\ slice \in Nat /\ counter <= slice /\ counter <= p.pc
         /\ queue \in Seq(PCBs) /\ Len(queue) \in Nat
         /\ slice # 2 => \A i \in 1 .. Len(queue) : FALSE
<1>1. p \in PCBs /\ p # NoProcess /\ InHand = 1
  BY DEF Running, IInv, TypeOK, InHand
<1>2. read = 1 /\ DiskAsWritten /\ LiveProcesses /\ Executing /\ Turns
  BY DEF Running, FirstCommand, Executing
<1>3. Supplied(p)
  BY <1>1, <1>2 DEF LiveProcesses
<1>4. /\ p.script \in Scripts /\ length[p.script] \in Nat /\ p.pc \in Nat
      /\ counter \in Nat /\ slice \in Nat /\ queue \in Seq(PCBs) /\ Len(queue) \in Nat
  BY <1>1 DEF PCBs, IInv, TypeOK
<1>5. counter <= slice /\ counter <= p.pc
  BY <1>1, <1>2 DEF Turns
<1>6. slice # 2 => Len(queue) = 0
  BY <1>1, <1>2, <1>4 DEF Executing
<1>7. p.pc < FRAME_SIZE * MAX_PAGE_TABLE_SIZE
  BY <1>1 DEF IInv, ProcessesOK, HealthyPCBs
<1> QED
  BY <1>1, <1>2, <1>3, <1>4, <1>5, <1>6, <1>7

\* A turn that ends with the slice used up.
LEMMA SliceExpiredFirst ==
  ASSUME IInv, IInv', FirstCommand, read <= 1, SliceExpired
  PROVE  FirstCommand'
<1> PICK p : p = current
  OBVIOUS
<1>1. /\ Running /\ counter >= slice /\ Requeue
      /\ UNCHANGED <<slice, counter, store, scripts, length, page_table, rank, lines,
                     cwd, status, policy, todo, read>>
  BY DEF SliceExpired, memory, disk, shell
<1>2. /\ p \in PCBs /\ p # NoProcess /\ read = 1 /\ DiskAsWritten /\ LiveProcesses
      /\ Executing /\ Turns /\ Supplied(p)
      /\ length[p.script] \in Nat /\ p.pc \in Nat
      /\ counter \in Nat /\ slice \in Nat /\ counter <= p.pc /\ counter = slice
      /\ queue \in Seq(PCBs) /\ Len(queue) \in Nat
      /\ slice # 2 => \A i \in 1 .. Len(queue) : FALSE
  <2>1. counter \in Nat /\ slice \in Nat /\ counter <= slice
    BY <1>1, InTurn
  <2>2. counter = slice
    BY <1>1, <2>1
  <2> QED
    BY <1>1, <2>2, InTurn
<1>3. /\ \A o : Supplied(o)' <=> Supplied(o)
      /\ \A o : Progress(o)' = Progress(o)
      /\ \A o, b : Recent(o, b)' <=> Recent(o, b)
  BY <1>1, SameMemory
<1>4. DiskAsWritten'
  BY <1>1, <1>2 DEF DiskAsWritten
<1>5. Recent(p, 1)
  <2>1. CASE counter > 0
    BY <1>2, <2>1 DEF Turns
  <2>2. CASE counter = 0
    <3>1. length[p.script] = 0
      BY <1>2, <2>2 DEF Executing
    <3> QED
      BY <3>1 DEF Recent
  <2> QED
    BY <1>2, <2>1, <2>2
<1>6. ASSUME NEW i \in 1 .. Len(queue), NEW o \in PCBs, o = queue[i]
      PROVE  Supplied(o)' /\ Progress(o)' = Progress(o) /\ Recent(o, 2 * (K - i) + 1)'
  <2>1. Supplied(o)
    BY <1>2, <1>6 DEF LiveProcesses
  <2>2. counter = 2
    BY <1>2
  <2>3. 2 * (K - i) - 1 + counter = 2 * (K - i) + 1
    BY <1>2, <2>2, Halves
  <2>4. Recent(o, 2 * (K - i) - 1 + counter)
    BY <1>2, <1>6 DEF Turns
  <2>5. Recent(o, 2 * (K - i) + 1)
    BY <2>3, <2>4
  <2>6. Recent(o, 2 * (K - i) + 1)'
    BY <1>1, <2>5 DEF Recent, Entry, PageOf, K
  <2> QED
    BY <1>3, <2>1, <2>6
<1>7. slice = 2 =>
        /\ Progress(p) \in {0, 2, 4, 6}
        /\ \A i \in 1 .. Len(queue) : /\ Progress(queue[i]) <= Progress(p)
                                      /\ Progress(p) <= Progress(queue[i]) + 2
  <2> SUFFICES ASSUME slice = 2
               PROVE  /\ Progress(p) \in {0, 2, 4, 6}
                      /\ \A i \in 1 .. Len(queue) : /\ Progress(queue[i]) <= Progress(p)
                                                    /\ Progress(p) <= Progress(queue[i]) + 2
    OBVIOUS
  <2>1. Lockstep /\ length[p.script] > 0
    BY <1>2 DEF Executing, Turns
  <2>2. TurnStart = IF p.pc - 2 < 6 THEN p.pc - 2 ELSE 6
    BY <1>2, <2>1 DEF TurnStart, EARLY, FRAME_SIZE
  <2>3. Progress(p) = IF p.pc < 6 THEN p.pc ELSE 6
    BY <2>1 DEF Progress, EARLY, FRAME_SIZE
  <2>4. TurnStart \in {0, 2, 4, 6}
    BY <1>2, <2>1 DEF Lockstep
  <2>5. Progress(p) \in {0, 2, 4, 6} /\ (Progress(p) = TurnStart + 2 \/ (Progress(p) = 6 /\ TurnStart = 6))
    BY <1>2, <2>2, <2>3, <2>4
  <2>6. ASSUME NEW i \in 1 .. Len(queue)
        PROVE  /\ Progress(queue[i]) <= Progress(p)
               /\ Progress(p) <= Progress(queue[i]) + 2
    <3>1. /\ Progress(queue[i]) \in {0, 2, 4, 6} /\ TurnStart <= Progress(queue[i])
          /\ Progress(queue[i]) <= TurnStart + 2
      BY <1>2, <2>1 DEF Lockstep
    <3> QED
      BY <2>4, <2>5, <3>1
  <2> QED
    BY <2>5, <2>6
<1> QED
  BY <1>1, <1>2, <1>3, <1>4, <1>5, <1>6, <1>7, RequeueFirst

\* An access moves a page down by one place at most.
LEMMA RecentTouched ==
  ASSUME TypeOK, NEW f \in Frames, rank' = Touch(rank, f),
         NEW o \in PCBs, o.pc < FRAME_SIZE * MAX_PAGE_TABLE_SIZE,
         length'[o.script] = length[o.script],
         page_table'[o.script] = page_table[o.script],
         NEW b \in Int, Recent(o, b)
  PROVE  Recent(o, b + 1)'
<1>1. PageOf(o) \in PageNumbers /\ PageOf(o)' = PageOf(o) /\ Entry(o)' = Entry(o)
  BY PageInTable DEF PCBs, PageOf, Entry
<1>2. Entry(o) # Invalid => Entry(o) \in Frames
  BY <1>1 DEF TypeOK, Entry, PCBs
<1>3. Entry(o) # Invalid => /\ rank[Entry(o)] \in Int
                            /\ rank'[Entry(o)] \in Int
                            /\ rank'[Entry(o)] <= rank[Entry(o)] + 1
  <2>1. rank \in Rankings /\ rank' \in Rankings
    BY TouchRanking DEF TypeOK
  <2>2. \A r \in Rankings, g \in Frames : r[g] \in Int
    BY NumFramesAssumption DEF Rankings, Ranks
  <2>3. \A g \in Frames : rank'[g] <= rank[g] + 1
    BY <2>1, TouchBound
  <2> QED
    BY <1>2, <2>1, <2>2, <2>3
<1> QED
  BY <1>1, <1>3 DEF Recent

\* A line is executed, and its page becomes the most recently used.
LEMMA AdvanceFirst ==
  ASSUME IInv, IInv', FirstCommand, read <= 1, CanExecute, Advance,
         UNCHANGED <<queue, slice, store, scripts, length, page_table, lines, cwd,
                     status, policy, todo, read>>
  PROVE  FirstCommand'
<1> PICK p : p = current
  OBVIOUS
<1>1. Running /\ counter < slice /\ Entry(p) \in Frames /\ counter' = counter + 1
      /\ rank' = Touch(rank, Entry(p)) /\ status = "running"
  BY ExecutingEntry DEF CanExecute, Advance, Running
<1>2. /\ p \in PCBs /\ p # NoProcess /\ InHand = 1
      /\ read = 1 /\ DiskAsWritten /\ LiveProcesses /\ Executing /\ Turns
      /\ Supplied(p) /\ p.script \in Scripts /\ length[p.script] \in Nat /\ p.pc \in Nat
      /\ p.pc < FRAME_SIZE * MAX_PAGE_TABLE_SIZE
      /\ counter \in Nat /\ slice \in Nat /\ counter <= p.pc
      /\ queue \in Seq(PCBs) /\ Len(queue) \in Nat
      /\ slice # 2 => \A i \in 1 .. Len(queue) : FALSE
  BY <1>1, InTurn
<1>3. /\ \A o : Supplied(o)' <=> Supplied(o)
      /\ \A o : Progress(o)' = Progress(o)
  BY SameMemory
<1>4. DiskAsWritten'
  BY <1>2 DEF DiskAsWritten
<1>5. \A i \in 1 .. Len(queue) :
        /\ Supplied(queue[i])' /\ Progress(queue[i])' = Progress(queue[i])
        /\ Recent(queue[i], 2 * (K - i) - 1 + counter)'
        /\ Recent(queue[i], 2 * (K - i) + 1)'
  <2> SUFFICES ASSUME NEW i \in 1 .. Len(queue)
               PROVE  /\ Supplied(queue[i])' /\ Progress(queue[i])' = Progress(queue[i])
                      /\ Recent(queue[i], 2 * (K - i) - 1 + counter)'
                      /\ Recent(queue[i], 2 * (K - i) + 1)'
    OBVIOUS
  <2>1. PICK o \in PCBs : o = queue[i] /\ queue'[i] = o
    BY <1>2
  <2>2. Supplied(o) /\ o.pc < FRAME_SIZE * MAX_PAGE_TABLE_SIZE
    BY <1>2, <2>1 DEF LiveProcesses, IInv, ProcessesOK, HealthyPCBs
  <2>3. PICK b \in Int : b = 2 * (K - i) - 1 + counter
    BY <1>2, Halves
  <2>4. Recent(o, b)
    BY <1>2, <2>1, <2>3 DEF Turns
  <2>5. Recent(o, b + 1)'
    BY <1>1, <2>2, <2>4, RecentTouched DEF IInv
  <2>6. b + 1 = 2 * (K - i) - 1 + counter' /\ K' = K
    BY <1>1, <1>2, <2>3, Halves DEF K
  <2>7. Recent(o, 2 * (K - i) - 1 + counter)'
    BY <2>5, <2>6 DEF Recent
  <2>8. PICK c \in Int : c = 2 * (K - i) + 1
    BY Halves
  <2>9. b + 1 <= c
    BY <1>1, <1>2, <2>3, <2>8, Halves
  <2>10. Recent(o, c)'
    BY <2>2, <2>5, <2>9, RecentWeaker DEF IInv
  <2>11. Recent(o, 2 * (K - i) + 1)'
    BY <2>6, <2>8, <2>10 DEF Recent
  <2>12. Supplied(queue[i])' /\ Progress(queue[i])' = Progress(queue[i])
    BY <1>3, <2>1, <2>2, AtPlace
  <2>13. Recent(queue[i], 2 * (K - i) - 1 + counter)' /\ Recent(queue[i], 2 * (K - i) + 1)'
    BY <2>1, <2>7, <2>11 DEF Recent, Entry, PageOf
  <2> QED
    BY <2>12, <2>13
<1>6. slice = 2 =>
        /\ \A i, j \in 1 .. Len(queue) : i <= j =>
             /\ Progress(queue[i])' <= Progress(queue[j])'
             /\ Progress(queue[j])' <= Progress(queue[i])' + 2
        /\ \A i \in 1 .. Len(queue) : Progress(queue[i])' \in {0, 2, 4, 6}
  BY <1>2, <1>5 DEF Executing, Lockstep
<1>7. CASE current' = NoProcess
  <2>1. LiveProcesses'
    <3>1. InHand' = 0 /\ InHand = 1
      BY <1>2, <1>7 DEF InHand
    <3>2. Len(todo) \in Nat
      BY DEF IInv, TypeOK
    <3>3. /\ Len(queue') + InHand' + Len(todo') <= K'
          /\ Len(queue') + InHand' + Len(todo') <= 1 \/ policy' = "RR"
      BY <1>2, <3>1, <3>2, Halves DEF LiveProcesses, K
    <3> QED
      BY <1>2, <1>5, <1>7, <3>3 DEF LiveProcesses
  <2>2. Turns'
    BY <1>5, <1>7 DEF Turns
  <2>3. slice = 2 => Lockstep'
    BY <1>6, <1>7 DEF Lockstep
  <2>4. slice # 2 => Len(queue) + InHand' <= 1
    BY <1>2, <1>7 DEF Executing, InHand
  <2>5. Executing'
    BY <1>2, <1>7, <2>2, <2>3, <2>4 DEF Executing
  <2> QED
    BY <1>1, <1>2, <1>4, <2>1, <2>5 DEF FirstCommand
<1>8. CASE current' # NoProcess
  <2>1. current' = [p EXCEPT !.pc = p.pc + 1] /\ p.pc + 1 < length[p.script]
    <3>1. ~(p.pc + 1 >= length[p.script])
      BY <1>8 DEF Advance
    <3> QED
      BY <1>2, <3>1 DEF Advance
  <2>2. PICK r : current' = r
    OBVIOUS
  <2>3. r \in PCBs /\ r.pc = p.pc + 1 /\ r.script = p.script /\ length[p.script] > 0
    BY <1>2, <2>1, <2>2 DEF PCBs
  <2>4. /\ PageOf(p) \in Nat /\ PageOf(r) \in Nat /\ PageOf(p) <= PageOf(r)
        /\ r.pc >= EARLY => PageOf(r) >= 2
    BY <1>2, <2>3 DEF PageOf, FRAME_SIZE, EARLY
  <2>5. \A n \in PageNumbers : n \in Nat
    BY DEF PageNumbers
  <2>6. Supplied(r)
    <3>1. PagesAhead(r)
      <4> SUFFICES ASSUME NEW n \in PageNumbers, n >= PageOf(r)
                   PROVE  IF page_table[p.script][n] = Invalid
                            THEN n >= 2 \/ n * FRAME_SIZE >= length[p.script]
                            ELSE /\ n <= 1 \/ n = PageOf(r)
                                 /\ store[page_table[p.script][n]] = Page(p.script, n * FRAME_SIZE)
        BY <2>3 DEF PagesAhead
      <4>1. n >= PageOf(p) /\ (n = PageOf(p) => n = PageOf(r))
        BY <2>4, <2>5
      <4>2. IF page_table[p.script][n] = Invalid
              THEN n >= 2 \/ n * FRAME_SIZE >= length[p.script]
              ELSE /\ n <= 1 \/ n = PageOf(p)
                   /\ store[page_table[p.script][n]] = Page(p.script, n * FRAME_SIZE)
        BY <1>2, <2>3, <4>1 DEF Supplied, PagesAhead
      <4> QED
        BY <4>1, <4>2
    <3>2. WithinScript(r) /\ RoomForEmpty(r)
      BY <2>1, <2>3 DEF WithinScript, RoomForEmpty
    <3> QED
      BY <1>2, <2>3, <3>1, <3>2 DEF Supplied
  <2>7. Recent(r, 1)'
    <3> SUFFICES ASSUME r.pc >= EARLY, Entry(r) # Invalid
                 PROVE  rank'[Entry(r)] <= 1
      BY DEF Recent, Entry, PageOf
    <3>1. r.pc < FRAME_SIZE * MAX_PAGE_TABLE_SIZE
      BY <1>8, <2>2 DEF IInv, ProcessesOK, HealthyPCBs
    <3>2. PageOf(r) \in PageNumbers
      BY <2>3, <3>1, PageInTable DEF PageOf, PCBs
    <3>3. PageOf(r) <= 1 \/ PageOf(r) = PageOf(p)
      BY <1>2, <2>3, <2>4, <3>2 DEF Supplied, PagesAhead, Entry
    <3>4. Entry(r) = Entry(p)
      BY <2>3, <2>4, <3>3 DEF Entry
    <3> QED
      BY <1>1, <3>4, TouchBound DEF IInv, TypeOK
  <2>8. LiveProcesses'
    <3>1. Supplied(current)' /\ InHand' = InHand
      BY <1>3, <1>8, <1>2, <2>2, <2>6, AtHand DEF InHand
    <3> QED
      BY <1>2, <1>5, <2>2, <2>3, <3>1 DEF LiveProcesses, K
  <2>9. Turns'
    <3>1. Recent(current, 1)' /\ length'[current'.script] > 0
      BY <2>2, <2>3, <2>7, AtHand
    <3>2. counter' <= slice' /\ counter' <= current'.pc
      BY <1>1, <1>2, <2>2, <2>3
    <3> QED
      BY <1>5, <1>8, <3>1, <3>2 DEF Turns
  <2>10. slice = 2 => Lockstep'
    <3>1. TurnStart' = TurnStart
      <4>1. r.pc - counter' = p.pc - counter
        BY <1>1, <1>2, <2>3
      <4> QED
        BY <2>2, <2>3, <4>1 DEF TurnStart
    <3> QED
      BY <1>2, <1>5, <1>6, <3>1 DEF Lockstep, Executing
  <2>11. Executing'
    <3>1. InHand' = InHand
      BY <1>2, <1>8 DEF InHand
    <3> QED
      BY <1>2, <2>2, <2>3, <2>9, <2>10, <3>1 DEF Executing
  <2> QED
    BY <1>1, <1>2, <1>4, <2>8, <2>11 DEF FirstCommand
<1> QED
  BY <1>7, <1>8

\* The frame a fault uses is not one that another process is to find its page in.
LEMMA FaultSpares ==
  ASSUME IInv, FirstCommand, read <= 1, PageFault, length[current.script] > 0,
         NEW f \in Frames,
         store[f] = Empty \/ rank[f] = NumFrames,
         NEW i \in 1 .. Len(queue), NEW o \in PCBs, o = queue[i]
  PROVE  /\ slice = 2 /\ current.pc >= EARLY
         /\ length[o.script] > 0 /\ o.pc >= EARLY /\ Progress(o) = EARLY
         /\ \A m \in PageNumbers :
              m >= PageOf(o) /\ page_table[o.script][m] # Invalid =>
                page_table[o.script][m] \in Frames \ {f}
<1> PICK p : p = current
  OBVIOUS
<1>1. Running /\ counter < slice /\ Entry(p) = Invalid /\ p.pc % FRAME_SIZE = 0
      /\ PageOf(p) \in PageNumbers
  BY FaultAligned DEF PageFault
<1>2. /\ p \in PCBs /\ p # NoProcess
      /\ LiveProcesses /\ Executing /\ Turns
      /\ Supplied(p) /\ p.pc \in Nat
      /\ counter \in Nat /\ slice \in Nat /\ counter <= p.pc
      /\ queue \in Seq(PCBs) /\ Len(queue) \in Nat
      /\ slice # 2 => \A j \in 1 .. Len(queue) : FALSE
  BY <1>1, InTurn
<1>3. slice = 2 /\ counter \in {0, 1} /\ Lockstep
  BY <1>1, <1>2 DEF Executing
<1>4. PageOf(p) * FRAME_SIZE = p.pc /\ PageOf(p) \in Nat
  BY <1>1, <1>2 DEF PageOf, FRAME_SIZE
<1>5. p.pc >= 6
  <2>1. PageOf(p) >= 2 \/ PageOf(p) * FRAME_SIZE >= length[p.script]
    BY <1>1, <1>2, <1>4 DEF Supplied, PagesAhead, Entry
  <2>2. p.pc < length[p.script]
    BY <1>2 DEF Supplied, WithinScript
  <2>3. length[p.script] \in Nat
    BY <1>1, InTurn
  <2> QED
    BY <1>2, <1>4, <2>1, <2>2, <2>3 DEF FRAME_SIZE
<1>6. TurnStart = 6
  <2>1. TurnStart = IF p.pc - counter < 6 THEN p.pc - counter ELSE 6
    BY DEF TurnStart, EARLY, FRAME_SIZE
  <2>2. TurnStart \in {0, 2, 4, 6}
    BY <1>2, <1>3 DEF Lockstep
  <2> QED
    BY <1>2, <1>3, <1>5, <2>1, <2>2
<1>7. Progress(o) \in 0 .. 6 /\ Progress(o) = 6
  <2>1. Progress(o) \in 0 .. 6
    BY ProgressRange DEF IInv, EARLY, FRAME_SIZE
  <2>2. TurnStart <= Progress(o)
    BY <1>2, <1>3 DEF Lockstep
  <2> QED
    BY <1>6, <2>1, <2>2
<1>8. length[o.script] > 0 /\ o.pc >= 6
  <2>1. length[o.script] \in Nat /\ o.pc \in Nat
    BY ProgressRange DEF IInv
  <2> QED
    BY <1>7, <2>1 DEF Progress, EARLY, FRAME_SIZE
<1>9. ASSUME NEW m \in PageNumbers, m >= PageOf(o), page_table[o.script][m] # Invalid
      PROVE  page_table[o.script][m] \in Frames \ {f}
  <2>1. Supplied(o)
    BY <1>2 DEF LiveProcesses
  <2>2. /\ m <= 1 \/ m = PageOf(o)
        /\ store[page_table[o.script][m]] = Page(o.script, m * FRAME_SIZE)
    BY <1>8, <1>9, <2>1 DEF Supplied, PagesAhead
  <2>3. PageOf(o) >= 2 /\ m \in Nat /\ PageOf(o) \in Nat
    BY <1>8 DEF PageOf, FRAME_SIZE, PCBs, PageNumbers
  <2>4. page_table[o.script][m] = Entry(o)
    BY <1>9, <2>2, <2>3 DEF Entry
  <2>5. Entry(o) \in Frames
    BY <1>9, <2>4 DEF IInv, TypeOK, PCBs
  <2>6. store[Entry(o)] # Empty
    BY <2>2, <2>3, <2>4, EmptyIsNoPage DEF Page, Pages, PCBs, FRAME_SIZE
  <2>7. rank[Entry(o)] # NumFrames
    <3>1. Recent(o, 2 * (K - i) - 1 + counter)
      BY <1>2 DEF Turns
    <3>2. rank[Entry(o)] <= 2 * (K - i) - 1 + counter
      BY <1>8, <1>9, <2>4, <3>1 DEF Recent, EARLY, FRAME_SIZE
    <3>3. rank[Entry(o)] \in Int
      BY <2>5, NumFramesAssumption DEF IInv, TypeOK, Rankings, Ranks
    <3>4. i \in Nat /\ i >= 1
      BY <1>2
    <3> QED
      BY <1>3, <3>2, <3>3, <3>4, Halves, NumFramesAssumption
  <2> QED
    BY <2>4, <2>5, <2>6, <2>7
<1> QED
  BY <1>3, <1>5, <1>7, <1>8, <1>9 DEF EARLY, FRAME_SIZE

\* A fault fills a frame that no other process needs.
LEMMA FaultFirst ==
  ASSUME IInv, IInv', FirstCommand, read <= 1, PageFault, NEW f \in Frames,
         NEW st, st = [store EXCEPT ![f] = Empty], LoadPage(f, st),
         \/ store[f] = Empty
         \/ FreeFrames(store) = {} /\ rank[f] = NumFrames
  PROVE  FirstCommand'
<1> PICK p : p = current
  OBVIOUS
<1> DEFINE s == p.script
           n == PageOf(p)
<1>1. Running /\ counter < slice /\ Entry(p) = Invalid /\ p.pc % FRAME_SIZE = 0
      /\ n \in PageNumbers /\ status = "running"
  BY FaultAligned DEF PageFault, Running
<1>2. /\ p \in PCBs /\ p # NoProcess /\ read = 1 /\ DiskAsWritten
      /\ LiveProcesses /\ Executing /\ Turns
      /\ Supplied(p) /\ s \in Scripts /\ length[s] \in Nat /\ p.pc \in Nat
      /\ counter \in Nat /\ slice \in Nat /\ counter <= p.pc
      /\ p.pc < FRAME_SIZE * MAX_PAGE_TABLE_SIZE
      /\ queue \in Seq(PCBs) /\ Len(queue) \in Nat
      /\ slice # 2 => \A j \in 1 .. Len(queue) : FALSE
  BY <1>1, InTurn
<1>3. /\ Requeue
      /\ UNCHANGED <<slice, counter, scripts, length, lines, cwd, status, policy, todo, read>>
  BY DEF LoadPage, disk, shell
<1>4. n \in Nat /\ n * FRAME_SIZE = p.pc
  BY <1>1, <1>2 DEF PageOf, FRAME_SIZE
<1>5. FileLines(s) = length[s] /\ s \in scripts
  BY <1>2 DEF Supplied, DiskAsWritten, FileLines
<1>6. (p.pc < length[s] /\ length[s] > 0) \/ (p.pc = 0 /\ length[s] = 0)
  BY <1>2 DEF Supplied, WithinScript
<1>7. rank' = Touch(rank, f)
  BY <1>2, <1>5, <1>6 DEF LoadPage, Loadable
<1>8. /\ page_table'[s][n] = f
      /\ \A m \in PageNumbers : m # n => page_table'[s][m] = page_table[s][m]
      /\ \A t \in Scripts : t # s => page_table'[t] = page_table[t]
  BY <1>1, <1>2 DEF LoadPage, IInv, TypeOK
<1>9. DiskAsWritten'
  BY <1>2, <1>3 DEF DiskAsWritten
<1>10. f # Invalid
  BY NumFramesAssumption DEF Frames, Invalid
<1>11. length[s] > 0 => /\ store'[f] = Page(s, p.pc)
                        /\ \A g \in Frames : g # f => store'[g] = store[g]
  BY <1>5, <1>6 DEF LoadPage, StoreAfterLoad, IInv, TypeOK
<1>12. length[s] = 0 => store' = store
  <2> SUFFICES ASSUME length[s] = 0 PROVE store' = store
    OBVIOUS
  <2>1. FreeFrames(store) # {}
    BY <1>1, <1>2 DEF Supplied, RoomForEmpty
  <2>2. store[f] = Empty
    BY <2>1
  <2>3. store' = st
    BY <1>5, <1>6 DEF LoadPage, StoreAfterLoad
  <2> QED
    BY <2>2, <2>3 DEF IInv, TypeOK
<1>13. n' = n /\ s' = s
  BY DEF PageOf
<1> HIDE DEF s, n
<1>14. Supplied(p)' /\ Recent(p, 1)'
  <2>1. p.script \in scripts' /\ WithinScript(p)'
    BY <1>2, <1>3 DEF Supplied, WithinScript
  <2>2. Entry(p)' = f
    BY <1>8 DEF Entry, PageOf, s, n
  <2>3. RoomForEmpty(p)'
    BY <1>10, <2>2 DEF RoomForEmpty
  <2>4. Recent(p, 1)'
    BY <2>2, TouchBound, <1>7 DEF Recent, IInv, TypeOK
  <2>5. PagesAhead(p)'
    <3> SUFFICES ASSUME length[s] > 0, NEW m \in PageNumbers, m >= n
                 PROVE  IF page_table'[s][m] = Invalid
                          THEN m >= 2 \/ m * FRAME_SIZE >= length[s]
                          ELSE /\ m <= 1 \/ m = n
                               /\ store'[page_table'[s][m]] = Page(s, m * FRAME_SIZE)
      BY <1>3 DEF PagesAhead, PageOf, Page, s, n
    <3>1. CASE m = n
      BY <1>4, <1>8, <1>10, <1>11, <3>1
    <3>2. CASE m # n
      <4>0. /\ \A k \in PageNumbers : k >= n =>
                 IF page_table[s][k] = Invalid
                   THEN k >= 2 \/ k * FRAME_SIZE >= length[s]
                   ELSE k <= 1 \/ k = n
            /\ page_table[s][n] = Invalid
        BY <1>1, <1>2 DEF Supplied, PagesAhead, Entry, s, n
      <4>1. n >= 2
        <5>1. n >= 2 \/ n * FRAME_SIZE >= length[s]
          BY <1>1, <1>4, <4>0
        <5> QED
          BY <1>2, <1>4, <1>6, <5>1
      <4>2. m \in Nat /\ m > n
        BY <1>4, <3>2 DEF PageNumbers
      <4>3. page_table[s][m] = Invalid
        BY <1>4, <4>0, <4>1, <4>2
      <4> QED
        BY <1>4, <1>8, <3>2, <4>1, <4>2, <4>3
    <3> QED
      BY <3>1, <3>2
  <2> QED
    BY <2>1, <2>3, <2>4, <2>5 DEF Supplied
<1>15. ASSUME NEW i \in 1 .. Len(queue), NEW o \in PCBs, o = queue[i]
       PROVE  Supplied(o)' /\ Progress(o)' = Progress(o) /\ Recent(o, 2 * (K - i) + 1)'
  <2>1. Supplied(o) /\ o.script \in Scripts /\ o.script # s
        /\ o.pc < FRAME_SIZE * MAX_PAGE_TABLE_SIZE
    BY <1>2, <1>15 DEF LiveProcesses, IInv, ProcessesOK, HealthyPCBs, PCBs, s
  <2>2. page_table'[o.script] = page_table[o.script] /\ length'[o.script] = length[o.script]
    BY <1>3, <1>8, <2>1
  <2>3. slice = 2 /\ counter \in {0, 1} /\ i \in Int
    BY <1>1, <1>2
  <2>4. /\ \A m \in PageNumbers :
             m >= PageOf(o) /\ page_table[o.script][m] # Invalid /\ length[o.script] > 0 =>
               store'[page_table[o.script][m]] = store[page_table[o.script][m]]
        /\ RoomForEmpty(o)'
    <3>1. CASE length[s] > 0
      <4>1. /\ length[o.script] > 0
            /\ \A m \in PageNumbers :
                 m >= PageOf(o) /\ page_table[o.script][m] # Invalid =>
                   page_table[o.script][m] \in Frames \ {f}
        BY <1>15, <3>1, FaultSpares DEF s
      <4> QED
        BY <1>11, <2>2, <3>1, <4>1 DEF RoomForEmpty
    <3>2. CASE length[s] = 0
      BY <1>12, <2>1, <2>2, <3>2 DEF Supplied, RoomForEmpty, Entry, PageOf, FreeFrames
    <3> QED
      BY <1>2, <3>1, <3>2
  <2>5. Supplied(o)' /\ Progress(o)' = Progress(o)
    BY <1>3, <2>1, <2>2, <2>4, OthersSupplied
  <2>6. PICK b \in Int : b = 2 * (K - i) - 1 + counter
    BY <1>2, <2>3, Halves
  <2>7. Recent(o, b)
    BY <1>2, <1>15, <2>6 DEF Turns
  <2>8. Recent(o, b + 1)'
    BY <1>7, <2>1, <2>2, <2>7, RecentTouched DEF IInv
  <2>9. PICK c \in Int : c = 2 * (K - i) + 1 /\ b + 1 <= c
    BY <2>3, <2>6, Halves
  <2>10. Recent(o, c)'
    BY <2>1, <2>8, <2>9, RecentWeaker DEF IInv
  <2>11. Recent(o, 2 * (K - i) + 1)'
    BY <2>9, <2>10 DEF Recent, K
  <2> QED
    BY <2>5, <2>11
<1>16. slice = 2 =>
         /\ Progress(p)' \in {0, 2, 4, 6}
         /\ \A i \in 1 .. Len(queue) : /\ Progress(queue[i]) <= Progress(p)'
                                       /\ Progress(p)' <= Progress(queue[i]) + 2
  <2> SUFFICES ASSUME slice = 2
               PROVE  /\ Progress(p)' \in {0, 2, 4, 6}
                      /\ \A i \in 1 .. Len(queue) : /\ Progress(queue[i]) <= Progress(p)'
                                                    /\ Progress(p)' <= Progress(queue[i]) + 2
    OBVIOUS
  <2>1. CASE length[s] = 0
    <3>1. Entry(p)' = f
      BY <1>8 DEF Entry, PageOf, s, n
    <3>2. Progress(p)' = 2 /\ Progress(p) = 0
      BY <1>1, <1>3, <1>10, <2>1, <3>1 DEF Progress, s
    <3>3. TurnStart = 0
      BY <2>1, <3>2 DEF TurnStart, s
    <3>4. \A i \in 1 .. Len(queue) : /\ Progress(queue[i]) \in {0, 2, 4, 6}
                                     /\ Progress(queue[i]) <= 2
      BY <1>2, <3>3 DEF Executing, Lockstep
    <3> QED
      BY <3>2, <3>4
  <2>2. CASE length[s] > 0
    <3>1. p.pc >= 6
      <4>1. n >= 2 \/ n * FRAME_SIZE >= length[s]
        BY <1>1, <1>2, <1>4, <2>2 DEF Supplied, PagesAhead, Entry, s, n
      <4> QED
        BY <1>2, <1>4, <1>6, <2>2, <4>1 DEF FRAME_SIZE
    <3>2. Progress(p)' = 6
      BY <1>2, <1>3, <2>2, <3>1 DEF Progress, EARLY, FRAME_SIZE, s
    <3>3. \A i \in 1 .. Len(queue) : Progress(queue[i]) = 6
      <4> SUFFICES ASSUME NEW i \in 1 .. Len(queue)
                   PROVE  Progress(queue[i]) = 6
        OBVIOUS
      <4>1. PICK o \in PCBs : o = queue[i]
        BY <1>2
      <4> QED
        BY <2>2, <4>1, FaultSpares DEF s, EARLY, FRAME_SIZE
    <3> QED
      BY <3>2, <3>3
  <2> QED
    BY <1>2, <2>1, <2>2
<1> QED
  BY <1>1, <1>2, <1>3, <1>9, <1>14, <1>15, <1>16, RequeueFirst

\* A stuttering step.
LEMMA UnchangedFirst ==
  ASSUME FirstCommand, UNCHANGED vars
  PROVE  FirstCommand'
<1>1. UNCHANGED <<status, policy, todo, queue, current, counter, slice, store, scripts,
                  length, page_table, rank, lines, cwd, read>>
  BY DEF vars, process, memory, disk, shell
<1>2. \A p : (Supplied(p)' <=> Supplied(p)) /\ Progress(p)' = Progress(p)
  BY <1>1, SameMemory
<1>3. \A p, b : Recent(p, b)' <=> Recent(p, b)
  BY <1>1, SameMemory
<1>4. LiveProcesses' <=> LiveProcesses
  BY <1>1 DEF LiveProcesses, InHand, Supplied, PagesAhead, WithinScript, RoomForEmpty,
              PageOf, Entry, FreeFrames
<1>5. Loading' <=> Loading
  BY <1>1 DEF Loading, Progress, PageOf, Entry, FreeFrames
<1>6. Turns' <=> Turns
  BY <1>1 DEF Turns, Recent, PageOf, Entry
<1>7. Lockstep' <=> Lockstep
  BY <1>1 DEF Lockstep, TurnStart, Progress, PageOf, Entry
<1>8. Executing' <=> Executing
  BY <1>1, <1>6, <1>7 DEF Executing, InHand
<1>9. (Untouched' <=> Untouched) /\ (DiskAsWritten' <=> DiskAsWritten)
  BY <1>1 DEF Untouched, DiskAsWritten
<1> QED
  BY <1>1, <1>4, <1>5, <1>8, <1>9 DEF FirstCommand

\* Scripts that fit neither change directory nor truncate a file.
LEMMA OrdinaryLine ==
  ASSUME IInv, FirstCommandFits, CanExecute
  PROVE  FetchedOp \in {"NULL", "other", "quit"}
<1> SUFFICES ASSUME FetchedOp # "NULL" PROVE FetchedOp \in {"other", "quit"}
  OBVIOUS
<1>1. ~FetchedNull /\ FetchedOp = Fetched.op
  BY DEF FetchedOp
<1>2. FetchedPage \in Pages /\ current.pc \in Nat
  BY <1>1, ExecutingEntry DEF FetchedNull, FetchedPage, IInv, TypeOK, PCBs
<1>3. FetchedPage.script \in Scripts /\ FetchedPage.first \in Nat
  BY <1>2 DEF Pages
<1>4. current.pc % FRAME_SIZE \in Nat
  BY <1>2 DEF FRAME_SIZE
<1>5. Len(Text[FetchedPage.script]) \in Nat
  BY <1>3, SessionAssumption
<1>6. FetchedLine + 1 \in 1 .. Len(Text[FetchedPage.script])
  BY <1>1, <1>3, <1>4, <1>5 DEF FetchedLine, FetchedNull
<1> QED
  BY <1>1, <1>3, <1>6 DEF Fetched, FirstCommandFits

\* Before the first command no script is registered and every frame is free.
THEOREM InitFirst == Init => FirstCommand
BY DEF Init, FirstCommand, Untouched

\* The first command keeps its invariant, step by step.
THEOREM NextFirst ==
  FirstCommandFits => (IInv /\ IInv' /\ FirstCommand /\ [Next]_vars => FirstCommand')
<1> SUFFICES ASSUME FirstCommandFits, IInv, IInv', FirstCommand, [Next]_vars, read' <= 1
             PROVE  FirstCommand'
  BY DEF FirstCommand
<1>1. ASSUME NEW c \in Commands, Accept(c) PROVE FirstCommand'
  BY <1>1, AcceptFirst
<1>2. ASSUME status' = "exited" PROVE FirstCommand'
  BY <1>2 DEF FirstCommand
<1>3. CASE CreateProcess
  <2>1. read <= 1
    BY <1>3 DEF CreateProcess, CreateFromRegistered, FileNotFound, CreateFromFile,
                CreateOverflows, CreateReadsUnset
  <2>2. ASSUME NEW s \in Scripts, CreateFromRegistered(s) PROVE FirstCommand'
    <3>1. /\ status = "loading" /\ todo # <<>> /\ s = Head(todo) /\ s \in scripts
          /\ todo \in Seq(Scripts)
      BY <2>2 DEF CreateFromRegistered, Creating, IInv, TypeOK
    <3>2. Loading
      BY <2>1, <3>1 DEF FirstCommand
    <3>3. 1 \in 1 .. Len(todo) /\ s = todo[1]
      BY <3>1, TodoTail
    <3> QED
      BY <3>1, <3>2, <3>3 DEF Loading
  <2>3. ASSUME NEW s \in Scripts, FileNotFound(s) PROVE FirstCommand'
    BY <2>1, <2>3, NotFoundFirst
  <2>4. ASSUME NEW s \in Scripts, CreateFromFile(s) PROVE FirstCommand'
    BY <2>1, <2>4, CreateFirst
  <2>5. ASSUME NEW s \in Scripts, CreateOverflows(s) \/ CreateReadsUnset(s)
        PROVE  FirstCommand'
    BY <2>5 DEF CreateOverflows, CreateReadsUnset, FirstCommand
  <2> QED
    BY <1>3, <2>2, <2>3, <2>4, <2>5 DEF CreateProcess
<1>4. CASE Schedule
  <2>1. read <= 1
    BY <1>4 DEF Schedule, StartScheduler, NothingToRun, Dispatch, SchedulerDone,
                SliceExpired, FaultWithFreeFrame, FaultWithEviction, LoadPage,
                ExecuteLine, ExecuteCd, ExecuteTouch, ExecuteQuit, shell
  <2>2. CASE StartScheduler
    BY <2>1, <2>2, StartFirst
  <2>3. CASE NothingToRun \/ SchedulerDone
    <3>1. status \in {"loading", "running"} /\ status' = "prompt" /\ read' = read
      BY <2>3 DEF NothingToRun, SchedulerDone
    <3> QED
      BY <2>1, <3>1 DEF FirstCommand
  <2>4. CASE Dispatch
    BY <2>1, <2>4, DispatchFirst
  <2>5. CASE SliceExpired
    BY <2>1, <2>5, SliceExpiredFirst
  <2>6. CASE FaultWithFreeFrame
    <3>1. PICK f : f = find_free_frame(store)
      OBVIOUS
    <3>2. PageFault /\ FreeFrames(store) # {} /\ LoadPage(f, store)
      BY <2>6, <3>1 DEF FaultWithFreeFrame
    <3>3. f \in Frames /\ store[f] = Empty
      BY <3>1, <3>2, FreeFrameFound DEF FreeFrames
    <3>4. store = [store EXCEPT ![f] = Empty]
      BY <3>3 DEF IInv, TypeOK
    <3> QED
      BY <2>1, <3>2, <3>3, <3>4, FaultFirst
  <2>7. CASE FaultWithEviction
    <3>1. PICK f : f = Victim(rank)
      OBVIOUS
    <3>2. /\ PageFault /\ FreeFrames(store) = {}
          /\ LoadPage(f, [store EXCEPT ![f] = Empty])
      BY <2>7, <3>1 DEF FaultWithEviction
    <3>3. f \in Frames /\ rank[f] = NumFrames
      BY <3>1, VictimIsLast DEF IInv, TypeOK
    <3> QED
      BY <2>1, <3>2, <3>3, FaultFirst
  <2>8. CASE ExecuteLine
    BY <2>1, <2>8, AdvanceFirst DEF ExecuteLine, disk, shell
  <2>9. CASE ExecuteCd \/ ExecuteTouch
    <3>1. CanExecute /\ FetchedOp \in {"my_cd", "my_touch"}
      BY <2>9 DEF ExecuteCd, ExecuteTouch
    <3> QED
      BY <3>1, OrdinaryLine
  <2>10. CASE ExecuteQuit
    BY <1>2, <2>10 DEF ExecuteQuit, quit
  <2> QED
    BY <1>4, <2>2, <2>3, <2>4, <2>5, <2>6, <2>7, <2>8, <2>9, <2>10 DEF Schedule
<1>5. CASE UNCHANGED vars
  BY <1>5, UnchangedFirst
<1>6. CASE EndOfInput \/ \E c \in Commands : QuitCommand(c)
  BY <1>2, <1>6 DEF EndOfInput, QuitCommand, quit
<1> QED
  BY <1>1, <1>3, <1>4, <1>5, <1>6 DEF Next

\* The strengthening the theorems about the first command follow from.
THEOREM FirstCommandInvariant ==
  FirstCommandFits => (Spec => [](IInv /\ FirstCommand))
<1> SUFFICES ASSUME FirstCommandFits PROVE Spec => [](IInv /\ FirstCommand)
  OBVIOUS
<1>1. Init => IInv /\ FirstCommand
  BY InitInvariant, InitFirst
<1>2. IInv /\ FirstCommand /\ [Next]_vars => IInv' /\ FirstCommand'
  BY NextInvariant, NextFirst
<1> QED
  BY <1>1, <1>2, PTL DEF Spec

\* When a session's first command fits (the caller gives it different
\* scripts and two frames for each), no process ever executes a line of
\* another script or of another page, however often pages are evicted: round
\* robin and the LRU order keep the page a process is in from being the
\* victim of the others' faults.
THEOREM FirstCommandExecutesOwnCode ==
  FirstCommandFits => (Spec => [](read <= 1 => ExecutesOwnCode))
<1> SUFFICES ASSUME FirstCommandFits PROVE Spec => [](read <= 1 => ExecutesOwnCode)
  OBVIOUS
<1>1. ASSUME IInv, FirstCommand, read <= 1, CanExecute, length[current.script] > 0
      PROVE  FetchedPage = Page(current.script, FRAME_SIZE * PageOf(current))
  <2>1. Supplied(current)
    BY <1>1 DEF CanExecute, Running, FirstCommand, LiveProcesses
  <2>2. PageOf(current) \in PageNumbers /\ Entry(current) # Invalid
    BY <1>1, ExecutingEntry, PageInTable DEF HealthyPCBs, PCBs, PageOf, CanExecute
  <2>3. store[Entry(current)] = Page(current.script, PageOf(current) * FRAME_SIZE)
    BY <1>1, <2>1, <2>2 DEF Supplied, PagesAhead, Entry, PageNumbers
  <2>4. PageOf(current) * FRAME_SIZE = FRAME_SIZE * PageOf(current)
    BY <2>2 DEF PageNumbers, FRAME_SIZE
  <2> QED
    BY <2>3, <2>4 DEF FetchedPage
<1>2. IInv /\ FirstCommand => (read <= 1 => ExecutesOwnCode)
  BY <1>1 DEF ExecutesOwnCode
<1> QED
  BY <1>2, FirstCommandInvariant, PTL

\* Every script that is there has the two lines create_process_PCB needs to set
\* all the pointers it uses.
NoShortScripts == \A s \in Scripts \ Missing : Len(Text[s]) >= 2

\* The shell has not crashed, and nothing it did made a script shorter.
FirstCommandSound ==
  read <= 1 =>
    /\ status # "crashed"
    /\ \A s \in Scripts : lines[Home][s] \notin {0, 1}

THEOREM InitSound == NoShortScripts => (Init => FirstCommandSound)
<1> SUFFICES ASSUME NoShortScripts, Init PROVE FirstCommandSound
  OBVIOUS
<1>1. ASSUME NEW s \in Scripts PROVE lines[Home][s] \notin {0, 1}
  <2>1. lines[Home][s] = IF s \notin Missing THEN Len(Text[s]) ELSE -1
    BY SessionAssumption DEF Init, NoFile
  <2>2. CASE s \in Missing
    <3>1. lines[Home][s] = -1
      BY <2>1, <2>2
    <3> QED
      BY <3>1
  <2>3. CASE s \notin Missing
    <3>1. lines[Home][s] = Len(Text[s])
      BY <2>1, <2>3
    <3>2. Len(Text[s]) \in Nat /\ Len(Text[s]) >= 2
      BY <2>3, SessionAssumption DEF NoShortScripts
    <3>3. \A n \in Nat : n >= 2 => n \notin {0, 1}
      OBVIOUS
    <3>4. Len(Text[s]) \notin {0, 1}
      BY <3>2, <3>3, Zenon
    <3> QED
      BY <3>1, <3>4, Zenon
  <2> QED
    BY <2>2, <2>3
<1>2. status = "prompt"
  BY DEF Init
<1> QED
  BY <1>1, <1>2 DEF FirstCommandSound

\* A first command that fits, of scripts of two lines or more, keeps it.
THEOREM NextSound ==
  FirstCommandFits =>
    (IInv /\ FirstCommand /\ FirstCommandSound /\ [Next]_vars => FirstCommandSound')
<1> SUFFICES ASSUME FirstCommandFits, IInv, FirstCommand, FirstCommandSound,
                    [Next]_vars, read' <= 1
             PROVE  FirstCommandSound'
  BY DEF FirstCommandSound
<1>1. CASE CreateProcess
  <2>1. PICK s \in Scripts : \/ CreateFromRegistered(s) \/ FileNotFound(s)
                             \/ CreateFromFile(s) \/ CreateOverflows(s)
                             \/ CreateReadsUnset(s)
    BY <1>1 DEF CreateProcess
  <2>2. read <= 1 /\ lines' = lines /\ status = "loading"
    BY <2>1 DEF CreateFromRegistered, FileNotFound, CreateFromFile, CreateOverflows,
                CreateReadsUnset, Creating, disk
  <2>3. ~CreateOverflows(s)
    BY <2>2, CreateFits DEF CreateOverflows
  <2>4. ~CreateReadsUnset(s)
    <3>1. FileLines(s) = lines[Home][s]
      BY <2>2 DEF FirstCommand, DiskAsWritten, FileLines
    <3> QED
      BY <2>2, <3>1 DEF CreateReadsUnset, FirstCommandSound
  <2>5. status' = status
    BY <2>1, <2>3, <2>4 DEF CreateFromRegistered, FileNotFound, CreateFromFile
  <2> QED
    BY <2>2, <2>5 DEF FirstCommandSound
<1>2. CASE StartScheduler
  <2>1. read <= 1 /\ lines' = lines /\ status = "loading"
    BY <1>2 DEF StartScheduler, disk
  <2>2. policy \in {"run", "RR", "RR30"}
    BY <2>1 DEF FirstCommand, Loading
  <2>3. status' = "running"
    BY <1>2, <2>2 DEF StartScheduler
  <2> QED
    BY <2>1, <2>3 DEF FirstCommandSound
<1>3. CASE SliceExpired \/ FaultWithFreeFrame \/ FaultWithEviction \/ Dispatch
  BY <1>3 DEF SliceExpired, FaultWithFreeFrame, FaultWithEviction, LoadPage, Dispatch,
              disk, shell, FirstCommandSound
<1>4. CASE NothingToRun \/ SchedulerDone
  BY <1>4 DEF NothingToRun, SchedulerDone, disk, FirstCommandSound
<1>5. CASE ExecuteLine \/ ExecuteQuit
  BY <1>5 DEF ExecuteLine, ExecuteQuit, Advance, quit, disk, shell, FirstCommandSound
<1>6. CASE ExecuteCd \/ ExecuteTouch
  <2>1. CanExecute /\ FetchedOp \in {"my_cd", "my_touch"}
    BY <1>6 DEF ExecuteCd, ExecuteTouch
  <2> QED
    BY <2>1, OrdinaryLine
<1>7. ASSUME NEW c \in Commands, Accept(c) \/ QuitCommand(c) PROVE FirstCommandSound'
  BY <1>7 DEF Accept, QuitCommand, quit, disk, IInv, TypeOK, FirstCommandSound
<1>8. CASE EndOfInput
  BY <1>8 DEF EndOfInput, quit, disk, FirstCommandSound
<1>9. CASE UNCHANGED vars
  BY <1>9 DEF vars, disk, shell, FirstCommandSound
<1> QED
  BY <1>1, <1>2, <1>3, <1>4, <1>5, <1>6, <1>7, <1>8, <1>9 DEF Next, Schedule

\* When the scripts of such a command have two lines or more, it never writes
\* outside the frame store or the scripts array, and creates its processes from
\* pointers that were set: the frames, the places and the lines it needs are
\* there.
THEOREM FirstCommandNeverCrashes ==
  FirstCommandFits /\ NoShortScripts => (Spec => [](read <= 1 => NeverCrashes))
<1> SUFFICES ASSUME FirstCommandFits, NoShortScripts
             PROVE  Spec => [](read <= 1 => NeverCrashes)
  OBVIOUS
<1>1. Init => FirstCommandSound
  BY InitSound
<1>2. IInv /\ FirstCommand /\ FirstCommandSound /\ [Next]_vars => FirstCommandSound'
  BY NextSound
<1>3. FirstCommandSound => (read <= 1 => NeverCrashes)
  BY DEF FirstCommandSound, NeverCrashes
<1> QED
  BY <1>1, <1>2, <1>3, FirstCommandInvariant, PTL DEF Spec

=============================================================================
