------------------------------- MODULE Memory -------------------------------
(***************************************************************************)
(* Physical frames, page tables and the ownership of both through clone,   *)
(* exit, pthread_exit and StartScreen (project/Project/mm.c and sys.c).    *)
(*                                                                         *)
(* Programs are assumed to follow the protocol of the project statement:   *)
(* the first thread of a process creates the others, which end with        *)
(* pthread_exit, and the process ends with the exit of the first one.      *)
(* Any live task may be the one that runs.                                 *)
(*                                                                         *)
(* An operator whose name ends in Mutant is no part of the specification:  *)
(* it varies the definition after it the way a slip in the code would, and *)
(* shows which property notices.                                           *)
(***************************************************************************)
EXTENDS Integers, Sequences, FiniteSets, SequencesExt

CONSTANTS
  NR_TASKS,
  TOTAL_PAGES,      \* logical pages of an address space, and frames
  NUM_PAG_KERNEL, NUM_PAG_CODE, NUM_PAG_DATA,
  Guards,           \* the kernel pages before and after the task array
  StackSizes,       \* stack sizes programs ask for, in pages
  Threading,        \* the PIDs of the programs that create threads
  MaxPID            \* bounds the number of forks

ASSUME MemoryAssumption ==
  /\ NR_TASKS \in Nat /\ NR_TASKS >= 2
  /\ NUM_PAG_KERNEL \in Nat \ {0} /\ NUM_PAG_CODE \in Nat \ {0}
  /\ NUM_PAG_DATA \in Nat \ {0}
  /\ TOTAL_PAGES \in Nat
  /\ TOTAL_PAGES >= NUM_PAG_KERNEL + 2 * (NUM_PAG_CODE + NUM_PAG_DATA)
  /\ Guards \subseteq 1 .. NUM_PAG_KERNEL - 1
  /\ StackSizes \subseteq Nat
  /\ MaxPID \in Nat \ {0}

VARIABLES
  phys_mem,       \* the frames marked USED_FRAME, those of the kernel left out
  PT,             \* the frame in each entry of each page table, 0 in an empty one
  present,        \* the pages whose entry has the present bit
  freequeue,
  alive,          \* the tasks in use: neither free nor dropped by clone
  PID, global_PID,
  dir,            \* dir_pages_baseAddr: the slot whose page table a task uses
  master, num_threads,
  threads,        \* the list of the other threads of a master
  stack,          \* user_stack_page_start and _end, as a set of pages
  screen_buffer,  \* the page of the screen buffer, 0 for NULL
  crashed         \* the kernel has faulted or has written to foreign data

memory == <<phys_mem, PT, present>>
tasks == <<freequeue, alive, PID, global_PID, dir, master, num_threads,
           threads, stack, screen_buffer>>
vars == <<memory, tasks, crashed>>

Task == 0 .. NR_TASKS - 1
Task1 == 1
NULL == 0

Page == 0 .. TOTAL_PAGES - 1
PAG_LOG_INIT_CODE == NUM_PAG_KERNEL
PAG_LOG_INIT_DATA == PAG_LOG_INIT_CODE + NUM_PAG_CODE
FirstHigh == PAG_LOG_INIT_DATA + 2 * NUM_PAG_DATA

Kernel == 0 .. NUM_PAG_KERNEL - 1
Code == PAG_LOG_INIT_CODE .. PAG_LOG_INIT_DATA - 1
Data == PAG_LOG_INIT_DATA .. PAG_LOG_INIT_DATA + NUM_PAG_DATA - 1
High == FirstHigh .. TOTAL_PAGES - 1     \* stacks of threads and screens

(* alloc_frame looks at every other frame only *)
Frame == {f \in NUM_PAG_KERNEL .. TOTAL_PAGES - 1 : (f - NUM_PAG_KERNEL) % 2 = 0}

-----------------------------------------------------------------------------
(* mm.c *)

Free == Frame \ phys_mem

(***************************************************************************)
(* One alloc_frame for each page of the domain of f, in ascending order:   *)
(* each takes the first free frame.                                        *)
(***************************************************************************)
FirstFit(f) ==
  \A p \in DOMAIN f :
    /\ \A q \in DOMAIN f : q < p => f[q] # f[p]
    /\ \A g \in Free : g < f[p] => \E q \in DOMAIN f : q < p /\ f[q] = g

(* free_frame, of each frame of a set; it ignores NUM_PAG_KERNEL itself *)
AfterFree(frames) ==
  phys_mem \ {f \in frames : f > NUM_PAG_KERNEL}

(* the frames in the entries of these pages, 0 for the empty ones *)
FramesOf(d, pages) == {PT[d][p] : p \in pages}

(* alloc_frame and set_ss_pag for each page of the domain of new *)
AllocateAt(d, new) ==
  /\ FirstFit(new)
  /\ phys_mem' = phys_mem \cup {new[p] : p \in DOMAIN new}
  /\ PT' = [PT EXCEPT ![d] = [p \in Page |-> IF p \in DOMAIN new THEN new[p]
                                              ELSE PT[d][p]]]
  /\ present' = [present EXCEPT ![d] = @ \cup DOMAIN new]

(* del_ss_pag *)
Unmap(d, pages) ==
  /\ PT' = [PT EXCEPT ![d] = [p \in Page |-> IF p \in pages THEN 0 ELSE PT[d][p]]]
  /\ present' = [present EXCEPT ![d] = @ \ pages]

(* the present bit is not looked at *)
FreeRunMutant(d, first, n) ==
  /\ n > 0
  /\ first .. first + n - 1 \subseteq High

(***************************************************************************)
(* get_free_logical_pages, called for the pages behind the data section:   *)
(* the first n free ones in a row.  It finds none for n = 0.               *)
(***************************************************************************)
FreeRun(d, first, n) ==
  /\ n > 0
  /\ first .. first + n - 1 \subseteq High \ present[d]

FirstFreeRun(d, first, n) ==
  /\ FreeRun(d, first, n)
  /\ \A p \in High : p < first => ~FreeRun(d, p, n)

NoFreeRun(d, n) == \A p \in High : ~FreeRun(d, p, n)

-----------------------------------------------------------------------------

(* init_table_pages *)
KernelTable == [p \in Page |-> IF p \in Kernel THEN p ELSE 0]

\* the kernel's frames are used, the others free
init_frames == {}

\* The page directory at each position has one entry, for the table at that position.
init_dir_pages == [d \in Task |-> d]

\* the directory at the position of the struct; get_PT follows its entry
allocate_DIR(t) == init_dir_pages[t]

\* the frames that alloc_frame gives for the first process
set_user_pages(user) ==
  \A p \in DOMAIN user : user[p] = NUM_PAG_KERNEL + 2 * (p - PAG_LOG_INIT_CODE)

\* init_mm, init_task1 and the rest of main
Init ==
  /\ \E user \in [Code \cup Data -> Frame] :
       /\ set_user_pages(user)
       /\ phys_mem = init_frames \cup {user[p] : p \in DOMAIN user}
       /\ PT = [d \in Task |->
                  IF d = Task1
                  THEN [p \in Page |-> IF p \in DOMAIN user THEN user[p]
                                       ELSE KernelTable[p]]
                  ELSE KernelTable]
  /\ present = [d \in Task |-> (Kernel \ ({0} \cup Guards))
                               \cup (IF d = Task1 THEN Code \cup Data ELSE {})]
  /\ freequeue = [i \in 1 .. NR_TASKS - 2 |-> i + 1]
  /\ alive = {Task1}
  /\ PID = [t \in Task |-> IF t <= Task1 THEN t ELSE -1]
  /\ global_PID = 1
  /\ dir = [t \in Task |-> allocate_DIR(t)]
  /\ master = [t \in Task |-> t]
  /\ num_threads = [t \in Task |-> 0]
  /\ threads = [t \in Task |-> <<>>]
  /\ stack = [t \in Task |-> {}]
  /\ screen_buffer = [t \in Task |-> NULL]
  /\ crashed = FALSE

Running(t) == t \in alive /\ ~crashed

(* the screen page a struct refers to, if any *)
Screen(t) == IF screen_buffer[t] = NULL THEN {} ELSE {screen_buffer[t]}

-----------------------------------------------------------------------------
(* sys_clone *)

(* the part of the struct that the child keeps from the caller *)
CopyTo(child, t) ==
  /\ stack' = [stack EXCEPT ![child] = stack[t]]
  /\ screen_buffer' = [screen_buffer EXCEPT ![child] = screen_buffer[t]]

(* the struct is queued without having been unlinked *)
GiveBackMutant(t) ==
  /\ freequeue' = Append(freequeue, Head(freequeue))
  /\ CopyTo(Head(freequeue), t)
  /\ PID' = [PID EXCEPT ![Head(freequeue)] = PID[t]]
  /\ master' = [master EXCEPT ![Head(freequeue)] = master[t]]
  /\ num_threads' = [num_threads EXCEPT ![Head(freequeue)] = num_threads[t]]
  /\ threads' = [threads EXCEPT ![Head(freequeue)] = <<>>]
  /\ UNCHANGED <<alive, global_PID>>

(* a failed clone gives the struct back at the tail of freequeue *)
GiveBack(t) ==
  /\ freequeue' = Append(Tail(freequeue), Head(freequeue))
  /\ CopyTo(Head(freequeue), t)
  /\ PID' = [PID EXCEPT ![Head(freequeue)] = PID[t]]
  /\ master' = [master EXCEPT ![Head(freequeue)] = master[t]]
  /\ num_threads' = [num_threads EXCEPT ![Head(freequeue)] = num_threads[t]]
  /\ threads' = [threads EXCEPT ![Head(freequeue)] = <<>>]
  /\ UNCHANGED <<alive, global_PID>>

(***************************************************************************)
(* CLONE_PROCESS: new data pages and a new screen page; the kernel's and   *)
(* the code's entries of the caller, all made present.  The pages behind   *)
(* the data of the caller are mapped for the copy and unmapped again.      *)
(***************************************************************************)
Fork(t) ==
  /\ Running(t) /\ freequeue # <<>> /\ global_PID < MaxPID
  /\ Data \subseteq present[dir[t]]
  /\ Screen(t) # {} => ~NoFreeRun(dir[t], 1)
  /\ LET child == Head(freequeue) IN
     /\ \E new \in [Data \cup Screen(t) -> Free] :
          /\ FirstFit(new)
          /\ phys_mem' = phys_mem \cup {new[p] : p \in DOMAIN new}
          /\ PT' = [PT EXCEPT ![child] =
                      [p \in Page |-> IF p \in DOMAIN new THEN new[p]
                                      ELSE IF p \in Kernel \cup Code THEN PT[dir[t]][p]
                                      ELSE PT[child][p]]]
     /\ present' = [present EXCEPT ![child] =
                      @ \cup Kernel \cup Code \cup Data \cup Screen(t)]
     /\ freequeue' = Tail(freequeue)
     /\ alive' = alive \cup {child}
     /\ CopyTo(child, t)
     /\ global_PID' = global_PID + 1
     /\ PID' = [PID EXCEPT ![child] = global_PID + 1]
     /\ dir' = [dir EXCEPT ![child] = allocate_DIR(child)]
     /\ master' = [master EXCEPT ![child] = child]
     /\ num_threads' = [num_threads EXCEPT ![child] = 1]
     /\ threads' = [threads EXCEPT ![child] = <<>>]
  /\ UNCHANGED crashed

(* the frames taken for the data are not given back *)
ForkNoFramesMutant(t) ==
  /\ Running(t) /\ freequeue # <<>>
  /\ Cardinality(Free) < NUM_PAG_DATA
  /\ LET child == Head(freequeue) IN
     /\ Unmap(child, PAG_LOG_INIT_DATA .. PAG_LOG_INIT_DATA + Cardinality(Free) - 1)
     /\ dir' = [dir EXCEPT ![child] = allocate_DIR(child)]
  /\ GiveBack(t)
  /\ phys_mem' = phys_mem \cup Free
  /\ UNCHANGED crashed

(* too few frames for the data: those taken are given back *)
ForkNoFrames(t) ==
  /\ Running(t) /\ freequeue # <<>>
  /\ Cardinality(Free) < NUM_PAG_DATA
  /\ LET child == Head(freequeue) IN
     /\ Unmap(child, PAG_LOG_INIT_DATA .. PAG_LOG_INIT_DATA + Cardinality(Free) - 1)
     /\ dir' = [dir EXCEPT ![child] = allocate_DIR(child)]
  /\ GiveBack(t)
  /\ UNCHANGED <<phys_mem, crashed>>

(***************************************************************************)
(* No frame or page for the screen of the child: the clean-up loop runs    *)
(* over the pages up to pag, which is a page number by then and not a      *)
(* count.  It reads data_pages_copy far beyond its end and maps whatever   *)
(* it finds in the caller's table, or faults.  The model stops here.       *)
(***************************************************************************)
ForkNoScreen(t) ==
  /\ Running(t) /\ freequeue # <<>>
  /\ Data \subseteq present[dir[t]]
  /\ Screen(t) # {}
  /\ Cardinality(Free) >= NUM_PAG_DATA
  /\ Cardinality(Free) = NUM_PAG_DATA \/ NoFreeRun(dir[t], 1)
  /\ crashed' = TRUE
  /\ UNCHANGED <<memory, tasks>>

(* the copy of the caller's data reads pages that are not mapped *)
ForkFaults(t) ==
  /\ Running(t) /\ freequeue # <<>>
  /\ Cardinality(Free) >= NUM_PAG_DATA
  /\ ~(Data \subseteq present[dir[t]])
  /\ crashed' = TRUE
  /\ UNCHANGED <<memory, tasks>>

CreatesThread(t) ==
  Running(t) /\ freequeue # <<>> /\ master[t] = t /\ PID[t] \in Threading

(* CLONE_THREAD, with n pages of stack in the address space of the caller *)
CloneThread(t, n) ==
  /\ CreatesThread(t)
  /\ LET child == Head(freequeue)
         d     == dir[t]
     IN
     /\ \E first \in High :
          /\ FirstFreeRun(d, first, n)
          /\ \E new \in [first .. first + n - 1 -> Free] : AllocateAt(d, new)
          /\ stack' = [stack EXCEPT ![child] = first .. first + n - 1]
     /\ freequeue' = Tail(freequeue)
     /\ alive' = alive \cup {child}
     /\ screen_buffer' = [screen_buffer EXCEPT ![child] = screen_buffer[t]]
     /\ PID' = [PID EXCEPT ![child] = PID[t]]
     /\ dir' = [dir EXCEPT ![child] = d]
     /\ master' = [master EXCEPT ![child] = t]
     /\ num_threads' = [num_threads EXCEPT ![child] = num_threads[t],
                                           ![t] = num_threads[t] + 1]
     /\ threads' = [threads EXCEPT ![child] = <<>>, ![t] = Append(@, child)]
  /\ UNCHANGED <<global_PID, crashed>>

(***************************************************************************)
(* Too few frames for the stack: the loop that should give back those      *)
(* already mapped frees the page that got none, again and again.           *)
(***************************************************************************)
CloneThreadNoFrames(t, n) ==
  /\ CreatesThread(t)
  /\ Cardinality(Free) < n
  /\ \E first \in High :
       /\ FirstFreeRun(dir[t], first, n)
       /\ \E new \in [first .. first + Cardinality(Free) - 1 -> Free] :
            AllocateAt(dir[t], new)
  /\ dir' = [dir EXCEPT ![Head(freequeue)] = dir[t]]
  /\ GiveBack(t)
  /\ UNCHANGED crashed

(* no pages in a row for the stack: the struct is dropped *)
CloneThreadNoPages(t, n) ==
  /\ CreatesThread(t)
  /\ NoFreeRun(dir[t], n)
  /\ freequeue' = Tail(freequeue)
  /\ CopyTo(Head(freequeue), t)
  /\ PID' = [PID EXCEPT ![Head(freequeue)] = PID[t]]
  /\ dir' = [dir EXCEPT ![Head(freequeue)] = dir[t]]
  /\ master' = [master EXCEPT ![Head(freequeue)] = master[t]]
  /\ num_threads' = [num_threads EXCEPT ![Head(freequeue)] = num_threads[t]]
  /\ threads' = [threads EXCEPT ![Head(freequeue)] = <<>>]
  /\ UNCHANGED <<memory, alive, global_PID, crashed>>

-----------------------------------------------------------------------------
(* the pages of the stack stay mapped *)
pthread_exitMutant(t) ==
  LET m == master[t] IN
  /\ Running(t)
  /\ m # t
  /\ phys_mem' = AfterFree(FramesOf(dir[t], stack[t]))
  /\ num_threads' = [num_threads EXCEPT ![m] = @ - 1]
  /\ \E i \in DOMAIN threads[m] :
       /\ threads[m][i] = t
       /\ threads' = [threads EXCEPT ![m] = RemoveAt(@, i)]
  /\ freequeue' = Append(freequeue, t)
  /\ alive' = alive \ {t}
  /\ PID' = [PID EXCEPT ![t] = -1]
  /\ UNCHANGED <<PT, present, global_PID, dir, master, stack, screen_buffer, crashed>>

(* sys_pthread_exit of a thread that is still in the list of its master *)
pthread_exit(t) ==
  LET m == master[t] IN
  /\ Running(t)
  /\ m # t
  /\ phys_mem' = AfterFree(FramesOf(dir[t], stack[t]))
  /\ Unmap(dir[t], stack[t])
  /\ num_threads' = [num_threads EXCEPT ![m] = @ - 1]
  /\ \E i \in DOMAIN threads[m] :
       /\ threads[m][i] = t
       /\ threads' = [threads EXCEPT ![m] = RemoveAt(@, i)]
  /\ freequeue' = Append(freequeue, t)
  /\ alive' = alive \ {t}
  /\ PID' = [PID EXCEPT ![t] = -1]
  /\ UNCHANGED <<global_PID, dir, master, stack, screen_buffer, crashed>>

(***************************************************************************)
(* The struct of the master has been used again since, and with it the     *)
(* head of the list: list_del writes through stale links.  What follows    *)
(* is not modelled.                                                        *)
(***************************************************************************)
StrayUnlink(t) ==
  /\ Running(t)
  /\ master[t] # t
  /\ t \notin ToSet(threads[master[t]])
  /\ crashed' = TRUE
  /\ UNCHANGED <<memory, tasks>>

(* the threads that sys_exit kills with their master *)
Killed(t) == IF num_threads[t] > 1 THEN threads[t] ELSE <<>>

(* sys_exit of the first thread *)
exit(t) ==
  LET killed == ToSet(Killed(t))
      pages  == (UNION {stack[k] : k \in killed}) \cup Data \cup Screen(t)
  IN
  /\ Running(t)
  /\ master[t] = t
  /\ phys_mem' = AfterFree(FramesOf(dir[t], pages))
  /\ Unmap(dir[t], pages)
  /\ screen_buffer' = [screen_buffer EXCEPT ![t] = NULL]
  /\ threads' = [threads EXCEPT ![t] = IF killed = {} THEN @ ELSE <<>>]
  /\ freequeue' = Append(freequeue \o Killed(t), t)
  /\ alive' = alive \ (killed \cup {t})
  /\ PID' = [k \in Task |-> IF k \in killed \cup {t} THEN -1 ELSE PID[k]]
  /\ UNCHANGED <<global_PID, dir, master, num_threads, stack, crashed>>

-----------------------------------------------------------------------------
(* sys_StartScreen, when it finds a frame and a page *)
StartScreen(t) ==
  /\ Running(t)
  /\ screen_buffer[t] = NULL
  /\ \E p \in High : \E new \in [{p} -> Free] :
       /\ FirstFreeRun(dir[t], p, 1)
       /\ AllocateAt(dir[t], new)
       /\ screen_buffer' = [screen_buffer EXCEPT ![t] = p]
  /\ UNCHANGED <<freequeue, alive, PID, global_PID, dir, master, num_threads,
                 threads, stack, crashed>>

(* clock_routine copies a screen page that is not mapped any more *)
ScreenFault(t) ==
  /\ Running(t)
  /\ ~(Screen(t) \subseteq present[dir[t]])
  /\ crashed' = TRUE
  /\ UNCHANGED <<memory, tasks>>

(* the kernel has crashed, or every process has exited and idle runs *)
Stopped == (crashed \/ alive = {}) /\ UNCHANGED vars

TaskStep(t) ==
  \/ Fork(t) \/ ForkNoFrames(t) \/ ForkNoScreen(t) \/ ForkFaults(t)
  \/ \E n \in StackSizes :
       CloneThread(t, n) \/ CloneThreadNoFrames(t, n) \/ CloneThreadNoPages(t, n)
  \/ pthread_exit(t) \/ StrayUnlink(t)
  \/ exit(t)
  \/ StartScreen(t) \/ ScreenFault(t)

Next == Stopped \/ \E t \in Task : TaskStep(t)

Spec == Init /\ [][Next]_vars

-----------------------------------------------------------------------------
(* Properties *)

UserPages == Data \cup High

MemTypeOK ==
  /\ phys_mem \subseteq Frame
  /\ PT \in [Task -> [Page -> 0 .. TOTAL_PAGES - 1]]
  /\ present \in [Task -> SUBSET Page]
  /\ freequeue \in Seq(Task) /\ IsInjective(freequeue)
  /\ alive \subseteq Task \ ToSet(freequeue)
  /\ PID \in [Task -> -1 .. MaxPID]
  /\ global_PID \in 1 .. MaxPID
  /\ dir \in [Task -> Task]
  /\ master \in [Task -> Task]
  /\ num_threads \in [Task -> 0 .. NR_TASKS]
  /\ threads \in [Task -> Seq(Task)]
  /\ stack \in [Task -> SUBSET High]
  /\ screen_buffer \in [Task -> High \cup {NULL}]
  /\ crashed \in BOOLEAN

(***************************************************************************)
(* A frame of data, of a stack or of a screen is mapped once in all page   *)
(* tables, those of dead processes included; it is marked used and it is   *)
(* no frame of the code.  So no alloc_frame can hand it out again.         *)
(***************************************************************************)
PrivateFrames ==
  /\ \A d, e \in Task : \A p \in UserPages \cap present[d] :
       \A q \in UserPages \cap present[e] :
         PT[d][p] = PT[e][q] => d = e /\ p = q
  /\ \A d, e \in Task : \A p \in UserPages \cap present[d] :
       /\ PT[d][p] \in phys_mem
       /\ \A c \in Code \cap present[e] : PT[d][p] # PT[e][c]

(***************************************************************************)
(* Without threads nothing is lost: the used frames are those of the code  *)
(* and those mapped by a live process as its data or its screen, whatever  *)
(* failed before.                                                          *)
(***************************************************************************)
NoLeak ==
  phys_mem = FramesOf(Task1, Code)
               \cup (UNION {FramesOf(dir[t], Data \cup Screen(t)) : t \in alive})

(* the first thread of the process of t lives *)
Led(t) == master[t] \in alive /\ PID[master[t]] = PID[t]

(* the data of t, its screen page and the stack it got are mapped *)
Backed(t) ==
  /\ Data \cup Screen(t) \subseteq present[dir[t]]
  /\ master[t] # t => stack[t] # {} /\ stack[t] \subseteq present[dir[t]]

(* no other thread of its process has a page of its stack *)
OwnStack(t) ==
  \A u \in alive : u # t /\ PID[u] = PID[t] /\ master[t] \notin {t, u}
                   => stack[u] \cap stack[t] = {}

(***************************************************************************)
(* As long as the first thread of a process lives, each of its threads     *)
(* finds the data, its screen page and, when it is not the first, its own  *)
(* stack mapped, and shares no stack page with another of them.  Threads   *)
(* of an earlier process left behind in the same page table may: their     *)
(* pages go with any process that has used the table since.                *)
(***************************************************************************)
LiveMapped == \A t \in alive : Led(t) => Backed(t) /\ OwnStack(t)

(* "Processes have separate memory spaces": readme.md:70. *)
SeparateSpaces == \A t, u \in alive : dir[t] = dir[u] => PID[t] = PID[u]
=============================================================================
