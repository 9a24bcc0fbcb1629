----------------------------- MODULE LabKernel -----------------------------
(***************************************************************************)
(* The process management of the laboratory kernel (lab/sched.c, lab/sys.c)*)
(* on the pointers of its lists: fork, block, unblock, exit and the clock. *)
(* Interrupts are disabled in the kernel and no routine gives the CPU away *)
(* before its last statement, so each call is one action.                  *)
(*                                                                         *)
(* Every struct of the array task holds three list nodes: list (the        *)
(* queues), proc_anchor (the list of its parent) and children (a head).    *)
(***************************************************************************)
EXTENDS Integers, Sequences, FiniteSets, Functions

CONSTANTS
  NR_TASKS,        \* size of the array task
  MaxPID,          \* bound on BASE_PID: no process gets a PID above it
  MaxPending,      \* bound on pending_unblocks
  Frames,          \* how many times NUM_PAG_DATA frames may be free besides those of task1
  QUANTUM          \* the quantum of task1, which its descendants copy

ASSUME LabAssumption ==
  /\ NR_TASKS \in Nat /\ NR_TASKS >= 2
  /\ MaxPID \in Nat \ {0} /\ MaxPending \in Nat /\ Frames \subseteq Nat
  /\ QUANTUM \in Nat /\ QUANTUM > 0

Task == 0 .. (NR_TASKS - 1)

\* Addresses of list nodes.
ListNode(t) == <<"list", t>>
Anchor(t) == <<"proc_anchor", t>>
Children(t) == <<"children", t>>
freequeue == <<"freequeue", 0>>
readyqueue == <<"readyqueue", 0>>
blocked == <<"blocked", 0>>
Null == <<"null", 0>>
Wild == <<"wild", 0>>
InStruct == {"list", "proc_anchor", "children"} \X Task
Memory == InStruct \cup {freequeue, readyqueue, blocked, Null}
Address == Memory \cup {Wild}

INSTANCE LinkedList

\* list_head_to_task_struct masks the low bits: any node of a struct will do.
StructOf(node) == node[2]

NoParent == -1    \* a null parent pointer

VARIABLES
  mem,        \* next and prev of every node
  current,    \* current(): the struct of the kernel stack in use
  PID, parent, pending_unblocks, remaining_ticks,   \* fields of the structs
  frames,     \* free sets of data frames
  BASE_PID,
  crashed,    \* a list operation followed a pointer to no node of its list
  tangled     \* history: a node has been linked into two lists at once

vars == <<mem, current, PID, parent, pending_unblocks, remaining_ticks,
          frames, BASE_PID, crashed, tangled>>

-----------------------------------------------------------------------------
(* Boot *)

bss == [next |-> [a \in Memory |-> IF a = Null THEN Wild ELSE Null],
        prev |-> [a \in Memory |-> IF a = Null THEN Wild ELSE Null]]

\* init_freequeue puts each struct in front of the ones before it ...
init_freequeue ==
  LET queue[n \in 0 .. NR_TASKS] ==
        IF n = 0 THEN INIT_LIST_HEAD(bss, freequeue)
        ELSE list_add(queue[n - 1], ListNode(n - 1), freequeue)
  IN queue[NR_TASKS]

init_sched ==
  INIT_LIST_HEAD(INIT_LIST_HEAD(init_freequeue, readyqueue), blocked)

\* ... so idle gets the last one of the array and task1 the one before.
idle_task == NR_TASKS - 1
task1 == NR_TASKS - 2

init_idle ==
  INIT_LIST_HEAD(list_del(init_sched, ListNode(idle_task)), Children(idle_task))

init_task1 ==
  INIT_LIST_HEAD(
    list_add_tail(list_del(init_idle, ListNode(task1)), Anchor(task1), Children(idle_task)),
    Children(task1))

Init ==
  /\ mem = init_task1
  /\ current = task1
  /\ PID = [t \in Task |-> IF t = task1 THEN 1 ELSE 0]
  /\ parent = [t \in Task |-> IF t = task1 THEN idle_task ELSE NoParent]
  /\ pending_unblocks = [t \in Task |-> 0]
  /\ remaining_ticks = [t \in Task |-> 0]
  /\ frames \in Frames
  /\ BASE_PID = 2
  /\ crashed = FALSE
  /\ tangled = FALSE

-----------------------------------------------------------------------------
(* The scheduler *)

\* Idle's struct was never given a quantum.
quantum(t) == IF t = idle_task THEN 0 ELSE QUANTUM

\* update_process_state_rr(t, 0), of a process that gets the CPU
Unlink(m, t) == IF t = idle_task THEN m ELSE list_del(m, ListNode(t))

\* sched_next_rr, on the memory m and the counters rem.
sched_next_rr(m, rem) ==
  LET first == list_first(m, readyqueue)
      next  == IF list_empty(m, readyqueue) THEN idle_task ELSE StructOf(first)
      m2    == Unlink(m, next)
  IN IF ~list_empty(m, readyqueue) /\ first \notin InStruct
     THEN /\ crashed' = TRUE
          /\ mem' = m
          /\ remaining_ticks' = rem
          /\ UNCHANGED current
     ELSE /\ mem' = m2
          /\ crashed' = WroteNull(m2)
          /\ current' = next
          /\ remaining_ticks' = [rem EXCEPT ![next] = quantum(next)]

TicksLeftMutant == remaining_ticks[current] - 1

\* update_sched_data_rr
TicksLeft == IF remaining_ticks[current] > 0 THEN remaining_ticks[current] - 1 ELSE 0

needs_sched_rrMutant == TicksLeft < 0 /\ ~list_empty(mem, readyqueue)

\* A process whose quantum has ended stays as long as it is alone.
needs_sched_rr == TicksLeft = 0 /\ ~list_empty(mem, readyqueue)

schedule ==
  LET rem    == [remaining_ticks EXCEPT ![current] = TicksLeft]
      queued == IF PID[current] # 0
                THEN list_add_tail(mem, ListNode(current), readyqueue)
                ELSE mem
  IN IF needs_sched_rr
     THEN sched_next_rr(queued, rem)
     ELSE remaining_ticks' = rem /\ UNCHANGED <<mem, current, crashed>>

\* clock_routine
ClockInterrupt ==
  /\ ~crashed
  /\ schedule
  /\ UNCHANGED <<PID, parent, pending_unblocks, frames, BASE_PID, tangled>>

-----------------------------------------------------------------------------
(* System calls. Idle makes none. *)

InProcess == ~crashed /\ current # idle_task

\* The struct is copied with the links it holds.
CopyStruct(m, from, to) ==
  LET copied(f) == [a \in Memory |->
        IF a \in InStruct /\ StructOf(a) = to THEN f[<<a[1], from>>] ELSE f[a]]
  IN [next |-> copied(m.next), prev |-> copied(m.prev)]

\* The structs that are not in freequeue
InQueue(head) == {StructOf(n) : n \in Range(Entries(mem, head))}
Live == Task \ InQueue(freequeue)

\* After an exit with children the last of them still points to the children
\* head of that struct, which fork may take while the orphan lives.
StillLinked(t) ==
  \E x \in Live : parent[x] = idle_task /\ mem.next[Anchor(x)] = Children(t)

\* sys_fork. Without a free struct it returns -ENOMEM and changes nothing.
sys_fork ==
  /\ InProcess
  /\ BASE_PID <= MaxPID
  /\ ~list_empty(mem, freequeue)
  /\ frames > 0
  /\ LET node  == list_first(mem, freequeue)
         child == StructOf(node)
         m1 == CopyStruct(list_del(mem, node), current, child)
         m2 == INIT_LIST_HEAD(m1, Children(child))
         m3 == list_add_tail(m2, Anchor(child), Children(current))
         m4 == list_add_tail(m3, ListNode(child), readyqueue)
     IN /\ mem' = m4
        /\ crashed' = WroteNull(m4)
        /\ PID' = [PID EXCEPT ![child] = BASE_PID]
        /\ parent' = [parent EXCEPT ![child] = current]
        /\ pending_unblocks' = [pending_unblocks EXCEPT ![child] = pending_unblocks[current]]
        /\ remaining_ticks' = [remaining_ticks EXCEPT ![child] = remaining_ticks[current]]
        /\ tangled' = (tangled \/ StillLinked(child))
  /\ frames' = frames - 1
  /\ BASE_PID' = BASE_PID + 1
  /\ UNCHANGED current

ForkNoFramesMutant ==
  /\ InProcess
  /\ ~list_empty(mem, freequeue)
  /\ frames = 0
  /\ mem' = CopyStruct(list_del(mem, list_first(mem, freequeue)), current,
                       StructOf(list_first(mem, freequeue)))
  /\ UNCHANGED <<current, PID, parent, pending_unblocks, remaining_ticks, frames,
                 BASE_PID, crashed, tangled>>

\* The frames run out: those taken are freed, the struct goes back to the front
\* of freequeue and -EAGAIN is returned. The copy of the struct stays in it.
ForkNoFrames ==
  /\ InProcess
  /\ ~list_empty(mem, freequeue)
  /\ frames = 0
  /\ LET node  == list_first(mem, freequeue)
         child == StructOf(node)
         m1 == CopyStruct(list_del(mem, node), current, child)
         m2 == list_add(m1, node, freequeue)
     IN /\ mem' = m2
        /\ crashed' = WroteNull(m2)
        /\ PID' = [PID EXCEPT ![child] = PID[current]]
        /\ parent' = [parent EXCEPT ![child] = parent[current]]
        /\ pending_unblocks' = [pending_unblocks EXCEPT ![child] = pending_unblocks[current]]
        /\ remaining_ticks' = [remaining_ticks EXCEPT ![child] = remaining_ticks[current]]
  /\ UNCHANGED <<current, frames, BASE_PID, tangled>>

\* sys_block of a process that was unblocked before
BlockPending ==
  /\ InProcess
  /\ pending_unblocks[current] # 0
  /\ pending_unblocks' = [pending_unblocks EXCEPT ![current] = @ - 1]
  /\ UNCHANGED <<mem, current, PID, parent, remaining_ticks, frames, BASE_PID, crashed,
                 tangled>>

\* sys_unblock leaves the links of blocked as they are, so its tail may be a
\* process that waits no longer. The next to block stores into the links of that
\* one, and so into the queue that holds it now, unless it is the same process.
BlocksInTime ==
  LET last == mem.prev[blocked]
  IN last # blocked =>
       pending_unblocks[StructOf(last)] < 0 \/ StructOf(last) = current

\* sys_block of a process that waits
BlockWaits ==
  /\ InProcess
  /\ pending_unblocks[current] = 0
  /\ pending_unblocks' = [pending_unblocks EXCEPT ![current] = -1]
  /\ sched_next_rr(list_add_tail(mem, ListNode(current), blocked), remaining_ticks)
  /\ tangled' = (tangled \/ ~BlocksInTime)
  /\ UNCHANGED <<PID, parent, frames, BASE_PID>>

\* The walk of sys_unblock ends at the first node of a struct with this PID, or
\* at the head; or it meets no node of a struct, or goes round for ever (Wild).
FindChild(pid) ==
  LET path  == Path(mem, Children(current))
      Found == {i \in DOMAIN path :
                  path[i] \in InStruct /\ PID[StructOf(path[i])] = pid}
      first == CHOOSE i \in Found : \A j \in Found : i <= j
  IN IF Found # {} THEN path[first]
     ELSE IF path[Len(path)] = Children(current) THEN Children(current)
     ELSE Wild

\* sys_unblock(pid). Another pid than a child's is refused with -1. A child that
\* waits is put in readyqueue as it is, without taking it out of blocked.
sys_unblock(pid) ==
  LET node  == FindChild(pid)
      child == StructOf(node)
  IN /\ InProcess
     /\ node # Children(current)
     /\ IF node = Wild
        THEN crashed' = TRUE /\ UNCHANGED <<mem, pending_unblocks>>
        ELSE \/ /\ pending_unblocks[child] < 0
                /\ pending_unblocks' = [pending_unblocks EXCEPT ![child] = 0]
                /\ mem' = list_add_tail(mem, ListNode(child), readyqueue)
                /\ crashed' = WroteNull(mem')
             \/ /\ pending_unblocks[child] \in 0 .. (MaxPending - 1)
                /\ pending_unblocks' = [pending_unblocks EXCEPT ![child] = @ + 1]
                /\ UNCHANGED <<mem, crashed>>
     /\ UNCHANGED <<current, PID, parent, remaining_ticks, frames, BASE_PID, tangled>>

ReparentMutant(m) == [mem |-> mem, at |-> Children(current), kids |-> {}]

\* The loop of sys_exit over the children, on the memory m: list_add_tail is
\* called with the head of idle as the entry and the child as the list, so the
\* head of idle goes from child to child and stays in front of the last one.
Reparent(m) ==
  LET head == Children(current)
      step[i \in 0 .. Cardinality(Memory)] ==
        IF i = 0 THEN [mem |-> m, at |-> m.next[head], kids |-> {}]
        ELSE LET s == step[i - 1]
                 child == StructOf(s.at)
                 added == list_add_tail(s.mem, Children(idle_task), Anchor(child))
             IN IF s.at \notin InStruct \/ s.at = head THEN s
                ELSE [mem |-> added, at |-> added.next[s.at], kids |-> s.kids \cup {child}]
  IN step[Cardinality(Memory)]

sys_exit ==
  LET loop == Reparent(list_del(mem, Anchor(current)))
  IN /\ InProcess
     /\ IF loop.at # Children(current)
        THEN crashed' = TRUE /\ UNCHANGED <<mem, current, remaining_ticks>>
        ELSE sched_next_rr(list_add_tail(loop.mem, ListNode(current), freequeue),
                           remaining_ticks)
     /\ parent' = [t \in Task |-> IF t \in loop.kids THEN idle_task ELSE parent[t]]
     /\ frames' = frames + 1
     /\ UNCHANGED <<PID, pending_unblocks, BASE_PID, tangled>>

Next ==
  \/ ClockInterrupt
  \/ sys_fork \/ ForkNoFrames
  \/ BlockPending \/ BlockWaits
  \/ \E pid \in 1 .. MaxPID : sys_unblock(pid)
  \/ sys_exit

Spec == Init /\ [][Next]_vars

\* Only the clock is sure to happen; programs may loop.
FairSpec == Spec /\ WF_vars(ClockInterrupt)

-----------------------------------------------------------------------------
(* Properties *)

\* pending_unblocks goes on below -1 only for a process that runs while it waits.
LabTypeOK ==
  /\ mem.next \in [Memory -> Address]
  /\ mem.prev \in [Memory -> Address]
  /\ current \in Task
  /\ PID \in [Task -> 0 .. MaxPID]
  /\ parent \in [Task -> Task \cup {NoParent}]
  /\ pending_unblocks \in [Task -> IF tangled THEN Int ELSE -1 .. MaxPending]
  /\ remaining_ticks \in [Task -> 0 .. QUANTUM]
  /\ frames \in Nat
  /\ BASE_PID \in 2 .. (MaxPID + 1)
  /\ crashed \in BOOLEAN /\ tangled \in BOOLEAN

\* The structs of a list, in order
Structs(head) ==
  LET nodes == Entries(mem, head) IN [i \in DOMAIN nodes |-> StructOf(nodes[i])]

Waiting == {t \in Task : pending_unblocks[t] < 0}

(***************************************************************************)
(* Every struct is in one place: it runs, it is idle, or its list node is  *)
(* in freequeue, in readyqueue or was left to wait, through forks that     *)
(* fail, blocks, unblocks of processes that do not wait yet, exits with    *)
(* and without children, and structs used again.  The two queues are sound *)
(* rings although nothing is ever taken out of blocked.  It holds until a  *)
(* node is linked into two lists: by a block behind a process that waits   *)
(* no longer (sys.c:241 stores into the links of another queue), or by a   *)
(* fork that takes the struct of a parent which one of its orphans still   *)
(* points to.                                                              *)
(***************************************************************************)
StructsConserved == ~tangled =>
  /\ ~crashed
  /\ Returns(mem, freequeue) /\ Returns(mem, readyqueue)
  /\ LET free == InQueue(freequeue)
         ready == InQueue(readyqueue)
         inuse == {idle_task, current} \cup Waiting
     IN /\ free \cup ready \cup inuse = Task
        /\ free \cap ready = {}
        /\ (free \cup ready) \cap inuse = {}
        /\ current \notin Waiting
  /\ \A head \in {freequeue, readyqueue} :
       \A n \in Range(Entries(mem, head)) \cup {head} :
         mem.prev[mem.next[n]] = n /\ mem.next[mem.prev[n]] = n

(***************************************************************************)
(* The parent a live process names lives, also after the exit of another   *)
(* parent, and the children list of a process that lives holds the live    *)
(* processes that name it and no other, until a node is linked into two    *)
(* lists.  The list of idle is no such list: the swapped arguments of      *)
(* sys.c:281 leave orphans out of it and the heads of dead structs in it.  *)
(***************************************************************************)
FamilyTree == ~tangled =>
  LET live == Live IN
    /\ \A t \in live \ {idle_task} : parent[t] \in live
    /\ \A p \in live \ {idle_task} :
         /\ Returns(mem, Children(p))
         /\ InQueue(Children(p)) = {t \in live \ {idle_task} : parent[t] = p}

\* What LabQueues knows of the live processes
Families ==
  [t \in Task |-> IF t \in Live \ {idle_task} THEN Structs(Children(t)) ELSE <<>>]
Credits ==
  [t \in Task |-> IF t \in Live \ ({idle_task} \cup Waiting) THEN pending_unblocks[t] ELSE 0]

Queues == INSTANCE LabQueues WITH
  idle    <- idle_task,
  running <- current,
  ready   <- Structs(readyqueue),
  free    <- Structs(freequeue),
  waiting <- Waiting,
  kids    <- Families,
  credit  <- Credits

\* The pointers implement the queues, the families and the waits of LabQueues, in
\* every step that leaves no node in two lists, exits of parents among them.
ImplementsQueues == Queues!Init /\ [][tangled' \/ Queues!Next]_(Queues!vars)

\* A process in the ready queue gets the CPU, also when others loop, fork and exit,
\* unless a node gets into two lists.
ReadyRuns ==
  \A t \in Task : (t \in InQueue(readyqueue)) ~> (current = t \/ tangled)

=============================================================================
