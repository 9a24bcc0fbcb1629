----------------------------- MODULE Scheduler -----------------------------
(***************************************************************************)
(* The CPU scheduler of ZeOS (project/Project/sched.c), with every entry   *)
(* point of the kernel that moves a task_struct from one queue to another: *)
(* the clock interrupt (interrupt.c), clone, exit, pthread_exit, yield,    *)
(* SetPriority, pause and the blocking half of semWait (sys.c).            *)
(*                                                                         *)
(* The kernel runs with interrupts disabled (the gates of interrupt.c are  *)
(* interrupt gates and sysenter clears IF), so a system call is one        *)
(* action.  The clock interrupt is the exception: its walk of the blocked  *)
(* queue can call task_switch in the middle and be continued much later,   *)
(* by the same task, from the position it kept on its kernel stack.  That  *)
(* position is the variable cursor.                                        *)
(***************************************************************************)
EXTENDS Integers, Sequences, SequencesExt

CONSTANTS
  NR_TASKS,     \* size of the task array (sched.h: NR_TASKS)
  Priorities,   \* the priorities programs pass to SetPriority
  Quantum,      \* DEFAULT_QUANTUM, in clock interrupts
  MaxPause,     \* longest pause, in ticks: bounds the timers, not the code
  ListHead,     \* cursor: the walk stands on the head of the blocked queue
  NoTask,       \* cursor: the walk stands on the head of another list, or on page 0
  NotInLoop     \* cursor: the task is not inside the walk

ASSUME SchedulerAssumption ==
  /\ NR_TASKS \in Nat /\ NR_TASKS >= 2
  /\ Priorities \subseteq Nat /\ 0 \in Priorities
  /\ Quantum \in Nat \ {0}
  /\ MaxPause \in Nat \ {0}
  /\ {ListHead, NoTask, NotInLoop} \cap Int = {}
  /\ ListHead # NoTask /\ ListHead # NotInLoop /\ NoTask # NotInLoop

VARIABLES
  current,            \* the task whose kernel stack is in use: current()
  state,              \* task_struct.state
  readyqueue,
  blocked,
  freequeue,
  leaked,             \* structs clone took from freequeue and dropped
  priority,           \* task_struct.priority
  unpause_tick,       \* NotArmed, or ticks until the stored tick is reached
  remaining_quantum,
  cursor,             \* where each task's walk of blocked stands
  reaping,            \* inside sys_exit, between two killed threads
  crashed             \* the kernel faulted, or has left the lists: see the clock's walk

queues == <<readyqueue, blocked, freequeue, leaked>>
vars == <<current, state, queues, priority, unpause_tick, remaining_quantum,
          cursor, reaping, crashed>>

Task == 0 .. NR_TASKS - 1
Idle == 0
Task1 == 1
NotArmed == -1

(***************************************************************************)
(* Tasks that are alive but that no queue holds and that do not run.       *)
(***************************************************************************)
Lost == Task \ (ToSet(readyqueue) \cup ToSet(blocked) \cup ToSet(freequeue)
                  \cup leaked \cup {current, Idle})

(***************************************************************************)
(* main() after init_sched, init_idle and init_task1: task[0] is idle,     *)
(* task[1] the first process, the others wait in freequeue.                *)
(***************************************************************************)
Init ==
  /\ current = Task1
  /\ state = [t \in Task |-> "RUN"]
  /\ readyqueue = <<>>
  /\ blocked = <<>>
  /\ freequeue = [i \in 1 .. NR_TASKS - 2 |-> i + 1]
  /\ leaked = {}
  /\ priority = [t \in Task |-> IF t = Idle THEN -1 ELSE 0]
  /\ unpause_tick = [t \in Task |-> NotArmed]
  /\ remaining_quantum = Quantum
  /\ cursor = [t \in Task |-> NotInLoop]
  /\ reaping = FALSE
  /\ crashed = FALSE

-----------------------------------------------------------------------------
(* Picking the next task *)

(* Variants named "...Mutant" break one definition each, in the way of a    *)
(* slip in the code; a run under the variant must fail (see README).        *)
(* the comparison with best_prio forgotten *)
FirstReadyMutant(rdy, prio, i) == i = 1

(* best_prio compared with >= *)
LastOfHighestMutant(rdy, prio, i) ==
  /\ \A j \in DOMAIN rdy : prio[rdy[j]] <= prio[rdy[i]]
  /\ \A j \in DOMAIN rdy : j > i => prio[rdy[j]] < prio[rdy[i]]

FirstOfHighest(rdy, prio, i) ==
  /\ \A j \in DOMAIN rdy : prio[rdy[j]] <= prio[rdy[i]]
  /\ \A j \in DOMAIN rdy : j < i => prio[rdy[j]] < prio[rdy[i]]

\* The stack pointer, the stack for system calls and the page directory become those
\* of t; current() is found from the stack pointer.
task_switch(t) == current' = t

\* every struct has the default: nothing calls set_quantum
get_quantum(t) == Quantum

(***************************************************************************)
(* sched_next_rr: the first task of the highest priority in rdy gets the   *)
(* CPU and a new quantum; the idle task when nothing is ready.  It ends in *)
(* task_switch, which changes current.                                     *)
(***************************************************************************)
sched_next_rr(rdy, st, prio) ==
  /\ remaining_quantum' = get_quantum(current')
  /\ \/ /\ rdy = <<>>
        /\ task_switch(Idle)
        /\ readyqueue' = rdy
        /\ state' = [st EXCEPT ![Idle] = "RUN"]
     \/ \E i \in DOMAIN rdy :
          /\ FirstOfHighest(rdy, prio, i)
          /\ task_switch(rdy[i])
          /\ readyqueue' = RemoveAt(rdy, i)
          /\ state' = [st EXCEPT ![rdy[i]] = "RUN"]

(***************************************************************************)
(* update_process_state_rr(current(), &readyqueue); sched_next_rr(), which *)
(* sched.c names force_task_switch and SetPriority and schedule repeat:    *)
(* current goes to the tail of readyqueue and may be picked again.         *)
(***************************************************************************)
force_task_switch(prio) ==
  sched_next_rr(Append(readyqueue, current),
                [state EXCEPT ![current] = "READY"], prio)

-----------------------------------------------------------------------------
(* The clock interrupt: clock_routine *)

\* All gates, those of traps included, are interrupt gates: whatever enters the kernel
\* finds it in user mode.
InUser == cursor[current] = NotInLoop /\ ~reaping /\ ~crashed

ClockInterrupt ==
  /\ InUser
  /\ cursor' = [cursor EXCEPT ![current] =
                  IF blocked = <<>> THEN ListHead ELSE Head(blocked)]
  /\ UNCHANGED <<current, state, queues, priority, unpause_tick,
                 remaining_quantum, reaping, crashed>>

(* the preemption test with >= *)
MakeReadyEagerMutant(queue, e) ==
  LET rdy == Append(queue, e)
      st  == [state EXCEPT ![e] = "READY"]
  IN IF priority[e] >= priority[current]
     THEN sched_next_rr(rdy, st, priority)
     ELSE /\ readyqueue' = rdy
          /\ state' = st
          /\ UNCHANGED <<current, remaining_quantum>>

(***************************************************************************)
(* update_process_state_rr(e, &readyqueue) from its list_add_tail on, with *)
(* queue what list_del has left of readyqueue.  When e has a higher        *)
(* priority than current, it calls sched_next_rr at once; current, still   *)
(* in state RUN, has been put in no queue.                                 *)
(***************************************************************************)
MakeReady(queue, e) ==
  LET rdy == Append(queue, e)
      st  == [state EXCEPT ![e] = "READY"]
  IN IF priority[e] > priority[current]
     THEN sched_next_rr(rdy, st, priority)
     ELSE /\ readyqueue' = rdy
          /\ state' = st
          /\ UNCHANGED <<current, remaining_quantum>>

Due(e) == unpause_tick[e] = 0

(* the walk stops at the first task *)
SuccessorMutant(i) == ListHead

(* list_for_each: the link is followed after list_del has zeroed it *)
SuccessorUnsafeMutant(i) ==
  IF Due(blocked[i]) THEN NoTask ELSE Append(blocked, ListHead)[i + 1]

(* what list_for_each_safe keeps in its second variable at position i *)
Successor(i) == IF i = Len(blocked) THEN ListHead ELSE blocked[i + 1]

(* one iteration of the walk, with the cursor on the i-th blocked task *)
UnblockStep ==
  /\ ~crashed /\ ~reaping
  /\ \E i \in DOMAIN blocked :
       /\ cursor[current] = blocked[i]
       /\ cursor' = [cursor EXCEPT ![current] = Successor(i)]
       /\ \/ /\ Due(blocked[i])
             /\ blocked' = RemoveAt(blocked, i)
             /\ MakeReady(readyqueue, blocked[i])
          \/ /\ ~Due(blocked[i])
             /\ UNCHANGED <<current, state, readyqueue, blocked,
                            remaining_quantum>>
  /\ UNCHANGED <<freequeue, leaked, priority, unpause_tick, reaping, crashed>>

(* list_del is for tasks that do not run; it takes e out of the list it is in *)
Unlinked(queue, e) ==
  IF state[e] = "RUN" \/ e \notin ToSet(queue) THEN queue
  ELSE RemoveAt(queue, CHOOSE i \in DOMAIN queue : queue[i] = e)

(***************************************************************************)
(* Where the link of a node that is not in blocked leads: to the next node *)
(* of its list, to the head of that list, or, zeroed, to page 0.           *)
(***************************************************************************)
StrayNext(e, n) ==
  \/ \E queue \in {readyqueue, freequeue} : \E i \in DOMAIN queue :
       queue[i] = e /\ n = Append(queue, NoTask)[i + 1]
  \/ e \in Lost \cup leaked /\ n = NoTask

(***************************************************************************)
(* The same iteration when the walk has been suspended and finds that its  *)
(* next task has left blocked meanwhile.  The task may have been woken by  *)
(* another walk, have run and be lost, or have exited: a free struct keeps *)
(* its tick, and if that is due becomes ready, still in freequeue unless   *)
(* it was killed in a queue (state other than RUN), and gets the CPU when  *)
(* its priority is higher.  There the model ends, as its pages are gone    *)
(* and two lists may share the node.                                       *)
(***************************************************************************)
UnblockStray ==
  /\ ~crashed /\ ~reaping
  /\ \E e \in Task \ ToSet(blocked), n \in Task \cup {NoTask} :
       /\ cursor[current] = e /\ StrayNext(e, n)
       /\ cursor' = [cursor EXCEPT ![current] = n]
       /\ \/ /\ Due(e)
             /\ freequeue' = Unlinked(freequeue, e)
             /\ leaked' = leaked \ {e}
             /\ MakeReady(Unlinked(readyqueue, e), e)
             /\ crashed' = (e \in ToSet(freequeue) \cup leaked)
          \/ /\ ~Due(e)
             /\ UNCHANGED <<current, state, readyqueue, freequeue, leaked,
                            remaining_quantum, crashed>>
  /\ UNCHANGED <<blocked, priority, unpause_tick, reaping>>

(***************************************************************************)
(* The walk has come to page 0, which is not mapped, or to the head of     *)
(* another list: what it takes for a struct there is the page of kernel    *)
(* data that holds the head, and the list never leads back to the head of  *)
(* blocked.                                                                *)
(***************************************************************************)
StrayCursor ==
  /\ ~crashed /\ ~reaping
  /\ cursor[current] = NoTask
  /\ crashed' = TRUE
  /\ UNCHANGED <<current, state, queues, priority, unpause_tick,
                 remaining_quantum, cursor, reaping>>

(* equal priorities do not share the CPU *)
needs_sched_rrMutant ==
  \E t \in ToSet(readyqueue) : priority[t] > priority[current]

(***************************************************************************)
(* schedule(): update_sched_data_rr, needs_sched_rr and the switch.        *)
(***************************************************************************)
needs_sched_rr == \E t \in ToSet(readyqueue) : priority[t] >= priority[current]

(* the quantum is not renewed when nothing else is ready *)
ScheduleMutant ==
  /\ ~crashed /\ ~reaping
  /\ cursor[current] = ListHead
  /\ cursor' = [cursor EXCEPT ![current] = NotInLoop]
  /\ \/ /\ remaining_quantum <= 1 /\ needs_sched_rr
        /\ force_task_switch(priority)
     \/ /\ remaining_quantum > 1 \/ ~needs_sched_rr
        /\ remaining_quantum' = remaining_quantum - 1
        /\ UNCHANGED <<current, state, readyqueue>>
  /\ UNCHANGED <<blocked, freequeue, leaked, priority, unpause_tick,
                 reaping, crashed>>

Schedule ==
  /\ ~crashed /\ ~reaping
  /\ cursor[current] = ListHead
  /\ cursor' = [cursor EXCEPT ![current] = NotInLoop]
  /\ \/ /\ remaining_quantum = 1 /\ needs_sched_rr
        /\ force_task_switch(priority)
     \/ /\ remaining_quantum = 1 /\ ~needs_sched_rr
        /\ remaining_quantum' = get_quantum(current)
        /\ UNCHANGED <<current, state, readyqueue>>
     \/ /\ remaining_quantum # 1
        /\ remaining_quantum' = remaining_quantum - 1
        /\ UNCHANGED <<current, state, readyqueue>>
  /\ UNCHANGED <<blocked, freequeue, leaked, priority, unpause_tick,
                 reaping, crashed>>

Clock == ClockInterrupt \/ UnblockStep \/ UnblockStray \/ StrayCursor \/ Schedule

-----------------------------------------------------------------------------
(* System calls, made by a task in user mode; idle makes none *)

Calling == InUser /\ current # Idle

(* sys_yield *)
Yield ==
  /\ Calling
  /\ force_task_switch(priority)
  /\ UNCHANGED <<blocked, freequeue, leaked, priority, unpause_tick, cursor,
                 reaping, crashed>>

(***************************************************************************)
(* sys_SetPriority: gives the CPU up when a ready task now has a strictly  *)
(* higher priority.                                                        *)
(***************************************************************************)
SetPriority(p) ==
  LET prio == [priority EXCEPT ![current] = p] IN
  /\ Calling
  /\ priority' = prio
  /\ IF \E t \in ToSet(readyqueue) : prio[t] > p
     THEN force_task_switch(prio)
     ELSE UNCHANGED <<current, state, readyqueue, remaining_quantum>>
  /\ UNCHANGED <<blocked, freequeue, leaked, unpause_tick, cursor, reaping,
                 crashed>>

(* the state is not changed to BLOCKED *)
BlockCurrentMutant ==
  /\ blocked' = Append(blocked, current)
  /\ sched_next_rr(readyqueue, state, priority)
  /\ UNCHANGED <<freequeue, leaked, priority, cursor, reaping, crashed>>

(* current goes to the tail of the global blocked queue *)
BlockCurrent ==
  /\ blocked' = Append(blocked, current)
  /\ sched_next_rr(readyqueue, [state EXCEPT ![current] = "BLOCKED"], priority)
  /\ UNCHANGED <<freequeue, leaked, priority, cursor, reaping, crashed>>

(* sys_pause *)
Pause(ticks) ==
  /\ Calling
  /\ unpause_tick' = [unpause_tick EXCEPT ![current] = ticks]
  /\ BlockCurrent

(***************************************************************************)
(* sys_semWait on a semaphore that is not available: it blocks in the same *)
(* queue as pause does and leaves unpause_tick as it is.                   *)
(***************************************************************************)
SemBlock ==
  /\ Calling
  /\ BlockCurrent
  /\ UNCHANGED unpause_tick

(***************************************************************************)
(* sys_clone takes the first free struct and copies the caller's over it,  *)
(* the priority, the unpause tick and the state included.                  *)
(***************************************************************************)
CopyTo(child) ==
  /\ priority' = [priority EXCEPT ![child] = priority[current]]
  /\ unpause_tick' = [unpause_tick EXCEPT ![child] = unpause_tick[current]]
  /\ cursor' = [cursor EXCEPT ![child] = NotInLoop]

(* the child is queued in readyqueue; there is no check of its priority *)
Clone ==
  /\ Calling
  /\ freequeue # <<>>
  /\ CopyTo(Head(freequeue))
  /\ freequeue' = Tail(freequeue)
  /\ state' = [state EXCEPT ![Head(freequeue)] = "READY"]
  /\ readyqueue' = Append(readyqueue, Head(freequeue))
  /\ UNCHANGED <<current, blocked, leaked, remaining_quantum, reaping, crashed>>

(* no frame left: the struct returns to the tail of freequeue *)
CloneNoFrames ==
  /\ Calling
  /\ freequeue # <<>>
  /\ CopyTo(Head(freequeue))
  /\ freequeue' = Append(Tail(freequeue), Head(freequeue))
  /\ state' = [state EXCEPT ![Head(freequeue)] = state[current]]
  /\ UNCHANGED <<current, readyqueue, blocked, leaked, remaining_quantum,
                 reaping, crashed>>

(* no pages for the stack of a thread: the struct is not given back *)
CloneNoPages ==
  /\ Calling
  /\ freequeue # <<>>
  /\ CopyTo(Head(freequeue))
  /\ freequeue' = Tail(freequeue)
  /\ leaked' = leaked \cup {Head(freequeue)}
  /\ state' = [state EXCEPT ![Head(freequeue)] = state[current]]
  /\ UNCHANGED <<current, readyqueue, blocked, remaining_quantum, reaping,
                 crashed>>

(***************************************************************************)
(* sys_exit of a master: the loop that kills one of its threads, wherever  *)
(* the thread is.  Which tasks are its threads is not known here, so any   *)
(* may be.  A lost thread is in no list: list_del through its zeroed links *)
(* writes to page 0, which faults unless the process maps it.              *)
(***************************************************************************)
Exiting == current # Idle /\ ~crashed /\ (InUser \/ reaping)

ExitKills ==
  /\ Exiting
  /\ \/ /\ \E i \in DOMAIN readyqueue :
             /\ readyqueue' = RemoveAt(readyqueue, i)
             /\ freequeue' = Append(freequeue, readyqueue[i])
        /\ UNCHANGED <<blocked, crashed>>
     \/ /\ \E i \in DOMAIN blocked :
             /\ blocked' = RemoveAt(blocked, i)
             /\ freequeue' = Append(freequeue, blocked[i])
        /\ UNCHANGED <<readyqueue, crashed>>
     \/ /\ \E t \in Lost : freequeue' = Append(freequeue, t)
        /\ UNCHANGED <<readyqueue, blocked, crashed>>
     \/ /\ Lost # {}
        /\ crashed' = TRUE
        /\ UNCHANGED <<readyqueue, blocked, freequeue>>
  /\ reaping' = TRUE
  /\ UNCHANGED <<current, state, leaked, priority, unpause_tick,
                 remaining_quantum, cursor>>

(***************************************************************************)
(* The end of sys_exit and of sys_pthread_exit: the caller's struct goes   *)
(* to freequeue, still in state RUN.                                       *)
(***************************************************************************)
Exit ==
  /\ Exiting
  /\ freequeue' = Append(freequeue, current)
  /\ reaping' = FALSE
  /\ sched_next_rr(readyqueue, state, priority)
  /\ UNCHANGED <<blocked, leaked, priority, unpause_tick, cursor, crashed>>

-----------------------------------------------------------------------------
(* The time stamp counter, which get_ticks reads, reaches the next tick *)
TscTick ==
  /\ ~crashed
  /\ \E t \in Task : unpause_tick[t] > 0
  /\ unpause_tick' = [t \in Task |->
                        IF unpause_tick[t] > 0 THEN unpause_tick[t] - 1
                        ELSE unpause_tick[t]]
  /\ UNCHANGED <<current, state, queues, priority, remaining_quantum, cursor,
                 reaping, crashed>>

(* a crashed kernel does nothing more *)
Crashed == crashed /\ UNCHANGED vars

SystemCall ==
  \/ Yield
  \/ \E p \in Priorities : SetPriority(p)
  \/ \E k \in 1 .. MaxPause : Pause(k)
  \/ SemBlock
  \/ Clone \/ CloneNoFrames \/ CloneNoPages
  \/ ExitKills
  \/ Exit

Next == Clock \/ SystemCall \/ TscTick \/ Crashed

Spec == Init /\ [][Next]_vars

(***************************************************************************)
(* The handler of the clock interrupt is not interrupted, a started        *)
(* sys_exit runs to its end, and time passes.  The interrupt itself needs  *)
(* strong fairness: the interrupt controller holds the request while the   *)
(* kernel runs and delivers it when a program is next in user mode, so     *)
(* programs that are in user mode again and again cannot dodge it by       *)
(* system calls.  Nothing is assumed of what programs do.                  *)
(***************************************************************************)
Fairness ==
  /\ SF_vars(ClockInterrupt)
  /\ WF_vars(UnblockStep \/ UnblockStray \/ StrayCursor \/ Schedule)
  /\ WF_vars(Exit /\ reaping)
  /\ WF_vars(TscTick)

-----------------------------------------------------------------------------
(* Properties *)

Position == Task \cup {ListHead, NoTask, NotInLoop}

TypeOK ==
  /\ current \in Task
  /\ state \in [Task -> {"RUN", "READY", "BLOCKED"}]
  /\ readyqueue \in Seq(Task)
  /\ blocked \in Seq(Task)
  /\ freequeue \in Seq(Task)
  /\ leaked \in SUBSET Task
  /\ priority \in [Task -> Priorities \cup {-1}]
  /\ \A t \in Task : priority[t] = -1 <=> t = Idle
  /\ unpause_tick \in [Task -> {NotArmed} \cup 0 .. MaxPause]
  /\ remaining_quantum \in 1 .. Quantum
  /\ cursor \in [Task -> Position]
  /\ reaping \in BOOLEAN
  /\ crashed \in BOOLEAN

(* no struct is in two places: the queues share the one list node it has *)
OnePlace ==
  /\ IsInjective(readyqueue) /\ IsInjective(blocked) /\ IsInjective(freequeue)
  /\ \A t \in ToSet(readyqueue) :
       t \notin ToSet(blocked) \cup ToSet(freequeue) \cup leaked \cup {current, Idle}
  /\ \A t \in ToSet(blocked) :
       t \notin ToSet(freequeue) \cup leaked \cup {current, Idle}
  /\ \A t \in ToSet(freequeue) : t \notin leaked \cup {current, Idle}
  /\ \A t \in leaked : t \notin {current, Idle}

(* update_process_state_rr decides by the state whether to unlink a task *)
StateMatchesQueue ==
  /\ state[current] = "RUN"
  /\ \A t \in ToSet(readyqueue) : state[t] = "READY"
  /\ \A t \in ToSet(blocked) : state[t] = "BLOCKED"
  /\ \A t \in Lost : state[t] = "RUN"

(* no two lists share a node, and list_del is called where it must be *)
QueuesApart == OnePlace /\ StateMatchesQueue

(***************************************************************************)
(* Queue discipline: through every preemption, nested or not, a struct is  *)
(* in at most one queue, idle and the running task in none, and the state  *)
(* field agrees with the queue.  Without it list_del and list_add_tail     *)
(* (list.c) would join two queues into one.  It ends in one way: when a    *)
(* resumed walk of blocked makes a struct ready that has been freed        *)
(* meanwhile (UnblockStray), after which crashed holds.                    *)
(***************************************************************************)
QueueDiscipline == ~crashed => QueuesApart

(***************************************************************************)
(* At every moment, also between two iterations of the clock's walk and    *)
(* between two threads killed by sys_exit, no ready task has a priority    *)
(* above the one that runs: sched.c checks priorities only at a wake-up,   *)
(* at the end of a quantum and in SetPriority, and clone not at all.       *)
(***************************************************************************)
HighestPriorityRuns ==
  \A t \in ToSet(readyqueue) : priority[t] <= priority[current]

(***************************************************************************)
(* Idle has the CPU only while nothing is ready: schedule() has no check   *)
(* for idle, which would be queued like any other task.                    *)
(***************************************************************************)
IdleOnlyWhenNothingReady == current = Idle => readyqueue = <<>>

(***************************************************************************)
(* Inside the clock interrupt the CPU changes hands only in favour of a    *)
(* higher priority or, when the quantum is over, of an equal one.          *)
(***************************************************************************)
PreemptionJustified ==
  [][cursor[current] # NotInLoop /\ current' # current
       => \/ priority[current'] > priority[current]
          \/ /\ remaining_quantum = 1
             /\ priority[current'] = priority[current]]_vars

(***************************************************************************)
(* Round robin: no action gives the CPU to a ready task while another of   *)
(* the same priority has been waiting longer.                              *)
(***************************************************************************)
RoundRobinOrder ==
  [][\A i, j \in DOMAIN readyqueue :
       /\ i < j
       /\ priority[readyqueue[i]] = priority[readyqueue[j]]
       => current' # readyqueue[j]]_vars

(***************************************************************************)
(* Every task is where the kernel can find it again.  update_process_      *)
(* state_rr breaks it when it preempts a task other than idle in the       *)
(* middle of the clock's walk (sched.c:133).                               *)
(***************************************************************************)
NoTaskLost == Lost = {}
=============================================================================
