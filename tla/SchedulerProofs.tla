-------------------------- MODULE SchedulerProofs --------------------------
(***************************************************************************)
(* Theorems about Scheduler for every number of tasks, set of priorities,  *)
(* quantum and pause.  SchedInv is inductive but for the step of a stray   *)
(* walk that makes a freed struct ready, after which the model ends        *)
(* (Gone): QueuesApart needs to know that idle is never queued, which      *)
(* holds because no ready task has a priority below idle's, which in turn  *)
(* is HighestPriorityRuns.                                                 *)
(***************************************************************************)
EXTENDS Scheduler, DataLemmas

States == {"RUN", "READY", "BLOCKED"}

SchedInv == TypeOK /\ QueuesApart /\ HighestPriorityRuns

Gone == crashed /\ TypeOK /\ HighestPriorityRuns /\ Idle \notin ToSet(readyqueue)

LEMMA TaskFacts == Idle \in Task /\ Task1 \in Task /\ Task \subseteq Int
BY SchedulerAssumption DEF Idle, Task1, Task

LEMMA PriorityInt == Priorities \cup {-1} \subseteq Int
<1>1. Priorities \subseteq Nat
  BY SchedulerAssumption
<1> QED
  BY <1>1

LEMMA InitFreeQueue ==
  ASSUME Init
  PROVE  ToSet(freequeue) = Task \ {Idle, Task1} /\ IsInjective(freequeue)
<1>1. /\ DOMAIN freequeue = 1 .. NR_TASKS - 2
      /\ \A i \in 1 .. NR_TASKS - 2 : freequeue[i] = i + 1
  BY DEF Init
<1>2. IsInjective(freequeue)
  BY <1>1, SchedulerAssumption DEF IsInjective
<1>3. ToSet(freequeue) \subseteq Task \ {Idle, Task1}
  BY <1>1, SchedulerAssumption DEF ToSet, Task, Idle, Task1
<1>4. ASSUME NEW t \in Task \ {Idle, Task1} PROVE t \in ToSet(freequeue)
  <2>1. t - 1 \in 1 .. NR_TASKS - 2 /\ (t - 1) + 1 = t
    BY SchedulerAssumption DEF Task, Idle, Task1
  <2> QED
    BY <2>1, <1>1 DEF ToSet
<1> QED
  BY <1>2, <1>3, <1>4

LEMMA InitInv == Init => SchedInv
<1> SUFFICES ASSUME Init PROVE SchedInv
  OBVIOUS
<1>1. freequeue \in Seq(Task)
  <2>1. NR_TASKS - 2 \in Nat /\ \A i \in 1 .. NR_TASKS - 2 : i + 1 \in Task
    BY SchedulerAssumption DEF Task
  <2>2. freequeue \in [1 .. NR_TASKS - 2 -> Task]
    BY <2>1 DEF Init
  <2> QED
    BY <2>1, <2>2, SeqDef
<1>2. /\ ToSet(freequeue) = Task \ {Idle, Task1}
      /\ IsInjective(freequeue)
  BY InitFreeQueue
<1>3. ToSet(readyqueue) = {} /\ ToSet(blocked) = {}
      /\ readyqueue \in Seq(Task) /\ blocked \in Seq(Task)
      /\ IsInjective(readyqueue) /\ IsInjective(blocked)
  BY EmptySeq DEF Init, ToSet, IsInjective
<1>4. TypeOK
  <2>1. priority \in [Task -> Priorities \cup {-1}]
        /\ \A t \in Task : priority[t] = -1 <=> t = Idle
    BY SchedulerAssumption DEF Init
  <2>2. remaining_quantum \in 1 .. Quantum
    BY SchedulerAssumption DEF Init
  <2>3. cursor \in [Task -> Position]
    BY DEF Init, Position
  <2>4. unpause_tick \in [Task -> {NotArmed} \cup 0 .. MaxPause]
    BY DEF Init
  <2> QED
    BY <1>1, <1>3, <2>1, <2>2, <2>3, <2>4, TaskFacts DEF Init, TypeOK
<1>5. OnePlace
  BY <1>2, <1>3 DEF Init, OnePlace, Idle, Task1
<1>6. StateMatchesQueue
  BY <1>3, TaskFacts DEF Init, StateMatchesQueue, Lost
<1>7. HighestPriorityRuns
  BY <1>3 DEF HighestPriorityRuns
<1> QED
  BY <1>4, <1>5, <1>6, <1>7 DEF SchedInv, QueuesApart

(***************************************************************************)
(* What sched_next_rr does to a queue without repetitions and without      *)
(* idle, whatever it is called for.                                        *)
(***************************************************************************)
LEMMA SchedNext ==
  ASSUME NEW rdy \in Seq(Task), IsInjective(rdy), Idle \notin ToSet(rdy),
         NEW st \in [Task -> States], NEW prio,
         sched_next_rr(rdy, st, prio)
  PROVE  /\ current' \in Task /\ current' \in ToSet(rdy) \cup {Idle}
         /\ current' = Idle <=> rdy = <<>>
         /\ readyqueue' \in Seq(Task) /\ IsInjective(readyqueue')
         /\ ToSet(readyqueue') = ToSet(rdy) \ {current'}
         /\ state' \in [Task -> States]
         /\ state' = [st EXCEPT ![current'] = "RUN"]
         /\ \A t \in ToSet(readyqueue') : prio[t] <= prio[current']
         /\ remaining_quantum' \in 1 .. Quantum
<1>1. remaining_quantum' \in 1 .. Quantum
  BY SchedulerAssumption DEF sched_next_rr, task_switch, get_quantum
<1>2. CASE /\ rdy = <<>>
           /\ current' = Idle
           /\ readyqueue' = rdy
           /\ state' = [st EXCEPT ![Idle] = "RUN"]
  <2>1. ToSet(rdy) = {}
    BY <1>2, EmptySeq DEF ToSet
  <2> QED
    BY <1>1, <1>2, <2>1, TaskFacts DEF States
<1>3. ASSUME NEW i \in DOMAIN rdy,
             /\ FirstOfHighest(rdy, prio, i)
             /\ current' = rdy[i]
             /\ readyqueue' = RemoveAt(rdy, i)
             /\ state' = [st EXCEPT ![rdy[i]] = "RUN"]
      PROVE  /\ current' \in Task /\ current' \in ToSet(rdy) \cup {Idle}
             /\ current' = Idle <=> rdy = <<>>
             /\ readyqueue' \in Seq(Task) /\ IsInjective(readyqueue')
             /\ ToSet(readyqueue') = ToSet(rdy) \ {current'}
             /\ state' \in [Task -> States]
             /\ state' = [st EXCEPT ![current'] = "RUN"]
             /\ \A t \in ToSet(readyqueue') : prio[t] <= prio[current']
  <2>1. /\ readyqueue' \in Seq(Task) /\ IsInjective(readyqueue')
        /\ ToSet(readyqueue') = ToSet(rdy) \ {current'}
    BY <1>3, RemoveAtQueue
  <2>2. rdy[i] \in Task /\ rdy[i] \in ToSet(rdy) /\ rdy # <<>>
    BY LenProperties, ElementOfSeq, EmptySeq DEF ToSet
  <2>3. \A t \in ToSet(rdy) : prio[t] <= prio[rdy[i]]
    BY <1>3 DEF FirstOfHighest, ToSet
  <2> QED
    BY <1>3, <2>1, <2>2, <2>3 DEF States
<1> QED
  BY <1>1, <1>2, <1>3 DEF sched_next_rr, task_switch, get_quantum

(***************************************************************************)
(* The steps.  Each lemma first says what the action does to the sets of   *)
(* queued tasks, and concludes from that.                                  *)
(***************************************************************************)
LEMMA RequeueInv ==
  ASSUME SchedInv, current # Idle, NEW prio \in [Task -> Priorities \cup {-1}],
         force_task_switch(prio)
  PROVE  /\ current' \in Task \ {Idle}
         /\ current' \in ToSet(readyqueue) \cup {current}
         /\ readyqueue' \in Seq(Task) /\ IsInjective(readyqueue')
         /\ ToSet(readyqueue') = (ToSet(readyqueue) \cup {current}) \ {current'}
         /\ state' \in [Task -> States]
         /\ state' = [[state EXCEPT ![current] = "READY"] EXCEPT ![current'] = "RUN"]
         /\ \A t \in ToSet(readyqueue') : prio[t] <= prio[current']
         /\ remaining_quantum' \in 1 .. Quantum
<1> DEFINE rdy == Append(readyqueue, current)
           st  == [state EXCEPT ![current] = "READY"]
<1>1. /\ readyqueue \in Seq(Task) /\ IsInjective(readyqueue) /\ current \in Task
      /\ current \notin ToSet(readyqueue) /\ Idle \notin ToSet(readyqueue)
      /\ state \in [Task -> States]
  BY DEF SchedInv, TypeOK, QueuesApart, OnePlace, States
<1>2. /\ rdy \in Seq(Task) /\ IsInjective(rdy) /\ rdy # <<>>
      /\ ToSet(rdy) = ToSet(readyqueue) \cup {current}
  BY <1>1, AppendQueue
<1>3. st \in [Task -> States]
  BY <1>1 DEF States
<1>4. Idle \notin ToSet(rdy)
  BY <1>1, <1>2
<1>5. sched_next_rr(rdy, st, prio)
  BY DEF force_task_switch
<1> HIDE DEF rdy, st
<1>6. /\ current' \in Task /\ current' \in ToSet(rdy) \cup {Idle}
      /\ current' = Idle <=> rdy = <<>>
      /\ readyqueue' \in Seq(Task) /\ IsInjective(readyqueue')
      /\ ToSet(readyqueue') = ToSet(rdy) \ {current'}
      /\ state' \in [Task -> States]
      /\ state' = [st EXCEPT ![current'] = "RUN"]
      /\ \A t \in ToSet(readyqueue') : prio[t] <= prio[current']
      /\ remaining_quantum' \in 1 .. Quantum
  BY <1>2, <1>3, <1>4, <1>5, SchedNext
<1> QED
  BY <1>2, <1>6 DEF st

(***************************************************************************)
(* The part of the type invariant about what is in no queue.               *)
(***************************************************************************)
RestOK ==
  /\ priority \in [Task -> Priorities \cup {-1}]
  /\ \A t \in Task : priority[t] = -1 <=> t = Idle
  /\ unpause_tick \in [Task -> {NotArmed} \cup 0 .. MaxPause]
  /\ cursor \in [Task -> Position]
  /\ reaping \in BOOLEAN
  /\ crashed \in BOOLEAN

LEMMA InvFacts ==
  ASSUME SchedInv
  PROVE  /\ RestOK
         /\ state \in [Task -> States] /\ current \in Task
         /\ leaked \subseteq Task /\ remaining_quantum \in 1 .. Quantum
         /\ readyqueue \in Seq(Task) /\ IsInjective(readyqueue)
         /\ blocked \in Seq(Task) /\ IsInjective(blocked)
         /\ freequeue \in Seq(Task) /\ IsInjective(freequeue)
         /\ ToSet(readyqueue) \subseteq Task
         /\ ToSet(blocked) \subseteq Task
         /\ ToSet(freequeue) \subseteq Task
BY ToSetIn DEF SchedInv, TypeOK, RestOK, States, QueuesApart, OnePlace

(***************************************************************************)
(* Idle never runs beside a ready task: every ready task has a priority    *)
(* of at least 0, which is above idle's.                                   *)
(***************************************************************************)
LEMMA IdleNeverBesideReady ==
  TypeOK /\ HighestPriorityRuns /\ Idle \notin ToSet(readyqueue)
    => IdleOnlyWhenNothingReady
<1> SUFFICES ASSUME TypeOK, HighestPriorityRuns, Idle \notin ToSet(readyqueue),
                    current = Idle, readyqueue # <<>>
             PROVE  FALSE
  BY DEF IdleOnlyWhenNothingReady
<1>1. readyqueue \in Seq(Task)
  BY DEF TypeOK
<1>2. PICK t \in ToSet(readyqueue) : TRUE
  <2>1. 1 \in DOMAIN readyqueue
    BY <1>1, EmptySeq, LenProperties
  <2> QED
    BY <2>1 DEF ToSet
<1>3. t \in Task /\ t # Idle /\ Idle \in Task
  BY <1>1, <1>2, ToSetIn, TaskFacts
<1>4. priority[t] <= -1
  BY <1>2, <1>3 DEF HighestPriorityRuns, TypeOK
<1>5. priority[t] \in Nat
  BY <1>3, SchedulerAssumption DEF TypeOK
<1> QED
  BY <1>4, <1>5

LEMMA IdleAlone == SchedInv => IdleOnlyWhenNothingReady
BY IdleNeverBesideReady DEF SchedInv, QueuesApart, OnePlace

(***************************************************************************)
(* A step that moves no task.                                              *)
(***************************************************************************)
LEMMA NoMove ==
  ASSUME SchedInv, RestOK',
         UNCHANGED <<current, state, readyqueue, blocked, freequeue, leaked>>,
         remaining_quantum' \in 1 .. Quantum,
         \A t \in ToSet(readyqueue) : priority'[t] <= priority'[current]
  PROVE  SchedInv'
<1>1. TypeOK'
  BY DEF SchedInv, TypeOK, RestOK
<1>2. OnePlace'
  BY DEF SchedInv, OnePlace, QueuesApart
<1>3. StateMatchesQueue'
  BY DEF SchedInv, StateMatchesQueue, QueuesApart, Lost
<1>4. HighestPriorityRuns'
  BY DEF HighestPriorityRuns
<1> QED
  BY <1>1, <1>2, <1>3, <1>4 DEF SchedInv, QueuesApart

(***************************************************************************)
(* A step that only requeues current: yield, the end of a quantum, and     *)
(* SetPriority below a ready task.                                         *)
(***************************************************************************)
LEMMA RequeueStep ==
  ASSUME SchedInv, RestOK', current # Idle, force_task_switch(priority'),
         UNCHANGED <<blocked, freequeue, leaked>>
  PROVE  SchedInv'
<1> USE DEF SchedInv
<1>1. priority' \in [Task -> Priorities \cup {-1}]
  BY DEF RestOK
<1>2. /\ current' \in Task \ {Idle}
      /\ current' \in ToSet(readyqueue) \cup {current}
      /\ readyqueue' \in Seq(Task) /\ IsInjective(readyqueue')
      /\ ToSet(readyqueue') = (ToSet(readyqueue) \cup {current}) \ {current'}
      /\ state' \in [Task -> States]
      /\ state' = [[state EXCEPT ![current] = "READY"] EXCEPT ![current'] = "RUN"]
      /\ \A t \in ToSet(readyqueue') : priority'[t] <= priority'[current']
      /\ remaining_quantum' \in 1 .. Quantum
  BY <1>1, RequeueInv
<1>3. TypeOK'
  BY <1>2 DEF TypeOK, RestOK, States
<1>4. /\ ToSet(blocked') = ToSet(blocked) /\ IsInjective(blocked')
      /\ ToSet(freequeue') = ToSet(freequeue) /\ IsInjective(freequeue')
      /\ leaked' = leaked
  BY DEF OnePlace, QueuesApart
<1>5. OnePlace'
  BY <1>2, <1>4 DEF OnePlace, QueuesApart
<1>6. StateMatchesQueue'
  <2>1. Lost' \subseteq Lost
    BY <1>2, <1>4 DEF Lost
  <2>2. state'[current'] = "RUN"
    BY <1>2, InvFacts
  <2>3. \A t \in ToSet(readyqueue') : state'[t] = "READY"
    BY <1>2, InvFacts DEF QueuesApart, StateMatchesQueue
  <2>4. \A t \in ToSet(blocked') : state'[t] = "BLOCKED"
    BY <1>2, <1>4, InvFacts DEF QueuesApart, StateMatchesQueue, OnePlace
  <2>5. \A t \in Lost' : state'[t] = "RUN"
    BY <1>2, <2>1, InvFacts DEF QueuesApart, StateMatchesQueue, Lost
  <2> QED
    BY <2>2, <2>3, <2>4, <2>5 DEF StateMatchesQueue
<1>7. HighestPriorityRuns'
  BY <1>2 DEF HighestPriorityRuns
<1> QED
  BY <1>3, <1>5, <1>6, <1>7 DEF QueuesApart

LEMMA ClockInterruptInv == SchedInv /\ ClockInterrupt => SchedInv'
<1> SUFFICES ASSUME SchedInv, ClockInterrupt PROVE SchedInv'
  OBVIOUS
<1>1. (IF blocked = <<>> THEN ListHead ELSE Head(blocked)) \in Position
  BY InvFacts, HeadTailProperties DEF Position
<1>2. RestOK'
  BY <1>1, InvFacts DEF ClockInterrupt, RestOK
<1> QED
  BY <1>2, InvFacts, NoMove
     DEF ClockInterrupt, queues, SchedInv, HighestPriorityRuns

LEMMA StrayCursorInv == SchedInv /\ StrayCursor => SchedInv'
<1> SUFFICES ASSUME SchedInv, StrayCursor PROVE SchedInv'
  OBVIOUS
<1>1. RestOK'
  BY InvFacts DEF StrayCursor, RestOK
<1> QED
  BY <1>1, InvFacts, NoMove
     DEF StrayCursor, queues, SchedInv, HighestPriorityRuns

LEMMA TscTickInv == SchedInv /\ TscTick => SchedInv'
<1> SUFFICES ASSUME SchedInv, TscTick PROVE SchedInv'
  OBVIOUS
<1>1. unpause_tick' \in [Task -> {NotArmed} \cup 0 .. MaxPause]
  <2>1. \A t \in Task : unpause_tick[t] \in {NotArmed} \cup 0 .. MaxPause
    BY InvFacts DEF RestOK
  <2>2. \A k \in {NotArmed} \cup 0 .. MaxPause :
          (IF k > 0 THEN k - 1 ELSE k) \in {NotArmed} \cup 0 .. MaxPause
    BY SchedulerAssumption DEF NotArmed
  <2> QED
    BY <2>1, <2>2 DEF TscTick
<1>2. RestOK'
  BY <1>1, InvFacts DEF TscTick, RestOK
<1> QED
  BY <1>2, InvFacts, NoMove
     DEF TscTick, queues, SchedInv, HighestPriorityRuns

LEMMA ScheduleInv == SchedInv /\ Schedule => SchedInv'
<1> SUFFICES ASSUME SchedInv, Schedule PROVE SchedInv'
  OBVIOUS
<1>1. RestOK'
  BY InvFacts DEF Schedule, RestOK, Position
<1>2. CASE /\ remaining_quantum = 1 /\ needs_sched_rr
           /\ force_task_switch(priority)
  <2>1. current # Idle
    <3>1. readyqueue # <<>>
      BY <1>2, EmptySeq DEF needs_sched_rr, ToSet
    <3> QED
      BY <3>1, IdleAlone DEF IdleOnlyWhenNothingReady
  <2>2. force_task_switch(priority')
    BY <1>2 DEF Schedule
  <2> QED
    BY <1>1, <2>1, <2>2, RequeueStep DEF Schedule
<1>3. CASE UNCHANGED <<current, state, readyqueue>>
           /\ remaining_quantum' \in 1 .. Quantum
  BY <1>1, <1>3, NoMove DEF Schedule, SchedInv, HighestPriorityRuns
<1>4. remaining_quantum = 1 \/ remaining_quantum - 1 \in 1 .. Quantum
  BY InvFacts, SchedulerAssumption
<1> QED
  BY <1>2, <1>3, <1>4, SchedulerAssumption DEF Schedule, get_quantum

LEMMA YieldInv == SchedInv /\ Yield => SchedInv'
<1> SUFFICES ASSUME SchedInv, Yield PROVE SchedInv'
  OBVIOUS
<1>1. RestOK'
  BY InvFacts DEF Yield, RestOK, Position
<1>2. current # Idle /\ force_task_switch(priority')
  BY DEF Yield, Calling
<1> QED
  BY <1>1, <1>2, RequeueStep DEF Yield

LEMMA SetPriorityInv ==
  ASSUME SchedInv, NEW p \in Priorities, SetPriority(p)
  PROVE  SchedInv'
<1>1. current # Idle /\ priority' = [priority EXCEPT ![current] = p]
  BY DEF SetPriority, Calling
<1>2. p \in Nat /\ p # -1
  BY SchedulerAssumption
<1>3. RestOK'
  BY <1>1, <1>2, InvFacts DEF SetPriority, RestOK, Position
<1>4. CASE \E t \in ToSet(readyqueue) : priority'[t] > p
  BY <1>1, <1>3, <1>4, RequeueStep DEF SetPriority
<1>5. CASE ~ \E t \in ToSet(readyqueue) : priority'[t] > p
  <2>1. \A t \in ToSet(readyqueue) : priority'[t] <= priority'[current]
    <3> SUFFICES ASSUME NEW t \in ToSet(readyqueue)
                 PROVE  priority'[t] <= priority'[current]
      OBVIOUS
    <3>1. priority'[current] = p
      BY <1>1, InvFacts DEF RestOK
    <3>2. priority'[t] \in Nat \cup {-1}
      BY <1>3, InvFacts, SchedulerAssumption DEF RestOK
    <3> QED
      BY <1>2, <1>5, <3>1, <3>2
  <2> QED
    BY <1>1, <1>3, <1>5, <2>1, InvFacts, NoMove DEF SetPriority
<1> QED
  BY <1>4, <1>5

(***************************************************************************)
(* The caller of pause or of a semWait that must wait.                     *)
(***************************************************************************)
LEMMA BlockCurrentInv ==
  ASSUME SchedInv, RestOK', current # Idle, BlockCurrent
  PROVE  SchedInv'
<1> USE DEF SchedInv
<1>1. /\ blocked' \in Seq(Task) /\ IsInjective(blocked')
      /\ ToSet(blocked') = ToSet(blocked) \cup {current}
  <2>1. current \notin ToSet(blocked)
    BY DEF QueuesApart, OnePlace
  <2> QED
    BY <2>1, InvFacts, AppendQueue DEF BlockCurrent
<1> DEFINE st == [state EXCEPT ![current] = "BLOCKED"]
<1>2. st \in [Task -> States] /\ Idle \notin ToSet(readyqueue)
  BY InvFacts DEF States, QueuesApart, OnePlace
<1>3. /\ current' \in Task /\ current' \in ToSet(readyqueue) \cup {Idle}
      /\ readyqueue' \in Seq(Task) /\ IsInjective(readyqueue')
      /\ ToSet(readyqueue') = ToSet(readyqueue) \ {current'}
      /\ state' \in [Task -> States]
      /\ state' = [st EXCEPT ![current'] = "RUN"]
      /\ \A t \in ToSet(readyqueue') : priority[t] <= priority[current']
      /\ remaining_quantum' \in 1 .. Quantum
  <2>1. sched_next_rr(readyqueue, st, priority)
    BY DEF BlockCurrent
  <2> HIDE DEF st
  <2> QED
    BY <1>2, <2>1, InvFacts, SchedNext
<1>4. /\ freequeue' = freequeue /\ leaked' = leaked /\ priority' = priority
  BY DEF BlockCurrent
<1>5. TypeOK'
  BY <1>1, <1>3, <1>4 DEF TypeOK, RestOK, States
<1>6. OnePlace'
  BY <1>1, <1>3, <1>4 DEF OnePlace, QueuesApart
<1>7. StateMatchesQueue'
  <2>1. Lost' \subseteq Lost
    BY <1>1, <1>3, <1>4 DEF Lost
  <2>2. state'[current'] = "RUN"
    BY <1>2, <1>3
  <2>3. \A t \in ToSet(readyqueue') : state'[t] = "READY"
    BY <1>3, InvFacts DEF QueuesApart, StateMatchesQueue, OnePlace
  <2>4. \A t \in ToSet(blocked') : state'[t] = "BLOCKED"
    BY <1>1, <1>3, InvFacts DEF QueuesApart, StateMatchesQueue, OnePlace
  <2>5. \A t \in Lost' : state'[t] = "RUN"
    BY <1>3, <2>1, InvFacts DEF QueuesApart, StateMatchesQueue, Lost
  <2> QED
    BY <2>2, <2>3, <2>4, <2>5 DEF StateMatchesQueue
<1>8. HighestPriorityRuns'
  BY <1>3, <1>4 DEF HighestPriorityRuns
<1> QED
  BY <1>5, <1>6, <1>7, <1>8 DEF QueuesApart

LEMMA PauseInv ==
  ASSUME SchedInv, NEW k \in 1 .. MaxPause, Pause(k)
  PROVE  SchedInv'
<1>1. current # Idle
  BY DEF Pause, Calling
<1>2. unpause_tick' \in [Task -> {NotArmed} \cup 0 .. MaxPause]
  BY InvFacts, SchedulerAssumption DEF Pause, RestOK
<1>3. RestOK'
  BY <1>2, InvFacts DEF Pause, BlockCurrent, RestOK, Position
<1> QED
  BY <1>1, <1>3, BlockCurrentInv DEF Pause

LEMMA SemBlockInv == SchedInv /\ SemBlock => SchedInv'
<1> SUFFICES ASSUME SchedInv, SemBlock PROVE SchedInv'
  OBVIOUS
<1>1. RestOK'
  BY InvFacts DEF SemBlock, BlockCurrent, RestOK, Position
<1> QED
  BY <1>1, BlockCurrentInv DEF SemBlock, Calling

(***************************************************************************)
(* The three outcomes of clone: the first free struct becomes ready,       *)
(* returns to the tail of freequeue, or is lost to every queue.            *)
(***************************************************************************)
LEMMA CopyToOK ==
  ASSUME SchedInv, current # Idle, freequeue # <<>>, CopyTo(Head(freequeue)),
         UNCHANGED <<reaping, crashed>>
  PROVE  /\ RestOK'
         /\ priority' = [priority EXCEPT ![Head(freequeue)] = priority[current]]
<1>1. Head(freequeue) \in Task /\ Head(freequeue) # Idle
  BY InvFacts, TailQueue DEF SchedInv, QueuesApart, OnePlace
<1>2. /\ priority[current] \in Priorities \cup {-1} /\ priority[current] # -1
      /\ unpause_tick[current] \in {NotArmed} \cup 0 .. MaxPause
      /\ NotInLoop \in Position
  BY InvFacts DEF RestOK, Position
<1>3. priority' \in [Task -> Priorities \cup {-1}]
      /\ \A t \in Task : priority'[t] = -1 <=> t = Idle
  BY <1>1, <1>2, InvFacts DEF CopyTo, RestOK
<1>4. unpause_tick' \in [Task -> {NotArmed} \cup 0 .. MaxPause]
  BY <1>1, <1>2, InvFacts DEF CopyTo, RestOK
<1>5. cursor' \in [Task -> Position]
  BY <1>1, <1>2, InvFacts DEF CopyTo, RestOK
<1> QED
  BY <1>3, <1>4, <1>5, InvFacts DEF RestOK, CopyTo

LEMMA CloneInv == SchedInv /\ Clone => SchedInv'
<1> SUFFICES ASSUME SchedInv, Clone PROVE SchedInv'
  OBVIOUS
<1> USE DEF SchedInv
<1> DEFINE c == Head(freequeue)
<1>1. /\ c \in Task /\ c \in ToSet(freequeue)
      /\ freequeue' \in Seq(Task) /\ IsInjective(freequeue')
      /\ ToSet(freequeue') = ToSet(freequeue) \ {c}
  BY InvFacts, TailQueue DEF Clone
<1>2. c \notin ToSet(readyqueue) \cup ToSet(blocked) \cup leaked \cup {current, Idle}
  BY <1>1 DEF QueuesApart, OnePlace
<1>3. /\ RestOK'
      /\ priority' = [priority EXCEPT ![c] = priority[current]]
  BY CopyToOK DEF Clone, Calling
<1>4. /\ state' = [state EXCEPT ![c] = "READY"]
      /\ readyqueue' = Append(readyqueue, c)
      /\ current' = current /\ blocked' = blocked /\ leaked' = leaked
      /\ remaining_quantum' = remaining_quantum
  BY DEF Clone
<1> HIDE DEF c
<1>5. /\ readyqueue' \in Seq(Task) /\ IsInjective(readyqueue')
      /\ ToSet(readyqueue') = ToSet(readyqueue) \cup {c}
  BY <1>1, <1>2, <1>4, InvFacts, AppendQueue
<1>6. TypeOK'
  BY <1>1, <1>3, <1>4, <1>5, InvFacts DEF TypeOK, RestOK, States
<1>7. OnePlace'
  BY <1>1, <1>2, <1>4, <1>5 DEF OnePlace, QueuesApart
<1>8. StateMatchesQueue'
  <2>1. Lost' \subseteq Lost
    BY <1>1, <1>4, <1>5 DEF Lost
  <2> QED
    BY <1>1, <1>2, <1>4, <1>5, <2>1, InvFacts
       DEF StateMatchesQueue, QueuesApart, Lost
<1>9. HighestPriorityRuns'
  <2>1. priority'[current] = priority[current] /\ priority[current] \in Int
        /\ priority'[c] = priority[current]
        /\ \A t \in ToSet(readyqueue) : priority'[t] = priority[t]
    <3>1. priority \in [Task -> Priorities \cup {-1}]
      BY InvFacts DEF RestOK
    <3>2. priority[current] \in Int
      <4>1. priority[current] \in Priorities \cup {-1}
        BY <3>1, InvFacts
      <4> QED
        BY <4>1, PriorityInt
    <3> QED
      BY <1>1, <1>2, <1>3, <3>1, <3>2, InvFacts
  <2> QED
    BY <1>4, <1>5, <2>1 DEF HighestPriorityRuns
<1> QED
  BY <1>6, <1>7, <1>8, <1>9 DEF QueuesApart

LEMMA CloneNoFramesInv == SchedInv /\ CloneNoFrames => SchedInv'
<1> SUFFICES ASSUME SchedInv, CloneNoFrames PROVE SchedInv'
  OBVIOUS
<1> USE DEF SchedInv
<1> DEFINE c == Head(freequeue)
<1>1. /\ c \in Task /\ c \in ToSet(freequeue)
      /\ freequeue' \in Seq(Task) /\ IsInjective(freequeue')
      /\ ToSet(freequeue') = ToSet(freequeue)
  <2>1. /\ c \in Task /\ c \in ToSet(freequeue)
        /\ Tail(freequeue) \in Seq(Task) /\ IsInjective(Tail(freequeue))
        /\ ToSet(Tail(freequeue)) = ToSet(freequeue) \ {c}
    BY InvFacts, TailQueue DEF CloneNoFrames
  <2>2. freequeue' = Append(Tail(freequeue), c)
    BY DEF CloneNoFrames
  <2> HIDE DEF c
  <2>3. /\ freequeue' \in Seq(Task) /\ IsInjective(freequeue')
        /\ ToSet(freequeue') = ToSet(Tail(freequeue)) \cup {c}
    <3>1. c \notin ToSet(Tail(freequeue))
      BY <2>1
    <3> DEFINE q == Tail(freequeue)
    <3>2. q \in Seq(Task) /\ IsInjective(q) /\ c \notin ToSet(q) /\ c \in Task
          /\ freequeue' = Append(q, c)
      BY <2>1, <2>2, <3>1
    <3> HIDE DEF q
    <3>3. /\ freequeue' \in Seq(Task) /\ IsInjective(freequeue')
          /\ ToSet(freequeue') = ToSet(q) \cup {c}
      BY <3>2, AppendQueue
    <3> QED
      BY <3>3 DEF q
  <2> QED
    BY <2>1, <2>3
<1>2. c \notin ToSet(readyqueue) \cup ToSet(blocked) \cup leaked \cup {current, Idle}
  BY <1>1 DEF QueuesApart, OnePlace
<1>3. /\ RestOK'
      /\ priority' = [priority EXCEPT ![c] = priority[current]]
  BY CopyToOK DEF CloneNoFrames, Calling
<1>4. /\ state' = [state EXCEPT ![c] = state[current]]
      /\ readyqueue' = readyqueue /\ current' = current
      /\ blocked' = blocked /\ leaked' = leaked
      /\ remaining_quantum' = remaining_quantum
  BY DEF CloneNoFrames
<1> HIDE DEF c
<1>5. TypeOK'
  BY <1>1, <1>3, <1>4, InvFacts DEF TypeOK, RestOK, States
<1>6. OnePlace'
  BY <1>1, <1>4 DEF OnePlace, QueuesApart
<1>7. StateMatchesQueue'
  <2>1. Lost' = Lost
    BY <1>1, <1>4 DEF Lost
  <2> QED
    BY <1>1, <1>2, <1>4, <2>1, InvFacts
       DEF StateMatchesQueue, QueuesApart, Lost
<1>8. HighestPriorityRuns'
  BY <1>2, <1>3, <1>4, InvFacts DEF HighestPriorityRuns, RestOK
<1> QED
  BY <1>5, <1>6, <1>7, <1>8 DEF QueuesApart

LEMMA CloneNoPagesInv == SchedInv /\ CloneNoPages => SchedInv'
<1> SUFFICES ASSUME SchedInv, CloneNoPages PROVE SchedInv'
  OBVIOUS
<1> USE DEF SchedInv
<1> DEFINE c == Head(freequeue)
<1>1. /\ c \in Task /\ c \in ToSet(freequeue)
      /\ freequeue' \in Seq(Task) /\ IsInjective(freequeue')
      /\ ToSet(freequeue') = ToSet(freequeue) \ {c}
  BY InvFacts, TailQueue DEF CloneNoPages
<1>2. c \notin ToSet(readyqueue) \cup ToSet(blocked) \cup leaked \cup {current, Idle}
  BY <1>1 DEF QueuesApart, OnePlace
<1>3. /\ RestOK'
      /\ priority' = [priority EXCEPT ![c] = priority[current]]
  BY CopyToOK DEF CloneNoPages, Calling
<1>4. /\ state' = [state EXCEPT ![c] = state[current]]
      /\ readyqueue' = readyqueue /\ current' = current
      /\ blocked' = blocked /\ leaked' = leaked \cup {c}
      /\ remaining_quantum' = remaining_quantum
  BY DEF CloneNoPages
<1> HIDE DEF c
<1>5. TypeOK'
  BY <1>1, <1>3, <1>4, InvFacts DEF TypeOK, RestOK, States
<1>6. OnePlace'
  BY <1>1, <1>2, <1>4 DEF OnePlace, QueuesApart
<1>7. StateMatchesQueue'
  <2>1. Lost' \subseteq Lost
    BY <1>1, <1>4 DEF Lost
  <2> QED
    BY <1>1, <1>2, <1>4, <2>1, InvFacts
       DEF StateMatchesQueue, QueuesApart, Lost
<1>8. HighestPriorityRuns'
  BY <1>2, <1>3, <1>4, InvFacts DEF HighestPriorityRuns, RestOK
<1> QED
  BY <1>5, <1>6, <1>7, <1>8 DEF QueuesApart

(***************************************************************************)
(* The end of sys_exit and of sys_pthread_exit.                            *)
(***************************************************************************)
LEMMA ExitInv == SchedInv /\ Exit => SchedInv'
<1> SUFFICES ASSUME SchedInv, Exit PROVE SchedInv'
  OBVIOUS
<1> USE DEF SchedInv
<1>1. current # Idle /\ current \in Task /\ current \notin ToSet(freequeue)
  BY InvFacts DEF Exit, Exiting, QueuesApart, OnePlace
<1>2. /\ freequeue' \in Seq(Task) /\ IsInjective(freequeue')
      /\ ToSet(freequeue') = ToSet(freequeue) \cup {current}
  BY <1>1, InvFacts, AppendQueue DEF Exit
<1>3. /\ current' \in Task /\ current' \in ToSet(readyqueue) \cup {Idle}
      /\ readyqueue' \in Seq(Task) /\ IsInjective(readyqueue')
      /\ ToSet(readyqueue') = ToSet(readyqueue) \ {current'}
      /\ state' \in [Task -> States]
      /\ state' = [state EXCEPT ![current'] = "RUN"]
      /\ \A t \in ToSet(readyqueue') : priority[t] <= priority[current']
      /\ remaining_quantum' \in 1 .. Quantum
  <2>1. sched_next_rr(readyqueue, state, priority) /\ Idle \notin ToSet(readyqueue)
    BY DEF Exit, QueuesApart, OnePlace
  <2> QED
    BY <2>1, InvFacts, SchedNext
<1>4. blocked' = blocked /\ leaked' = leaked /\ priority' = priority
  BY DEF Exit
<1>5. RestOK'
  BY InvFacts DEF Exit, RestOK, Position
<1>6. TypeOK'
  BY <1>2, <1>3, <1>4, <1>5, InvFacts DEF TypeOK, RestOK, States
<1>7. OnePlace'
  BY <1>1, <1>2, <1>3, <1>4 DEF OnePlace, QueuesApart
<1>8. StateMatchesQueue'
  <2>1. Lost' \subseteq Lost
    BY <1>2, <1>3, <1>4 DEF Lost
  <2> QED
    BY <1>3, <1>4, <2>1, InvFacts
       DEF StateMatchesQueue, QueuesApart, OnePlace, Lost
<1>9. HighestPriorityRuns'
  BY <1>3, <1>4 DEF HighestPriorityRuns
<1> QED
  BY <1>6, <1>7, <1>8, <1>9 DEF QueuesApart

(***************************************************************************)
(* sys_exit of a master kills a thread that is ready, blocked or lost.     *)
(***************************************************************************)
LEMMA ExitKillsInv == SchedInv /\ ExitKills => SchedInv'
<1> SUFFICES ASSUME SchedInv, ExitKills PROVE SchedInv'
  OBVIOUS
<1> USE DEF SchedInv
<1>1. /\ RestOK' /\ current' = current /\ state' = state
      /\ leaked' = leaked /\ priority' = priority
      /\ remaining_quantum' = remaining_quantum
  BY InvFacts DEF ExitKills, RestOK, Position
<1>2. ASSUME NEW t \in Task \ (ToSet(freequeue) \cup leaked \cup {current, Idle}),
             freequeue' = Append(freequeue, t),
             readyqueue' \in Seq(Task), IsInjective(readyqueue'),
             ToSet(readyqueue') = ToSet(readyqueue) \ {t},
             blocked' \in Seq(Task), IsInjective(blocked'),
             ToSet(blocked') = ToSet(blocked) \ {t}
      PROVE  SchedInv'
  <2>1. /\ freequeue' \in Seq(Task) /\ IsInjective(freequeue')
        /\ ToSet(freequeue') = ToSet(freequeue) \cup {t}
    BY <1>2, InvFacts, AppendQueue
  <2>2. TypeOK'
    BY <1>1, <1>2, <2>1, InvFacts DEF TypeOK, RestOK, States
  <2>3. OnePlace'
    BY <1>1, <1>2, <2>1 DEF OnePlace, QueuesApart
  <2>4. StateMatchesQueue'
    <3>1. Lost' \subseteq Lost
      BY <1>1, <1>2, <2>1 DEF Lost
    <3> QED
      BY <1>1, <1>2, <3>1 DEF StateMatchesQueue, QueuesApart
  <2>5. HighestPriorityRuns'
    BY <1>1, <1>2 DEF HighestPriorityRuns
  <2> QED
    BY <2>2, <2>3, <2>4, <2>5 DEF QueuesApart
<1>3. ASSUME NEW i \in DOMAIN readyqueue,
             readyqueue' = RemoveAt(readyqueue, i),
             freequeue' = Append(freequeue, readyqueue[i]),
             UNCHANGED blocked
      PROVE  SchedInv'
  <2>1. readyqueue[i] \in ToSet(readyqueue)
    BY InvFacts, ToSetIn
  <2>2. /\ readyqueue[i] \in Task \ (ToSet(freequeue) \cup leaked \cup {current, Idle})
        /\ readyqueue[i] \notin ToSet(blocked)
    BY <2>1, InvFacts DEF QueuesApart, OnePlace
  <2>3. /\ readyqueue' \in Seq(Task) /\ IsInjective(readyqueue')
        /\ ToSet(readyqueue') = ToSet(readyqueue) \ {readyqueue[i]}
    BY <1>3, InvFacts, RemoveAtQueue
  <2>4. /\ blocked' \in Seq(Task) /\ IsInjective(blocked')
        /\ ToSet(blocked') = ToSet(blocked) \ {readyqueue[i]}
    BY <1>3, <2>2, InvFacts
  <2> QED
    BY <1>2, <1>3, <2>2, <2>3, <2>4
<1>4. ASSUME NEW i \in DOMAIN blocked,
             blocked' = RemoveAt(blocked, i),
             freequeue' = Append(freequeue, blocked[i]),
             UNCHANGED readyqueue
      PROVE  SchedInv'
  <2>1. blocked[i] \in ToSet(blocked)
    BY InvFacts, ToSetIn
  <2>2. /\ blocked[i] \in Task \ (ToSet(freequeue) \cup leaked \cup {current, Idle})
        /\ blocked[i] \notin ToSet(readyqueue)
    BY <2>1, InvFacts DEF QueuesApart, OnePlace
  <2>3. /\ blocked' \in Seq(Task) /\ IsInjective(blocked')
        /\ ToSet(blocked') = ToSet(blocked) \ {blocked[i]}
    BY <1>4, InvFacts, RemoveAtQueue
  <2>4. /\ readyqueue' \in Seq(Task) /\ IsInjective(readyqueue')
        /\ ToSet(readyqueue') = ToSet(readyqueue) \ {blocked[i]}
    BY <1>4, <2>2, InvFacts
  <2> QED
    BY <1>2, <1>4, <2>2, <2>3, <2>4
<1>5. ASSUME NEW t \in Lost, freequeue' = Append(freequeue, t),
             UNCHANGED <<readyqueue, blocked>>
      PROVE  SchedInv'
  <2>1. /\ t \in Task \ (ToSet(freequeue) \cup leaked \cup {current, Idle})
        /\ t \notin ToSet(readyqueue) /\ t \notin ToSet(blocked)
    BY DEF Lost
  <2>2. /\ readyqueue' \in Seq(Task) /\ IsInjective(readyqueue')
        /\ ToSet(readyqueue') = ToSet(readyqueue) \ {t}
        /\ blocked' \in Seq(Task) /\ IsInjective(blocked')
        /\ ToSet(blocked') = ToSet(blocked) \ {t}
    BY <1>5, <2>1, InvFacts
  <2> QED
    BY <1>2, <1>5, <2>1, <2>2
<1>6. ASSUME UNCHANGED <<readyqueue, blocked, freequeue>>
      PROVE  SchedInv'
  BY <1>1, <1>6, InvFacts, NoMove DEF HighestPriorityRuns
<1> QED
  BY <1>3, <1>4, <1>5, <1>6 DEF ExitKills

(***************************************************************************)
(* The clock's walk makes a task ready, whatever queue it comes from.      *)
(***************************************************************************)
LEMMA MakeReadyFacts ==
  ASSUME SchedInv, NEW e \in Task \ {current, Idle},
         NEW queue \in Seq(Task), IsInjective(queue),
         ToSet(queue) = ToSet(readyqueue) \ {e},
         MakeReady(queue, e)
  PROVE  /\ current' \in Task
         /\ readyqueue' \in Seq(Task) /\ IsInjective(readyqueue')
         /\ ToSet(readyqueue') = (ToSet(readyqueue) \cup {e}) \ {current'}
         /\ state' \in [Task -> States]
         /\ \/ current' = current /\ state' = [state EXCEPT ![e] = "READY"]
            \/ /\ current' \in ToSet(readyqueue) \cup {e}
               /\ priority[e] > priority[current]
               /\ state' = [[state EXCEPT ![e] = "READY"] EXCEPT ![current'] = "RUN"]
         /\ \A t \in ToSet(readyqueue') \cup {e} : priority[t] <= priority[current']
         /\ remaining_quantum' \in 1 .. Quantum
<1> USE DEF SchedInv
<1> DEFINE rdy == Append(queue, e)
           st  == [state EXCEPT ![e] = "READY"]
<1>1. /\ rdy \in Seq(Task) /\ IsInjective(rdy) /\ rdy # <<>>
      /\ ToSet(rdy) = ToSet(readyqueue) \cup {e}
      /\ Idle \notin ToSet(rdy)
  <2>1. /\ rdy \in Seq(Task) /\ IsInjective(rdy) /\ rdy # <<>>
        /\ ToSet(rdy) = ToSet(queue) \cup {e}
    BY AppendQueue
  <2>2. Idle \notin ToSet(readyqueue)
    BY DEF QueuesApart, OnePlace
  <2> QED
    BY <2>1, <2>2
<1>2. st \in [Task -> States]
  BY InvFacts DEF States
<1>3. \A t \in Task : priority[t] \in Int
  BY InvFacts, PriorityInt DEF RestOK
<1>4. current \in Task /\ current \notin ToSet(readyqueue)
  BY InvFacts DEF QueuesApart, OnePlace
<1>5. CASE /\ priority[e] > priority[current]
           /\ sched_next_rr(rdy, st, priority)
  <2> HIDE DEF rdy
  <2>1. /\ current' \in Task /\ current' \in ToSet(rdy)
        /\ readyqueue' \in Seq(Task) /\ IsInjective(readyqueue')
        /\ ToSet(readyqueue') = ToSet(rdy) \ {current'}
        /\ state' \in [Task -> States]
        /\ state' = [st EXCEPT ![current'] = "RUN"]
        /\ \A t \in ToSet(readyqueue') : priority[t] <= priority[current']
        /\ remaining_quantum' \in 1 .. Quantum
    BY <1>1, <1>2, <1>5, SchedNext
  <2>2. priority[e] <= priority[current']
    BY <1>1, <1>3, <2>1
  <2> QED
    BY <1>1, <1>5, <2>1, <2>2
<1>6. CASE /\ ~(priority[e] > priority[current])
           /\ readyqueue' = rdy
           /\ state' = st
           /\ UNCHANGED <<current, remaining_quantum>>
  <2> HIDE DEF rdy, st
  <2>1. priority[e] <= priority[current]
    BY <1>3, <1>4, <1>6
  <2>2. \A t \in ToSet(readyqueue) \cup {e} : priority[t] <= priority[current]
    BY <2>1 DEF HighestPriorityRuns
  <2>3. ToSet(readyqueue') = (ToSet(readyqueue) \cup {e}) \ {current'}
    BY <1>1, <1>4, <1>6
  <2>4. readyqueue' \in Seq(Task) /\ IsInjective(readyqueue')
        /\ state' \in [Task -> States] /\ current' = current /\ current \in Task
    BY <1>1, <1>2, <1>4, <1>6
  <2>5. remaining_quantum' \in 1 .. Quantum
    BY <1>6, InvFacts
  <2>6. \A t \in ToSet(readyqueue') \cup {e} : priority[t] <= priority[current']
    BY <2>2, <2>3, <2>4
  <2>7. state' = [state EXCEPT ![e] = "READY"]
    BY <1>6 DEF st
  <2> QED
    BY <2>3, <2>4, <2>5, <2>6, <2>7
<1> QED
  BY <1>5, <1>6 DEF MakeReady

(***************************************************************************)
(* A task that lives: when it preempts current, and current is not idle,   *)
(* current joins Lost, in state RUN.                                       *)
(***************************************************************************)
LEMMA MakeReadyInv ==
  ASSUME SchedInv, RestOK', UNCHANGED <<priority, freequeue, leaked>>,
         NEW e \in Task \ (ToSet(freequeue) \cup leaked \cup {current, Idle}),
         NEW queue \in Seq(Task), IsInjective(queue),
         ToSet(queue) = ToSet(readyqueue) \ {e},
         blocked' \in Seq(Task), IsInjective(blocked'),
         ToSet(blocked') = ToSet(blocked) \ {e},
         MakeReady(queue, e)
  PROVE  SchedInv'
<1> USE DEF SchedInv
<1>1. /\ current' \in Task
      /\ readyqueue' \in Seq(Task) /\ IsInjective(readyqueue')
      /\ ToSet(readyqueue') = (ToSet(readyqueue) \cup {e}) \ {current'}
      /\ state' \in [Task -> States]
      /\ \/ current' = current /\ state' = [state EXCEPT ![e] = "READY"]
         \/ /\ current' \in ToSet(readyqueue) \cup {e}
            /\ priority[e] > priority[current]
            /\ state' = [[state EXCEPT ![e] = "READY"] EXCEPT ![current'] = "RUN"]
      /\ \A t \in ToSet(readyqueue') \cup {e} : priority[t] <= priority[current']
      /\ remaining_quantum' \in 1 .. Quantum
  BY MakeReadyFacts
<1>2. TypeOK'
  BY <1>1, InvFacts DEF TypeOK, RestOK, States
<1>3. OnePlace'
  BY <1>1 DEF OnePlace, QueuesApart
<1>4. StateMatchesQueue'
  <2>1. state'[current'] = "RUN" /\ \A t \in Task \ {current', e} : state'[t] = state[t]
    BY <1>1, InvFacts DEF QueuesApart, StateMatchesQueue
  <2>2. e # current' => state'[e] = "READY"
    BY <1>1, InvFacts
  <2>3. Lost' \subseteq (Lost \cup {current}) \ {e, current'}
    BY <1>1 DEF Lost
  <2>4. \A t \in ToSet(readyqueue') : state'[t] = "READY"
    BY <1>1, <2>1, <2>2, InvFacts DEF QueuesApart, StateMatchesQueue
  <2>5. \A t \in ToSet(blocked') : state'[t] = "BLOCKED"
    BY <1>1, <2>1, InvFacts DEF QueuesApart, StateMatchesQueue, OnePlace
  <2>6. \A t \in Lost' : state'[t] = "RUN"
    BY <2>1, <2>3, InvFacts DEF QueuesApart, StateMatchesQueue, Lost
  <2> QED
    BY <2>1, <2>4, <2>5, <2>6 DEF StateMatchesQueue
<1>5. HighestPriorityRuns'
  BY <1>1 DEF HighestPriorityRuns
<1> QED
  BY <1>2, <1>3, <1>4, <1>5 DEF QueuesApart

LEMMA UnblockStepInv == SchedInv /\ UnblockStep => SchedInv'
<1> SUFFICES ASSUME SchedInv, UnblockStep PROVE SchedInv'
  OBVIOUS
<1>1. PICK i \in DOMAIN blocked :
        /\ cursor' = [cursor EXCEPT ![current] = Successor(i)]
        /\ \/ /\ Due(blocked[i])
              /\ blocked' = RemoveAt(blocked, i)
              /\ MakeReady(readyqueue, blocked[i])
           \/ /\ ~Due(blocked[i])
              /\ UNCHANGED <<current, state, readyqueue, blocked,
                             remaining_quantum>>
  BY DEF UnblockStep
<1>2. blocked[i] \in ToSet(blocked)
  BY InvFacts, ToSetIn
<1>3. Successor(i) \in Position
  <2>1. i \in 1 .. Len(blocked) /\ Len(blocked) \in Nat
    BY InvFacts, LenProperties
  <2>2. CASE i = Len(blocked)
    BY <2>2 DEF Successor, Position
  <2>3. CASE i # Len(blocked)
    <3>1. i + 1 \in 1 .. Len(blocked)
      BY <2>1, <2>3
    <3>2. blocked[i + 1] \in Task
      BY <3>1, InvFacts, ElementOfSeq
    <3> QED
      BY <2>3, <3>2 DEF Successor, Position
  <2> QED
    BY <2>2, <2>3
<1>4. RestOK'
  BY <1>1, <1>3, InvFacts DEF UnblockStep, RestOK
<1>5. UNCHANGED <<priority, freequeue, leaked>>
  BY DEF UnblockStep
<1>6. CASE blocked' = RemoveAt(blocked, i) /\ MakeReady(readyqueue, blocked[i])
  <2>1. blocked[i] \in Task \ (ToSet(readyqueue) \cup ToSet(freequeue)
                                 \cup leaked \cup {current, Idle})
    BY <1>2, InvFacts DEF SchedInv, QueuesApart, OnePlace
  <2>3. ToSet(readyqueue) = ToSet(readyqueue) \ {blocked[i]}
    BY <2>1
  <2>2. /\ blocked' \in Seq(Task) /\ IsInjective(blocked')
        /\ ToSet(blocked') = ToSet(blocked) \ {blocked[i]}
    BY <1>6, InvFacts, RemoveAtQueue
  <2> QED
    BY <1>4, <1>5, <1>6, <2>1, <2>2, <2>3, InvFacts, MakeReadyInv
<1>7. CASE UNCHANGED <<current, state, readyqueue, blocked, remaining_quantum>>
  BY <1>4, <1>5, <1>7, InvFacts, NoMove DEF SchedInv, HighestPriorityRuns
<1> QED
  BY <1>1, <1>6, <1>7

(* what list_del leaves of a queue *)
LEMMA UnlinkedQueue ==
  ASSUME NEW queue \in Seq(Task), IsInjective(queue), NEW e
  PROVE  /\ Unlinked(queue, e) \in Seq(Task) /\ IsInjective(Unlinked(queue, e))
         /\ ToSet(Unlinked(queue, e)) = IF state[e] = "RUN" THEN ToSet(queue)
                                        ELSE ToSet(queue) \ {e}
<1>1. CASE state[e] = "RUN" \/ e \notin ToSet(queue)
  BY <1>1 DEF Unlinked
<1>2. CASE state[e] # "RUN" /\ e \in ToSet(queue)
  <2> DEFINE i == CHOOSE i \in DOMAIN queue : queue[i] = e
  <2>1. \E k \in DOMAIN queue : queue[k] = e
    BY <1>2 DEF ToSet
  <2>2. i \in DOMAIN queue /\ queue[i] = e
    BY <2>1
  <2>3. Unlinked(queue, e) = RemoveAt(queue, i)
    BY <1>2 DEF Unlinked
  <2> HIDE DEF i
  <2> QED
    BY <1>2, <2>2, <2>3, RemoveAtQueue
<1> QED
  BY <1>1, <1>2

(***************************************************************************)
(* The walk stands on a task that is ready or lost, which is as good as a  *)
(* blocked one, or on a freed one, with which the model ends.              *)
(***************************************************************************)
LEMMA UnblockStrayInv == SchedInv /\ UnblockStray => SchedInv' \/ Gone'
<1> SUFFICES ASSUME SchedInv, UnblockStray PROVE SchedInv' \/ Gone'
  OBVIOUS
<1>1. PICK e \in Task \ ToSet(blocked), n \in Task \cup {NoTask} :
        /\ StrayNext(e, n)
        /\ cursor' = [cursor EXCEPT ![current] = n]
        /\ \/ /\ Due(e)
              /\ freequeue' = Unlinked(freequeue, e)
              /\ leaked' = leaked \ {e}
              /\ MakeReady(Unlinked(readyqueue, e), e)
              /\ crashed' = (e \in ToSet(freequeue) \cup leaked)
           \/ /\ ~Due(e)
              /\ UNCHANGED <<current, state, readyqueue, freequeue, leaked,
                             remaining_quantum, crashed>>
  BY DEF UnblockStray
<1>2. e \in Task \ {current, Idle}
  <2>1. e \in ToSet(readyqueue) \cup ToSet(freequeue) \cup Lost \cup leaked
    BY <1>1, InvFacts, ToSetIn DEF StrayNext, ToSet
  <2> QED
    BY <2>1 DEF Lost, SchedInv, QueuesApart, OnePlace
<1>3. UNCHANGED <<priority, blocked>> /\ n \in Position
  BY <1>1 DEF UnblockStray, Position
<1>4. RestOK'
  <2>1. cursor' \in [Task -> Position]
    <3>1. cursor' = [cursor EXCEPT ![current] = n]
      BY <1>1
    <3>2. cursor \in [Task -> Position]
      BY InvFacts DEF RestOK
    <3> QED
      BY <1>3, <3>1, <3>2
  <2>2. crashed' \in BOOLEAN
    <3>1. crashed \in BOOLEAN
      BY InvFacts DEF RestOK
    <3>2. CASE crashed' = (e \in ToSet(freequeue) \cup leaked)
      BY <3>2
    <3>3. CASE crashed' = crashed
      BY <3>1, <3>3
    <3> QED
      BY <1>1, <3>2, <3>3
  <2>3. UNCHANGED <<priority, unpause_tick, reaping>>
    BY DEF UnblockStray
  <2> QED
    BY <2>1, <2>2, <2>3, InvFacts DEF RestOK
<1> DEFINE queue == Unlinked(readyqueue, e)
<1>5. /\ queue \in Seq(Task) /\ IsInjective(queue)
      /\ ToSet(queue) = ToSet(readyqueue) \ {e}
  <2>1. state[e] = "RUN" => e \notin ToSet(readyqueue)
    BY DEF SchedInv, QueuesApart, StateMatchesQueue
  <2> QED
    BY <2>1, InvFacts, UnlinkedQueue
<1>6. CASE /\ MakeReady(queue, e)
           /\ freequeue' = Unlinked(freequeue, e) /\ leaked' = leaked \ {e}
           /\ crashed' = (e \in ToSet(freequeue) \cup leaked)
  <2> HIDE DEF queue
  <2>1. CASE e \in ToSet(freequeue) \cup leaked
    <3>1. /\ current' \in Task
          /\ readyqueue' \in Seq(Task)
          /\ state' \in [Task -> States]
          /\ ToSet(readyqueue') = (ToSet(readyqueue) \cup {e}) \ {current'}
          /\ \A t \in ToSet(readyqueue') : priority[t] <= priority[current']
          /\ remaining_quantum' \in 1 .. Quantum
      BY <1>2, <1>5, <1>6, MakeReadyFacts
    <3>2. freequeue' \in Seq(Task) /\ leaked' \subseteq Task /\ blocked' \in Seq(Task)
      BY <1>3, <1>6, InvFacts, UnlinkedQueue
    <3>3. TypeOK'
      BY <1>4, <3>1, <3>2 DEF TypeOK, RestOK, States
    <3>4. HighestPriorityRuns'
      BY <1>3, <3>1 DEF HighestPriorityRuns
    <3>5. Idle \notin ToSet(readyqueue')
      BY <1>2, <3>1 DEF SchedInv, QueuesApart, OnePlace
    <3> QED
      BY <1>6, <2>1, <3>3, <3>4, <3>5 DEF Gone
  <2>2. CASE e \notin ToSet(freequeue) \cup leaked
    <3>1. UNCHANGED <<freequeue, leaked>>
      BY <1>6, <2>2, InvFacts DEF Unlinked
    <3>2. blocked' \in Seq(Task) /\ IsInjective(blocked')
          /\ ToSet(blocked') = ToSet(blocked) \ {e}
      BY <1>1, <1>3, InvFacts
    <3> QED
      BY <1>2, <1>3, <1>4, <1>5, <1>6, <2>2, <3>1, <3>2, MakeReadyInv
  <2> QED
    BY <2>1, <2>2
<1>7. CASE UNCHANGED <<current, state, readyqueue, freequeue, leaked, remaining_quantum>>
  BY <1>3, <1>4, <1>7, InvFacts, NoMove DEF SchedInv, HighestPriorityRuns
<1> QED
  BY <1>1, <1>6, <1>7

LEMMA StepInv == SchedInv /\ [Next]_vars => SchedInv' \/ Gone'
<1> SUFFICES ASSUME SchedInv, [Next]_vars PROVE SchedInv' \/ Gone'
  OBVIOUS
<1>1. CASE Clock
  BY <1>1, ClockInterruptInv, UnblockStepInv, UnblockStrayInv, StrayCursorInv,
     ScheduleInv DEF Clock
<1>2. CASE SystemCall
  <2>1. CASE \E p \in Priorities : SetPriority(p)
    BY <2>1, SetPriorityInv
  <2>2. CASE \E k \in 1 .. MaxPause : Pause(k)
    BY <2>2, PauseInv
  <2> QED
    BY <1>2, <2>1, <2>2, YieldInv, SemBlockInv, CloneInv, CloneNoFramesInv,
       CloneNoPagesInv, ExitKillsInv, ExitInv DEF SystemCall
<1>3. CASE TscTick
  BY <1>3, TscTickInv
<1>4. CASE UNCHANGED vars
  <2>1. RestOK'
    BY <1>4, InvFacts DEF vars, RestOK, Position
  <2> QED
    BY <1>4, <2>1, InvFacts, NoMove DEF vars, queues, SchedInv, HighestPriorityRuns
<1> QED
  BY <1>1, <1>2, <1>3, <1>4 DEF Next, Crashed

(* what has crashed stays as it is *)
LEMMA GoneStays == crashed /\ [Next]_vars => UNCHANGED vars
BY DEF Next, Clock, ClockInterrupt, UnblockStep, UnblockStray, StrayCursor, Schedule,
   SystemCall, Yield, SetPriority, Pause, SemBlock, Clone, CloneNoFrames, CloneNoPages,
   ExitKills, Exit, Exiting, TscTick, Crashed, Calling, InUser

LEMMA AlwaysInv == Spec => [](SchedInv \/ Gone)
<1>1. Gone /\ [Next]_vars => Gone'
  <2> SUFFICES ASSUME Gone, [Next]_vars PROVE Gone'
    OBVIOUS
  <2>1. UNCHANGED vars
    BY GoneStays DEF Gone
  <2>2. TypeOK'
    BY <2>1 DEF Gone, TypeOK, vars, queues, Position
  <2> QED
    BY <2>1, <2>2 DEF Gone, HighestPriorityRuns, vars, queues
<1> QED
  BY <1>1, InitInv, StepInv, PTL DEF Spec

-----------------------------------------------------------------------------
(***************************************************************************)
(* The variables keep their types; in particular the quantum never runs    *)
(* out unnoticed and only idle has a negative priority.                    *)
(***************************************************************************)
THEOREM TypeCorrect == Spec => []TypeOK
<1>1. SchedInv \/ Gone => TypeOK
  BY DEF SchedInv, Gone
<1> QED
  BY <1>1, AlwaysInv, PTL

(***************************************************************************)
(* For any number of tasks and any priorities, the queues of the kernel    *)
(* stay duplicate-free, disjoint and in agreement with the state field,    *)
(* through nested preemptions, failed clones and killed threads, also when *)
(* a suspended walk resumes on a task that is lost; only one that resumes  *)
(* on a freed struct and makes it ready ends this.                         *)
(***************************************************************************)
THEOREM QueuesStayApart == Spec => []QueueDiscipline
<1>1. SchedInv \/ Gone => QueueDiscipline
  BY DEF SchedInv, Gone, QueueDiscipline
<1> QED
  BY <1>1, AlwaysInv, PTL

(***************************************************************************)
(* No ready task ever has a higher priority than the running one.          *)
(***************************************************************************)
THEOREM HighestPriorityAlwaysRuns == Spec => []HighestPriorityRuns
<1>1. SchedInv \/ Gone => HighestPriorityRuns
  BY DEF SchedInv, Gone
<1> QED
  BY <1>1, AlwaysInv, PTL

(***************************************************************************)
(* Idle never runs while a task is ready.                                  *)
(***************************************************************************)
THEOREM IdleOnlyWhenIdle == Spec => []IdleOnlyWhenNothingReady
<1>1. SchedInv \/ Gone => IdleOnlyWhenNothingReady
  BY IdleAlone, IdleNeverBesideReady DEF Gone
<1> QED
  BY <1>1, AlwaysInv, PTL

-----------------------------------------------------------------------------
(***************************************************************************)
(* A walk that has been suspended preempts nobody with a task that is      *)
(* ready: only one that is lost, or freed, can be of a higher priority.    *)
(***************************************************************************)
LEMMA StraySwitch ==
  ASSUME SchedInv, UnblockStray, current' # current
  PROVE  \E e \in Task \ (ToSet(readyqueue) \cup {Idle}) : MakeReady(readyqueue, e)
<1>1. PICK e \in Task \ ToSet(blocked), n \in Task \cup {NoTask} :
        /\ StrayNext(e, n)
        /\ MakeReady(Unlinked(readyqueue, e), e)
  BY DEF UnblockStray
<1>2. e # Idle
  <2>1. e \in ToSet(readyqueue) \cup ToSet(freequeue) \cup Lost \cup leaked
    BY <1>1, InvFacts, ToSetIn DEF StrayNext, ToSet
  <2> QED
    BY <2>1 DEF Lost, SchedInv, QueuesApart, OnePlace
<1>3. priority[e] > priority[current]
  BY <1>1 DEF MakeReady
<1>4. priority[e] \in Int /\ priority[current] \in Int
  BY InvFacts, PriorityInt DEF RestOK
<1>5. e \notin ToSet(readyqueue)
  BY <1>3, <1>4 DEF SchedInv, HighestPriorityRuns
<1>6. Unlinked(readyqueue, e) = readyqueue
  BY <1>5 DEF Unlinked
<1> QED
  BY <1>1, <1>2, <1>5, <1>6

(***************************************************************************)
(* What sched_next_rr never does: pick a task of a queue that has another  *)
(* of the same priority before it.                                         *)
(***************************************************************************)
LEMMA PicksOldest ==
  ASSUME NEW rdy \in Seq(Task), IsInjective(rdy), Idle \notin ToSet(rdy),
         NEW st, NEW prio \in [Task -> Int], sched_next_rr(rdy, st, prio),
         NEW i \in DOMAIN rdy, NEW j \in DOMAIN rdy, i < j,
         prio[rdy[i]] = prio[rdy[j]]
  PROVE  current' # rdy[j]
<1>1. rdy[i] \in Task /\ rdy[j] \in Task /\ rdy[j] # Idle
  BY LenProperties, ElementOfSeq, ToSetIn
<1>2. CASE current' = Idle
  BY <1>1, <1>2
<1>3. ASSUME NEW k \in DOMAIN rdy, FirstOfHighest(rdy, prio, k), current' = rdy[k],
             current' = rdy[j]
      PROVE  FALSE
  <2>1. k = j
    BY <1>3 DEF IsInjective
  <2>2. prio[rdy[i]] < prio[rdy[j]]
    BY <1>3, <2>1 DEF FirstOfHighest
  <2> QED
    BY <1>1, <2>2
<1> QED
  BY <1>2, <1>3 DEF sched_next_rr, task_switch, get_quantum

(* the same when current, or a woken task, has joined the tail of the queue *)
LEMMA PicksOldestAppended ==
  ASSUME SchedInv, NEW e \in Task \ (ToSet(readyqueue) \cup {Idle}),
         NEW st, NEW prio \in [Task -> Int],
         sched_next_rr(Append(readyqueue, e), st, prio),
         NEW i \in DOMAIN readyqueue, NEW j \in DOMAIN readyqueue, i < j,
         prio[readyqueue[i]] = prio[readyqueue[j]]
  PROVE  current' # readyqueue[j]
<1> DEFINE rdy == Append(readyqueue, e)
<1>1. /\ rdy \in Seq(Task) /\ IsInjective(rdy)
      /\ ToSet(rdy) = ToSet(readyqueue) \cup {e}
  BY InvFacts, AppendQueue
<1>2. Idle \notin ToSet(rdy)
  BY <1>1 DEF SchedInv, QueuesApart, OnePlace
<1>3. /\ i \in DOMAIN rdy /\ j \in DOMAIN rdy
      /\ rdy[i] = readyqueue[i] /\ rdy[j] = readyqueue[j]
  <2>1. /\ DOMAIN readyqueue = 1 .. Len(readyqueue) /\ Len(readyqueue) \in Nat
        /\ DOMAIN rdy = 1 .. Len(rdy) /\ Len(rdy) = Len(readyqueue) + 1
        /\ \A k \in 1 .. Len(readyqueue) : rdy[k] = readyqueue[k]
    BY <1>1, InvFacts, LenProperties, AppendProperties
  <2> QED
    BY <2>1
<1> HIDE DEF rdy
<1>4. sched_next_rr(rdy, st, prio)
  BY DEF rdy
<1> QED
  BY <1>1, <1>2, <1>3, <1>4, PicksOldest

LEMMA RoundRobinStep ==
  ASSUME SchedInv, [Next]_vars,
         NEW i \in DOMAIN readyqueue, NEW j \in DOMAIN readyqueue, i < j,
         priority[readyqueue[i]] = priority[readyqueue[j]]
  PROVE  current' # readyqueue[j]
<1>1. /\ readyqueue[i] \in ToSet(readyqueue) /\ readyqueue[j] \in ToSet(readyqueue)
      /\ readyqueue[j] # current /\ readyqueue[i] # current
      /\ readyqueue[i] \in Task /\ readyqueue[j] \in Task
      /\ Idle \notin ToSet(readyqueue) /\ current \notin ToSet(readyqueue)
  BY InvFacts, ToSetIn DEF SchedInv, QueuesApart, OnePlace
<1>2. priority \in [Task -> Int]
  BY InvFacts, PriorityInt DEF RestOK
<1>3. CASE current' = current
  BY <1>1, <1>3
<1>4. ASSUME NEW e \in Task, e \notin ToSet(readyqueue) \cup {Idle},
             MakeReady(readyqueue, e)
      PROVE  current' # readyqueue[j]
  BY <1>1, <1>2, <1>4, PicksOldestAppended DEF MakeReady
<1>5. ASSUME NEW prio \in [Task -> Int], current # Idle, force_task_switch(prio),
             \A t \in Task \ {current} : prio[t] = priority[t]
      PROVE  current' # readyqueue[j]
  <2>1. prio[readyqueue[i]] = prio[readyqueue[j]]
    BY <1>1, <1>5
  <2> QED
    BY <1>1, <1>5, <2>1, InvFacts, PicksOldestAppended DEF force_task_switch
<1>6. ASSUME NEW st, sched_next_rr(readyqueue, st, priority)
      PROVE  current' # readyqueue[j]
  BY <1>1, <1>2, <1>6, InvFacts, PicksOldest
<1>7. CASE UnblockStep
  <2>1. PICK k \in DOMAIN blocked :
          MakeReady(readyqueue, blocked[k]) \/ UNCHANGED current
    BY <1>7 DEF UnblockStep
  <2>2. blocked[k] \in Task /\ blocked[k] \notin ToSet(readyqueue) \cup {Idle}
    BY InvFacts, ToSetIn DEF SchedInv, QueuesApart, OnePlace
  <2> QED
    BY <1>3, <1>4, <2>1, <2>2
<1>8. CASE UnblockStray
  BY <1>3, <1>4, <1>8, StraySwitch
<1>9. CASE Schedule
  <2>1. CASE needs_sched_rr /\ force_task_switch(priority)
    <3>1. current # Idle
      BY <2>1, IdleAlone, EmptySeq DEF IdleOnlyWhenNothingReady, needs_sched_rr, ToSet
    <3> QED
      BY <1>2, <1>5, <2>1, <3>1
  <2> QED
    BY <1>3, <1>9, <2>1 DEF Schedule
<1>10. CASE Yield
  BY <1>2, <1>5, <1>10 DEF Yield, Calling
<1>11. ASSUME NEW p \in Priorities, SetPriority(p)
       PROVE  current' # readyqueue[j]
  <2> DEFINE prio == [priority EXCEPT ![current] = p]
  <2>1. prio \in [Task -> Int] /\ \A t \in Task \ {current} : prio[t] = priority[t]
    BY <1>2, PriorityInt
  <2>2. current # Idle /\ (force_task_switch(prio) \/ UNCHANGED current)
    BY <1>11 DEF SetPriority, Calling
  <2> HIDE DEF prio
  <2> QED
    BY <1>3, <1>5, <2>1, <2>2
<1>12. CASE SystemCall
  <2>1. CASE Exit \/ SemBlock \/ \E k \in 1 .. MaxPause : Pause(k)
    BY <1>6, <2>1 DEF Exit, SemBlock, Pause, BlockCurrent
  <2>2. CASE Clone \/ CloneNoFrames \/ CloneNoPages \/ ExitKills
    BY <1>3, <2>2 DEF Clone, CloneNoFrames, CloneNoPages, ExitKills
  <2> QED
    BY <1>10, <1>11, <1>12, <2>1, <2>2 DEF SystemCall
<1> QED
  BY <1>3, <1>7, <1>8, <1>9, <1>12
     DEF Next, Clock, ClockInterrupt, StrayCursor, TscTick, Crashed, vars

(***************************************************************************)
(* Round robin for every set of priorities: a task is never given the CPU  *)
(* while another of its priority has been ready for longer.                *)
(***************************************************************************)
THEOREM RoundRobin == Spec => RoundRobinOrder
<1>1. (SchedInv \/ Gone) /\ [Next]_vars =>
        [\A i, j \in DOMAIN readyqueue :
           /\ i < j
           /\ priority[readyqueue[i]] = priority[readyqueue[j]]
           => current' # readyqueue[j]]_vars
  BY RoundRobinStep, GoneStays DEF Gone
<1> QED
  BY <1>1, AlwaysInv, PTL DEF Spec, RoundRobinOrder

-----------------------------------------------------------------------------
(***************************************************************************)
(* sys_exit is never inside the clock's walk: it is called from user mode  *)
(* and gives the CPU away only at its end.                                 *)
(***************************************************************************)
ExitOutsideWalk == reaping => cursor[current] = NotInLoop

LEMMA ExitOutsideWalkStep == ExitOutsideWalk /\ [Next]_vars => ExitOutsideWalk'
<1> SUFFICES ASSUME ExitOutsideWalk, [Next]_vars, reaping'
             PROVE  cursor'[current'] = NotInLoop
  BY DEF ExitOutsideWalk
<1>1. CASE ExitKills
  BY <1>1 DEF ExitKills, Exiting, InUser, ExitOutsideWalk
<1>2. CASE reaping /\ current' = current /\ cursor' = cursor
  BY <1>2 DEF ExitOutsideWalk
<1>3. CASE Clock
  BY <1>3 DEF Clock, ClockInterrupt, UnblockStep, UnblockStray, StrayCursor,
     Schedule, InUser
<1>4. CASE SystemCall /\ ~ExitKills
  BY <1>4 DEF SystemCall, Yield, SetPriority, Pause, SemBlock, BlockCurrent,
     Clone, CloneNoFrames, CloneNoPages, Exit, Calling, InUser
<1> QED
  BY <1>1, <1>2, <1>3, <1>4 DEF Next, TscTick, Crashed, vars

(* the walk's own preemptions are in favour of a higher priority *)
LEMMA WakeUpsPreemptUpwards ==
  ASSUME SchedInv, NEW e \in Task \ (ToSet(readyqueue) \cup {Idle}),
         MakeReady(readyqueue, e), UNCHANGED priority, current' # current
  PROVE  priority[current'] > priority[current]
<1> DEFINE rdy == Append(readyqueue, e)
           st  == [state EXCEPT ![e] = "READY"]
<1>1. priority[e] > priority[current] /\ sched_next_rr(rdy, st, priority)
  BY DEF MakeReady
<1>2. rdy # <<>> /\ e \in ToSet(rdy) /\ rdy \in Seq(Task)
  BY InvFacts, AppendQueue
<1>3. priority \in [Task -> Int] /\ current \in Task
  BY InvFacts, PriorityInt DEF RestOK
<1> HIDE DEF rdy, st
<1>4. PICK k \in DOMAIN rdy : FirstOfHighest(rdy, priority, k) /\ current' = rdy[k]
  BY <1>1, <1>2 DEF sched_next_rr, task_switch, get_quantum
<1>5. priority[e] <= priority[current']
  BY <1>2, <1>4 DEF FirstOfHighest, ToSet
<1>6. current' \in Task
  BY <1>2, <1>4, LenProperties, ElementOfSeq
<1> QED
  BY <1>1, <1>3, <1>5, <1>6

LEMMA PreemptionStep ==
  ASSUME SchedInv, ExitOutsideWalk, [Next]_vars,
         cursor[current] # NotInLoop, current' # current
  PROVE  \/ priority[current'] > priority[current]
         \/ /\ remaining_quantum = 1
            /\ priority[current'] = priority[current]
<1>1. CASE UnblockStep
  <2>1. PICK k \in DOMAIN blocked : MakeReady(readyqueue, blocked[k])
    BY <1>1 DEF UnblockStep
  <2>2. blocked[k] \in Task \ (ToSet(readyqueue) \cup {Idle})
    BY InvFacts, ToSetIn DEF SchedInv, QueuesApart, OnePlace
  <2> QED
    BY <1>1, <2>1, <2>2, WakeUpsPreemptUpwards DEF UnblockStep
<1>2. CASE UnblockStray
  BY <1>2, StraySwitch, WakeUpsPreemptUpwards DEF UnblockStray
<1>3. CASE Schedule
  <2>1. needs_sched_rr /\ remaining_quantum = 1 /\ force_task_switch(priority)
    BY <1>3 DEF Schedule
  <2> DEFINE rdy == Append(readyqueue, current)
             st  == [state EXCEPT ![current] = "READY"]
  <2>2. rdy # <<>> /\ ToSet(rdy) = ToSet(readyqueue) \cup {current} /\ rdy \in Seq(Task)
    BY InvFacts, AppendQueue
  <2>3. sched_next_rr(rdy, st, priority)
    BY <2>1 DEF force_task_switch
  <2> HIDE DEF rdy, st
  <2>4. PICK k \in DOMAIN rdy : FirstOfHighest(rdy, priority, k) /\ current' = rdy[k]
    BY <2>2, <2>3 DEF sched_next_rr, task_switch, get_quantum
  <2>5. priority[current] <= priority[current'] /\ current' \in ToSet(rdy)
    BY <2>2, <2>4 DEF FirstOfHighest, ToSet
  <2>6. priority[current'] <= priority[current]
    BY <2>2, <2>5 DEF SchedInv, HighestPriorityRuns
  <2>7. priority \in [Task -> Int] /\ current \in Task /\ current' \in Task
    BY <2>2, <2>5, InvFacts, PriorityInt DEF RestOK
  <2> QED
    BY <2>1, <2>5, <2>6, <2>7
<1>4. ~SystemCall
  BY DEF SystemCall, Yield, SetPriority, Pause, SemBlock, BlockCurrent,
     Clone, CloneNoFrames, CloneNoPages, ExitKills, Exit, Exiting, Calling,
     InUser, ExitOutsideWalk
<1> QED
  BY <1>1, <1>2, <1>3, <1>4
     DEF Next, Clock, ClockInterrupt, StrayCursor, TscTick, Crashed, vars

(***************************************************************************)
(* The clock interrupt takes the CPU from a task only for a higher         *)
(* priority, or for an equal one when the quantum is over.                 *)
(***************************************************************************)
THEOREM PreemptionIsJustified == Spec => PreemptionJustified
<1>1. Init => ExitOutsideWalk
  BY DEF Init, ExitOutsideWalk
<1>2. (SchedInv \/ Gone) /\ ExitOutsideWalk /\ [Next]_vars =>
        [cursor[current] # NotInLoop /\ current' # current
           => \/ priority[current'] > priority[current]
              \/ /\ remaining_quantum = 1
                 /\ priority[current'] = priority[current]]_vars
  BY PreemptionStep, GoneStays DEF Gone
<1> QED
  BY <1>1, <1>2, AlwaysInv, ExitOutsideWalkStep, PTL
     DEF Spec, PreemptionJustified

-----------------------------------------------------------------------------
(* A single priority: only idle is ever preempted in the middle of the      *)
(* clock's walk, and idle belongs to no queue.                              *)

LEMMA NothingLostByMakeReady ==
  ASSUME Priorities = {0}, SchedInv, NoTaskLost,
         NEW e \in Task, e # Idle,
         ToSet(freequeue) \subseteq ToSet(freequeue') \cup {e},
         leaked \subseteq leaked' \cup {e},
         ToSet(blocked) \subseteq ToSet(blocked') \cup {e},
         NEW queue \in Seq(Task), IsInjective(queue),
         ToSet(queue) = ToSet(readyqueue) \ {e},
         MakeReady(queue, e)
  PROVE  NoTaskLost'
<1> DEFINE rdy == Append(queue, e)
           st  == [state EXCEPT ![e] = "READY"]
<1>1. /\ rdy \in Seq(Task) /\ IsInjective(rdy)
      /\ ToSet(rdy) = ToSet(readyqueue) \cup {e}
  <2>1. /\ rdy \in Seq(Task) /\ IsInjective(rdy)
        /\ ToSet(rdy) = ToSet(queue) \cup {e}
    BY AppendQueue
  <2> QED
    BY <2>1
<1>2. Idle \notin ToSet(rdy)
  BY <1>1 DEF SchedInv, QueuesApart, OnePlace
<1>3. CASE priority[e] > priority[current] /\ sched_next_rr(rdy, st, priority)
  <2>1. current = Idle
    <3>1. current \in Task /\ priority[current] \in {0, -1} /\ priority[e] \in {0, -1}
          /\ (priority[current] = -1 => current = Idle)
      BY InvFacts DEF RestOK
    <3> QED
      BY <1>3, <3>1
  <2>2. st \in [Task -> States]
    BY InvFacts DEF States
  <2> HIDE DEF rdy, st
  <2>3. ToSet(readyqueue') = ToSet(rdy) \ {current'}
    BY <1>1, <1>2, <1>3, <2>2, SchedNext
  <2> QED
    BY <1>1, <2>1, <2>3 DEF NoTaskLost, Lost
<1>4. CASE readyqueue' = rdy /\ current' = current
  BY <1>1, <1>4 DEF NoTaskLost, Lost
<1> QED
  BY <1>3, <1>4 DEF MakeReady

LEMMA NothingLostByClock ==
  ASSUME Priorities = {0}, SchedInv, NoTaskLost, Clock
  PROVE  NoTaskLost'
<1>1. CASE ClockInterrupt \/ StrayCursor
  BY <1>1 DEF ClockInterrupt, StrayCursor, queues, NoTaskLost, Lost
<1>2. CASE UnblockStep
  <2>1. PICK i \in DOMAIN blocked :
          \/ /\ blocked' = RemoveAt(blocked, i)
             /\ MakeReady(readyqueue, blocked[i])
          \/ UNCHANGED <<current, readyqueue, blocked>>
    BY <1>2 DEF UnblockStep
  <2>2. UNCHANGED <<freequeue, leaked>>
    BY <1>2 DEF UnblockStep
  <2>3. CASE blocked' = RemoveAt(blocked, i) /\ MakeReady(readyqueue, blocked[i])
    <3>1. ToSet(blocked') = ToSet(blocked) \ {blocked[i]}
      BY <2>3, InvFacts, RemoveAtQueue
    <3>2. blocked[i] \in ToSet(blocked) /\ blocked[i] \in Task
      BY InvFacts, ToSetIn
    <3>3. blocked[i] # Idle /\ blocked[i] \notin ToSet(readyqueue)
      BY <3>2 DEF SchedInv, QueuesApart, OnePlace
    <3>4. ToSet(readyqueue) = ToSet(readyqueue) \ {blocked[i]}
      BY <3>3
    <3> QED
      BY <2>2, <2>3, <3>1, <3>2, <3>3, <3>4, InvFacts, NothingLostByMakeReady
  <2>4. CASE UNCHANGED <<current, readyqueue, blocked>>
    BY <2>2, <2>4 DEF NoTaskLost, Lost
  <2> QED
    BY <2>1, <2>3, <2>4
<1>3. CASE UnblockStray
  <2>1. PICK e \in Task \ ToSet(blocked), n \in Task \cup {NoTask} :
          /\ StrayNext(e, n)
          /\ \/ /\ freequeue' = Unlinked(freequeue, e)
                /\ leaked' = leaked \ {e}
                /\ MakeReady(Unlinked(readyqueue, e), e)
             \/ UNCHANGED <<current, readyqueue, freequeue, leaked>>
    BY <1>3 DEF UnblockStray
  <2>2. e # Idle /\ (e \in ToSet(readyqueue) => state[e] = "READY") /\ UNCHANGED blocked
    <3>1. e \in ToSet(readyqueue) \cup ToSet(freequeue) \cup Lost \cup leaked
      BY <2>1, InvFacts, ToSetIn DEF StrayNext, ToSet
    <3> QED
      BY <1>3, <3>1 DEF Lost, SchedInv, QueuesApart, OnePlace, StateMatchesQueue,
         UnblockStray
  <2>3. CASE /\ freequeue' = Unlinked(freequeue, e)
             /\ leaked' = leaked \ {e}
             /\ MakeReady(Unlinked(readyqueue, e), e)
    <3> DEFINE queue == Unlinked(readyqueue, e)
    <3>1. /\ queue \in Seq(Task) /\ IsInjective(queue)
          /\ ToSet(queue) = ToSet(readyqueue) \ {e}
      BY <2>2, InvFacts, UnlinkedQueue
    <3>2. ToSet(freequeue) \subseteq ToSet(freequeue') \cup {e}
      BY <2>3, InvFacts, UnlinkedQueue
    <3>3. MakeReady(queue, e)
      BY <2>3
    <3> HIDE DEF queue
    <3> QED
      BY <2>2, <2>3, <3>1, <3>2, <3>3, NothingLostByMakeReady
  <2>4. CASE UNCHANGED <<current, readyqueue, freequeue, leaked>>
    BY <2>2, <2>4 DEF NoTaskLost, Lost
  <2> QED
    BY <2>1, <2>3, <2>4
<1>4. CASE Schedule
  <2>1. CASE /\ remaining_quantum = 1 /\ needs_sched_rr
             /\ force_task_switch(priority)
    <3>1. current # Idle
      <4>1. readyqueue # <<>>
        BY <2>1, EmptySeq DEF needs_sched_rr, ToSet
      <4> QED
        BY <4>1, IdleAlone DEF IdleOnlyWhenNothingReady
    <3>2. ToSet(readyqueue') = (ToSet(readyqueue) \cup {current}) \ {current'}
      BY <2>1, <3>1, InvFacts, RequeueInv DEF RestOK
    <3> QED
      BY <1>4, <3>2 DEF Schedule, NoTaskLost, Lost
  <2>2. CASE UNCHANGED <<current, state, readyqueue>>
    BY <1>4, <2>2 DEF Schedule, NoTaskLost, Lost
  <2> QED
    BY <1>4, <2>1, <2>2 DEF Schedule
<1> QED
  BY <1>1, <1>2, <1>3, <1>4 DEF Clock

(* no system call loses a task, whatever the priorities are *)
LEMMA NothingLostByRequeue ==
  ASSUME SchedInv, NoTaskLost, current # Idle,
         NEW prio \in [Task -> Priorities \cup {-1}], force_task_switch(prio),
         UNCHANGED <<blocked, freequeue, leaked>>
  PROVE  NoTaskLost'
<1>1. ToSet(readyqueue') = (ToSet(readyqueue) \cup {current}) \ {current'}
  BY RequeueInv
<1> QED
  BY <1>1 DEF NoTaskLost, Lost

LEMMA NothingLostBySystemCall ==
  ASSUME SchedInv, NoTaskLost, SystemCall
  PROVE  NoTaskLost'
<1>1. CASE Yield
  BY <1>1, InvFacts, NothingLostByRequeue DEF Yield, Calling, RestOK
<1>2. ASSUME NEW p \in Priorities, SetPriority(p) PROVE NoTaskLost'
  <2>1. [priority EXCEPT ![current] = p] \in [Task -> Priorities \cup {-1}]
    BY InvFacts DEF RestOK
  <2>2. CASE force_task_switch([priority EXCEPT ![current] = p])
    BY <1>2, <2>1, <2>2, NothingLostByRequeue DEF SetPriority, Calling
  <2>3. CASE UNCHANGED <<current, readyqueue>>
    BY <1>2, <2>3 DEF SetPriority, NoTaskLost, Lost
  <2> QED
    BY <1>2, <2>2, <2>3 DEF SetPriority
<1>3. CASE SemBlock \/ \E k \in 1 .. MaxPause : Pause(k)
  <2>1. BlockCurrent
    BY <1>3 DEF SemBlock, Pause
  <2>2. ToSet(blocked') = ToSet(blocked) \cup {current}
    BY <2>1, InvFacts, AppendQueue DEF BlockCurrent
  <2>3. ToSet(readyqueue') = ToSet(readyqueue) \ {current'}
    <3> DEFINE st == [state EXCEPT ![current] = "BLOCKED"]
    <3>1. st \in [Task -> States] /\ Idle \notin ToSet(readyqueue)
      BY InvFacts DEF States, SchedInv, QueuesApart, OnePlace
    <3>2. sched_next_rr(readyqueue, st, priority)
      BY <2>1 DEF BlockCurrent
    <3> HIDE DEF st
    <3> QED
      BY <3>1, <3>2, InvFacts, SchedNext
  <2> QED
    BY <2>1, <2>2, <2>3 DEF BlockCurrent, NoTaskLost, Lost
<1>4. CASE Clone \/ CloneNoFrames \/ CloneNoPages
  <2> DEFINE c == Head(freequeue)
  <2>1. freequeue # <<>> /\ UNCHANGED <<current, blocked>>
    BY <1>4 DEF Clone, CloneNoFrames, CloneNoPages
  <2>2. /\ c \in Task /\ Tail(freequeue) \in Seq(Task)
        /\ ToSet(Tail(freequeue)) = ToSet(freequeue) \ {c}
    BY <2>1, InvFacts, TailQueue
  <2>3. \/ /\ freequeue' = Tail(freequeue) /\ leaked' = leaked
           /\ readyqueue' = Append(readyqueue, c)
        \/ /\ freequeue' = Append(Tail(freequeue), c) /\ leaked' = leaked
           /\ readyqueue' = readyqueue
        \/ /\ freequeue' = Tail(freequeue) /\ leaked' = leaked \cup {c}
           /\ readyqueue' = readyqueue
    BY <1>4 DEF Clone, CloneNoFrames, CloneNoPages
  <2> HIDE DEF c
  <2>4. /\ ToSet(Append(readyqueue, c)) = ToSet(readyqueue) \cup {c}
        /\ ToSet(Append(Tail(freequeue), c)) = ToSet(Tail(freequeue)) \cup {c}
    <3>1. readyqueue \in Seq(Task)
      BY InvFacts
    <3>2. ToSet(Append(readyqueue, c)) = ToSet(readyqueue) \cup {c}
      BY <2>2, <3>1, AppendQueue
    <3>3. ToSet(Append(Tail(freequeue), c)) = ToSet(Tail(freequeue)) \cup {c}
      <4> DEFINE rest == Tail(freequeue)
      <4>1. rest \in Seq(Task) /\ c \in Task
        BY <2>2
      <4> HIDE DEF rest
      <4>2. ToSet(Append(rest, c)) = ToSet(rest) \cup {c}
        BY <4>1, AppendQueue
      <4> QED
        BY <4>2 DEF rest
    <3> QED
      BY <3>2, <3>3
  <2>5. \A t \in Task : t \in ToSet(freequeue) =>
          t \in ToSet(freequeue') \cup leaked' \cup ToSet(readyqueue')
    BY <2>2, <2>3, <2>4
  <2>6. ToSet(readyqueue) \subseteq ToSet(readyqueue') /\ leaked \subseteq leaked'
    BY <2>3, <2>4
  <2> QED
    BY <2>1, <2>5, <2>6 DEF NoTaskLost, Lost
<1>5. CASE ExitKills
  <2>1. UNCHANGED <<current, leaked>>
    BY <1>5 DEF ExitKills
  <2>2. ASSUME NEW i \in DOMAIN readyqueue,
               readyqueue' = RemoveAt(readyqueue, i),
               freequeue' = Append(freequeue, readyqueue[i]),
               UNCHANGED blocked
        PROVE  NoTaskLost'
    <3>1. readyqueue[i] \in Task
      BY InvFacts, ToSetIn
    <3>2. /\ ToSet(readyqueue') = ToSet(readyqueue) \ {readyqueue[i]}
          /\ ToSet(freequeue') = ToSet(freequeue) \cup {readyqueue[i]}
      BY <2>2, <3>1, InvFacts, RemoveAtQueue, AppendQueue
    <3> QED
      BY <2>1, <2>2, <3>2 DEF NoTaskLost, Lost
  <2>3. ASSUME NEW i \in DOMAIN blocked,
               blocked' = RemoveAt(blocked, i),
               freequeue' = Append(freequeue, blocked[i]),
               UNCHANGED readyqueue
        PROVE  NoTaskLost'
    <3>1. blocked[i] \in Task
      BY InvFacts, ToSetIn
    <3>2. /\ ToSet(blocked') = ToSet(blocked) \ {blocked[i]}
          /\ ToSet(freequeue') = ToSet(freequeue) \cup {blocked[i]}
      BY <2>3, <3>1, InvFacts, RemoveAtQueue, AppendQueue
    <3> QED
      BY <2>1, <2>3, <3>2 DEF NoTaskLost, Lost
  <2> QED
    BY <1>5, <2>2, <2>3 DEF ExitKills, NoTaskLost
<1>6. CASE Exit
  <2>1. ToSet(freequeue') = ToSet(freequeue) \cup {current}
    BY <1>6, InvFacts, AppendQueue DEF Exit
  <2>2. ToSet(readyqueue') = ToSet(readyqueue) \ {current'}
    <3>1. sched_next_rr(readyqueue, state, priority) /\ Idle \notin ToSet(readyqueue)
      BY <1>6 DEF Exit, SchedInv, QueuesApart, OnePlace
    <3> QED
      BY <3>1, InvFacts, SchedNext
  <2> QED
    BY <1>6, <2>1, <2>2 DEF Exit, NoTaskLost, Lost
<1> QED
  BY <1>1, <1>2, <1>3, <1>4, <1>5, <1>6 DEF SystemCall

LEMMA NoTaskLostStep ==
  ASSUME Priorities = {0}
  PROVE  SchedInv /\ NoTaskLost /\ [Next]_vars => NoTaskLost'
<1> SUFFICES ASSUME SchedInv, NoTaskLost, [Next]_vars PROVE NoTaskLost'
  OBVIOUS
<1>1. CASE TscTick \/ Crashed \/ UNCHANGED vars
  BY <1>1 DEF TscTick, Crashed, vars, queues, NoTaskLost, Lost
<1> QED
  BY <1>1, NothingLostByClock, NothingLostBySystemCall DEF Next

(***************************************************************************)
(* Programs that leave all priorities as they are never lose a task,       *)
(* however many there are: only idle is taken off the CPU in the middle of *)
(* the clock's walk.                                                       *)
(***************************************************************************)
THEOREM NothingLostWithOnePriority ==
  ASSUME Priorities = {0}
  PROVE  Spec => []NoTaskLost
<1>1. Init => NoTaskLost
  <2> SUFFICES ASSUME Init PROVE NoTaskLost
    OBVIOUS
  <2>1. ToSet(freequeue) = Task \ {Idle, Task1} /\ current = Task1
    BY InitFreeQueue DEF Init
  <2> QED
    BY <2>1 DEF NoTaskLost, Lost
<1>2. Gone /\ NoTaskLost /\ [Next]_vars => NoTaskLost'
  BY GoneStays DEF Gone, NoTaskLost, Lost, vars, queues
<1>3. (SchedInv \/ Gone) /\ NoTaskLost /\ [Next]_vars => NoTaskLost'
  BY <1>2, NoTaskLostStep
<1> QED
  BY <1>1, <1>3, AlwaysInv, PTL DEF Spec
=============================================================================
