----------------------------- MODULE Semaphores -----------------------------
(***************************************************************************)
(* The semaphores of one process (sys_semCreate, sys_semWait, sys_semPost  *)
(* and sys_semDestroy of project/Project/sys.c) on top of Scheduler.  All  *)
(* tasks but idle are threads of the process, created by its first thread, *)
(* so that the semaphores all of them see are those of the first struct.   *)
(*                                                                         *)
(* Nothing in the code ever adds a task to the list blocked of a           *)
(* semaphore: semWait puts its caller in the global blocked queue.  The    *)
(* wake-up code of semPost and semDestroy starts by testing that the list  *)
(* of the semaphore is empty, so that code is never reached and is not     *)
(* part of the model.                                                      *)
(***************************************************************************)
EXTENDS Scheduler, FiniteSets

CONSTANTS
  NR_SEMS,    \* the slots of semfs in a task_struct
  Values,     \* the initial values programs ask for
  Sleepers,   \* the threads that call pause
  MaxCount,   \* bounds count from above and, negated, from below
  Free,       \* a slot that holds no semaphore (TID = -1)
  Departed,   \* TIDs are never reused: the TID of a thread that has exited
  NoSem       \* the task is not waiting for a semaphore

ASSUME SemaphoresAssumption ==
  /\ NR_SEMS \in Nat
  /\ Values \subseteq Nat
  /\ MaxCount \in Nat
  /\ Sleepers \subseteq Task
  /\ NoSem \notin 0 .. NR_SEMS - 1
  /\ Free \notin Task /\ Departed \notin Task /\ Free # Departed

VARIABLES
  count,     \* semfs[s].count
  TID,       \* semfs[s].TID, as the thread that has this TID
  waiting,   \* the semaphore a task blocked for; the kernel does not record it
  slept      \* whether any thread has called pause yet; not in the kernel either

Sem == 0 .. NR_SEMS - 1

semvars == <<count, TID, waiting, slept>>
allsemvars == <<vars, semvars>>

SemInit ==
  /\ Init
  /\ count = [s \in Sem |-> -1]
  /\ TID = [s \in Sem |-> Free]
  /\ waiting = [t \in Task |-> NoSem]
  /\ slept = FALSE

(* a task that is not blocked any more does not wait for a semaphore *)
WaitingWhileBlocked(w) ==
  waiting' = [t \in Task |-> IF t \in ToSet(blocked') THEN w[t] ELSE NoSem]

(* sys_semCreate takes the first free slot *)
semCreate(value) ==
  /\ Calling
  /\ \E s \in Sem :
       /\ TID[s] = Free
       /\ \A r \in Sem : r < s => TID[r] # Free
       /\ count' = [count EXCEPT ![s] = value]
       /\ TID' = [TID EXCEPT ![s] = current]
  /\ UNCHANGED <<vars, waiting, slept>>

(* the test of the count with >= *)
semWaitPassesMutant(s) ==
  /\ Calling
  /\ TID[s] # Free
  /\ count[s] >= 0
  /\ count' = [count EXCEPT ![s] = count[s] - 1]
  /\ UNCHANGED <<vars, TID, waiting, slept>>

(* no test of the count *)
semWaitUntestedMutant(s) ==
  /\ Calling
  /\ TID[s] # Free
  /\ count' = [count EXCEPT ![s] = count[s] - 1]
  /\ UNCHANGED <<vars, TID, waiting, slept>>

(* sys_semWait when the semaphore is available *)
semWaitPasses(s) ==
  /\ Calling
  /\ TID[s] # Free
  /\ count[s] > 0
  /\ count' = [count EXCEPT ![s] = count[s] - 1]
  /\ UNCHANGED <<vars, TID, waiting, slept>>

(* sys_semWait when it is not *)
semWaitBlocks(s) ==
  /\ TID[s] # Free
  /\ count[s] \in -MaxCount + 1 .. 0
  /\ count' = [count EXCEPT ![s] = count[s] - 1]
  /\ SemBlock
  /\ WaitingWhileBlocked([waiting EXCEPT ![current] = s])
  /\ UNCHANGED <<TID, slept>>

(***************************************************************************)
(* sys_semPost increments the count and, whatever it is then, returns: the *)
(* list of the semaphore is empty.                                         *)
(***************************************************************************)
semPost(s) ==
  /\ Calling
  /\ TID[s] # Free
  /\ count[s] < MaxCount
  /\ count' = [count EXCEPT ![s] = count[s] + 1]
  /\ UNCHANGED <<vars, TID, waiting, slept>>

(* sys_semDestroy, allowed to the creator only; it wakes nobody *)
semDestroy(s) ==
  /\ Calling
  /\ TID[s] = current
  /\ count' = [count EXCEPT ![s] = -1]
  /\ TID' = [TID EXCEPT ![s] = Free]
  /\ UNCHANGED <<vars, waiting, slept>>

(***************************************************************************)
(* sys_pthread_exit of a thread: the semaphores it created stay, with a    *)
(* TID that no thread has any more.                                        *)
(***************************************************************************)
ThreadExit ==
  /\ Exit
  /\ current # Task1
  /\ TID' = [s \in Sem |-> IF TID[s] = current THEN Departed ELSE TID[s]]
  /\ WaitingWhileBlocked(waiting)
  /\ UNCHANGED <<count, slept>>

(* the other entry points of the scheduler do not touch semaphores *)
SchedulerStep ==
  /\ \/ /\ \/ Clock \/ TscTick \/ Crashed
           \/ Yield \/ Clone \/ CloneNoFrames \/ CloneNoPages
           \/ \E p \in Priorities : SetPriority(p)
        /\ UNCHANGED slept
     \/ /\ \E k \in 1 .. MaxPause : Pause(k) /\ current \in Sleepers
        /\ slept' = TRUE
  /\ WaitingWhileBlocked(waiting)
  /\ UNCHANGED <<count, TID>>

SemNext ==
  \/ SchedulerStep
  \/ ThreadExit
  \/ \E v \in Values : semCreate(v)
  \/ \E s \in Sem : \/ semWaitPasses(s) \/ semWaitBlocks(s)
                    \/ semPost(s) \/ semDestroy(s)

SemSpec == SemInit /\ [][SemNext]_allsemvars

-----------------------------------------------------------------------------
(* Properties *)

Waiters(s) == {t \in Task : waiting[t] = s}

\* where a count can be that starts at one of the values
Counts == (-MaxCount - 1 .. MaxCount) \cup UNION {0 .. v : v \in Values}

SemTypeOK ==
  /\ count \in [Sem -> Counts]
  /\ TID \in [Sem -> Task \cup {Free, Departed}]
  /\ waiting \in [Task -> Sem \cup {NoSem}]
  /\ slept \in BOOLEAN
  /\ \A t \in Task : waiting[t] # NoSem => t \in ToSet(blocked)

(***************************************************************************)
(* Nobody passes a semaphore that is taken: each unit below zero stands    *)
(* for a thread that is still blocked.  It holds as long as no thread has  *)
(* called pause, because the clock's walk of the blocked queue takes every *)
(* task with an old tick for a paused one.                                 *)
(***************************************************************************)
NoFreePass ==
  ~slept =>
    \A s \in Sem : TID[s] # Free => -count[s] <= Cardinality(Waiters(s))

(***************************************************************************)
(* What readme.md:148-151 says of semPost: when the count is at most 0     *)
(* after it, a thread was waiting, and the kernel wakes one.               *)
(***************************************************************************)
PostWakesOne ==
  [][\A s \in Sem :
       /\ TID[s] # Free /\ Waiters(s) # {}
       /\ count'[s] = count[s] + 1 /\ count'[s] <= 0
       => \E t \in Waiters(s) : t \notin ToSet(blocked')]_allsemvars

(***************************************************************************)
(* What the code does instead, since the list that semPost looks at is     *)
(* always empty (sys.c:539): a thread that blocks in semWait and has never *)
(* called pause, nor inherited a tick from a creator that had, stays       *)
(* blocked through every post, destroy and exit of the other threads.      *)
(***************************************************************************)
WaitIsForever ==
  [][\A t \in Task : waiting[t] # NoSem /\ unpause_tick[t] = NotArmed
       => t \in ToSet(blocked')]_allsemvars

=============================================================================
