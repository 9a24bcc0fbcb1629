---------------------------- MODULE MCScheduler ----------------------------
(***************************************************************************)
(* Small instances of Scheduler for TLC: idle, the first process and two   *)
(* more structs, so that a third task can be waiting while one preempts    *)
(* another.  The variable ranked only records the past: no action of       *)
(* Scheduler reads it.                                                     *)
(***************************************************************************)
EXTENDS Scheduler

VARIABLE ranked    \* whether any program has asked for a priority but 0

TwoPriorities == {0, 1}

mcvars == <<vars, ranked>>

MCInit == Init /\ ranked = FALSE

MCNext == Next /\ ranked' = (ranked \/ \E t \in Task : priority'[t] > 0)

MCSpec == MCInit /\ [][MCNext]_mcvars /\ Fairness

(***************************************************************************)
(* While all tasks have the default priority, every task is where the      *)
(* kernel can find it again, though idle's walk of blocked is cut in       *)
(* pieces by the tasks it wakes (sched.c:133 preempts only idle).          *)
(***************************************************************************)
NoneLostUnranked == ~ranked => NoTaskLost

(***************************************************************************)
(* What the properties below except is only this: a walk of blocked that   *)
(* was suspended resumes on a task that has left the queue, or exit kills  *)
(* a lost task.  While all priorities are equal only idle's walk does:     *)
(* nobody else is interrupted in the middle of one.                        *)
(***************************************************************************)
FailsOnlyAstray ==
  [][~crashed /\ crashed' =>
       \/ /\ cursor[current] \notin {ListHead, NotInLoop} \cup ToSet(blocked)
          /\ ranked \/ current = Idle
       \/ ranked /\ Lost # {}]_mcvars

(***************************************************************************)
(* While all priorities are equal, a ready task runs, unless its process   *)
(* exits first, whatever the other programs do, or unless the kernel fails *)
(* because idle's suspended walk has resumed on a task that has left       *)
(* blocked meanwhile (FailsOnlyAstray).                                    *)
(***************************************************************************)
ReadyRuns ==
  \A t \in Task \ {Idle} :
    t \in ToSet(readyqueue)
      ~> (current = t \/ t \in ToSet(freequeue) \/ crashed \/ ranked)

(***************************************************************************)
(* While all priorities are equal, a paused task is woken, unless its      *)
(* process exits first or the kernel fails as above: the clock's walk      *)
(* reaches it although idle's walks are cut in pieces by the tasks they    *)
(* wake.                                                                   *)
(***************************************************************************)
PausedWakes ==
  \A t \in Task \ {Idle} :
    (t \in ToSet(blocked) /\ unpause_tick[t] >= 0)
      ~> (t \notin ToSet(blocked) \/ crashed \/ ranked)
=============================================================================
