----------------------------- MODULE LabQueues -----------------------------
(***************************************************************************)
(* What the process management of the laboratory kernel promises, without  *)
(* pointers: a ready queue in order of arrival, a queue of free structs,   *)
(* for each process the children it may unblock, and block and unblock as  *)
(* a wait and a wake-up that is remembered when it comes first.            *)
(*                                                                         *)
(* LabKernel implements this with the lists of LinkedList.                 *)
(***************************************************************************)
EXTENDS Naturals, Sequences, SequencesExt

CONSTANTS Task,    \* the structs of the array task
          idle     \* the one that runs when nothing is ready

VARIABLES running,   \* the process on the CPU
          ready,     \* sequence of ready processes
          free,      \* sequence of unused structs
          waiting,   \* processes that called block and wait
          kids,      \* the children of each process, oldest first; of idle, none
          credit     \* unblocks that came before the block

vars == <<running, ready, free, waiting, kids, credit>>

-----------------------------------------------------------------------------

\* The first of queue q gets the CPU, idle when there is none.
Dispatch(q) ==
  /\ running' = IF q = <<>> THEN idle ELSE Head(q)
  /\ ready' = IF q = <<>> THEN q ELSE Tail(q)

\* A new process is the youngest child of its creator and the last in the
\* ready queue. It may start with unblocks its creator had received.
Fork ==
  /\ free # <<>>
  /\ LET child == Head(free) IN
       /\ free' = Tail(free)
       /\ ready' = Append(ready, child)
       /\ kids' = [kids EXCEPT ![running] = Append(@, child), ![child] = <<>>]
       /\ \E c \in 0 .. credit[running] : credit' = [credit EXCEPT ![child] = c]
  /\ UNCHANGED <<running, waiting>>

Block ==
  /\ running # idle
  /\ \/ /\ credit[running] > 0
        /\ credit' = [credit EXCEPT ![running] = @ - 1]
        /\ UNCHANGED <<running, ready, waiting>>
     \/ /\ credit[running] = 0
        /\ waiting' = waiting \cup {running}
        /\ Dispatch(ready)
        /\ UNCHANGED credit
  /\ UNCHANGED <<free, kids>>

\* A process unblocks one of its children, and no other.
Unblock ==
  /\ \E child \in ToSet(kids[running]) :
       \/ /\ child \in waiting
          /\ waiting' = waiting \ {child}
          /\ ready' = Append(ready, child)
          /\ UNCHANGED credit
       \/ /\ child \notin waiting
          /\ credit' = [credit EXCEPT ![child] = @ + 1]
          /\ UNCHANGED <<waiting, ready>>
  /\ UNCHANGED <<running, free, kids>>

\* Nobody may unblock the children of a process that exits any more: they would
\* be idle's, which makes no calls.
Exit ==
  /\ running # idle
  /\ kids' = [t \in Task |-> IF t = running THEN <<>> ELSE RemoveFirst(kids[t], running)]
  /\ free' = Append(free, running)
  /\ credit' = [credit EXCEPT ![running] = 0]
  /\ Dispatch(ready)
  /\ UNCHANGED waiting

\* The end of a quantum. Idle is never queued.
Preempt ==
  /\ ready # <<>>
  /\ Dispatch(IF running = idle THEN ready ELSE Append(ready, running))
  /\ UNCHANGED <<free, waiting, kids, credit>>

Init ==
  \E first \in Task \ {idle} :
    /\ running = first
    /\ ready = <<>>
    /\ ToSet(free) = Task \ {idle, first}
    /\ IsInjective(free)
    /\ waiting = {}
    /\ kids = [t \in Task |-> <<>>]
    /\ credit = [t \in Task |-> 0]

Next == Fork \/ Block \/ Unblock \/ Exit \/ Preempt

Spec == Init /\ [][Next]_vars

=============================================================================
