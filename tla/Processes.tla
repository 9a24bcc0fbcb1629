----------------------------- MODULE Processes -----------------------------
(***************************************************************************)
(* The processes of project/Project/sys.c on top of Scheduler: which task  *)
(* is a thread of which, as master, num_threads and the list threads of    *)
(* each struct tell.  The nodes of that list are in the structs, so clone  *)
(* copies them with everything else; they are modelled with their          *)
(* pointers (LinkedList).  The exit of a process walks the list and kills  *)
(* the thread it finds at each node, wherever in the scheduler that is.    *)
(*                                                                         *)
(* A process is known by the struct of its first thread, its master.       *)
(* Programs follow a rule the kernel does not enforce: only first threads  *)
(* create threads and call exit.                                           *)
(***************************************************************************)
EXTENDS Scheduler, LinkedList

CONSTANTS
  ThreadsCreate,    \* TRUE for programs that break the rule
  ThreadsExit       \* TRUE for programs that break it in the other way

VARIABLES
  links,            \* the nodes threads and threads_list of every struct
  master,           \* task_struct.master
  num_threads,      \* task_struct.num_threads
  walk,             \* l_next in sys_exit
  initial,          \* whether the first process lives: not in the kernel
  orphaned          \* whether an exit has left a thread: nor this

procvars == <<links, master, num_threads, walk, initial, orphaned>>
allvars == <<vars, procvars>>

Threads(t) == <<"threads", t>>
ThreadsList(t) == <<"threads_list", t>>

Nodes == {"threads", "threads_list"} \X Task

ASSUME ProcessesAssumption ==
  /\ ThreadsCreate \in BOOLEAN /\ ThreadsExit \in BOOLEAN
  /\ Address = Nodes \cup {Null, Wild}
  /\ Null # Wild /\ {Null, Wild} \cap Nodes = {}

\* list_head_to_task_struct
StructOf(node) == node[2]

First(t) == master[t] = t

Alive == Task \ (ToSet(freequeue) \cup leaked \cup {Idle})

\* the other threads of the process of t
Group(t) == {k \in Alive \ {t} : master[k] = t}

\* zeros, but for what init_task1 sets
ProcInit ==
  /\ Init
  /\ LET zeros == [n \in Nodes \cup {Null} |-> IF n = Null THEN Wild ELSE Null]
     IN links = INIT_LIST_HEAD([next |-> zeros, prev |-> zeros], Threads(Task1))
  /\ master = [t \in Task |-> IF t = Task1 THEN Task1 ELSE Idle]
  /\ num_threads = [t \in Task |-> 0]
  /\ walk = Null
  /\ initial = TRUE /\ orphaned = FALSE

-----------------------------------------------------------------------------
(* sys_clone *)

Child == Head(freequeue)

\* copy_data: the child's struct becomes the caller's
Copied ==
  LET Of(l) == [l EXCEPT ![Threads(Child)] = l[Threads(current)],
                         ![ThreadsList(Child)] = l[ThreadsList(current)]]
  IN [next |-> Of(links.next), prev |-> Of(links.prev)]

\* num_threads stays what has been copied
ForkMutant ==
  /\ Clone
  /\ links' = INIT_LIST_HEAD(Copied, Threads(Child))
  /\ master' = [master EXCEPT ![Child] = Child]
  /\ num_threads' = [num_threads EXCEPT ![Child] = num_threads[current]]
  /\ UNCHANGED <<walk, initial, orphaned>>

\* the child's list is still the caller's
ForkListMutant ==
  /\ Clone
  /\ links' = Copied
  /\ master' = [master EXCEPT ![Child] = Child]
  /\ num_threads' = [num_threads EXCEPT ![Child] = 1]
  /\ UNCHANGED <<walk, initial, orphaned>>

Fork ==
  /\ Clone
  /\ links' = INIT_LIST_HEAD(Copied, Threads(Child))
  /\ master' = [master EXCEPT ![Child] = Child]
  /\ num_threads' = [num_threads EXCEPT ![Child] = 1]
  /\ UNCHANGED <<walk, initial, orphaned>>

CreateThread ==
  /\ First(current) \/ ThreadsCreate
  /\ Clone
  /\ links' = list_add_tail(Copied, ThreadsList(Child), Threads(current))
  /\ master' = [master EXCEPT ![Child] = current]
  /\ num_threads' = [num_threads EXCEPT ![Child] = num_threads[current],
                                        ![current] = num_threads[current] + 1]
  /\ UNCHANGED <<walk, initial, orphaned>>

\* a clone that fails leaves the copy
CreateFails ==
  /\ CloneNoFrames \/ CloneNoPages
  /\ links' = Copied
  /\ master' = [master EXCEPT ![Child] = master[current]]
  /\ num_threads' = [num_threads EXCEPT ![Child] = num_threads[current]]
  /\ UNCHANGED <<walk, initial, orphaned>>

-----------------------------------------------------------------------------
(* sys_exit and sys_pthread_exit *)

KillsThreads == First(current) /\ num_threads[current] > 1

\* l of list_for_each_safe
Victim == IF reaping THEN walk ELSE links.next[Threads(current)]

(***************************************************************************)
(* One round of the loop.  ExitKillsItsThreads is about what Victim is: a  *)
(* node of a free struct, or none, is met by programs that break the rule. *)
(***************************************************************************)
ExitKillsThread ==
  /\ KillsThreads
  /\ Victim \in Nodes \ {Threads(current)}
  /\ ExitKills
  /\ IF crashed' THEN StructOf(Victim) \in Lost
     ELSE freequeue' = Append(freequeue, StructOf(Victim))
  /\ walk' = links.next[Victim]
  /\ links' = list_del(links, ThreadsList(StructOf(Victim)))
  /\ UNCHANGED <<master, num_threads, initial, orphaned>>

\* what the struct says of threads and master stays there
ExitProcess ==
  /\ Exit
  /\ First(current) \/ ThreadsExit
  /\ KillsThreads => Victim = Threads(current)
  /\ walk' = Null
  /\ initial' = (initial /\ current # Task1)
  /\ orphaned' = (orphaned \/ Group(current) # {})
  /\ UNCHANGED <<links, master, num_threads>>

\* the thread decrements its own count
pthread_exitMutant ==
  /\ ~First(current)
  /\ Exit
  /\ num_threads' = [num_threads EXCEPT ![current] = @ - 1]
  /\ links' = list_del(links, ThreadsList(current))
  /\ UNCHANGED <<master, walk, initial, orphaned>>

\* for a first thread it is sys_exit
pthread_exit ==
  /\ ~First(current)
  /\ Exit
  /\ num_threads' = [num_threads EXCEPT ![master[current]] = @ - 1]
  /\ links' = list_del(links, ThreadsList(current))
  /\ UNCHANGED <<master, walk, initial, orphaned>>

-----------------------------------------------------------------------------
\* the other entry points of the scheduler do not touch these fields
OtherStep ==
  /\ \/ Clock \/ TscTick \/ Crashed \/ Yield
     \/ \E p \in Priorities : SetPriority(p)
     \/ \E k \in 1 .. MaxPause : Pause(k)
  /\ UNCHANGED procvars

ProcNext ==
  \/ OtherStep
  \/ Fork \/ CreateThread \/ CreateFails
  \/ ExitKillsThread \/ ExitProcess \/ pthread_exit

ProcSpec == ProcInit /\ [][ProcNext]_allvars

-----------------------------------------------------------------------------
(* Properties *)

\* num_threads, also in structs that are free, is below 0 only where exits of threads
\* without a process have decremented it: in the struct that took the place of their
\* master's, then in a thread of that one, to which clone copies the count, and then in
\* the struct of a clone of this thread that fails.
ProcTypeOK ==
  /\ links \in [next : [Nodes \cup {Null} -> Nodes \cup {Null, Wild}],
                prev : [Nodes \cup {Null} -> Nodes \cup {Null, Wild}]]
  /\ master \in [Task -> Task]
  /\ num_threads \in [Task -> IF orphaned THEN -3 * NR_TASKS .. NR_TASKS ELSE 0 .. NR_TASKS]
  /\ walk \in Nodes \cup {Null}
  /\ initial \in BOOLEAN /\ orphaned \in BOOLEAN

\* The list of t is a ring of the nodes of its group.
RingOfThreads(t) ==
  LET path == Path(links, Threads(t)) IN
  /\ IsInjective(path)
  /\ ToSet(path) = {Threads(t)} \cup {ThreadsList(k) : k \in Group(t)}
  /\ Returns(links, Threads(t))
  /\ \A n \in ToSet(path) : links.prev[links.next[n]] = n

(***************************************************************************)
(* Whatever is copied by clone, and left in structs by those that fail and *)
(* by exits, each process that lives finds all its threads, and only them, *)
(* in its list, has counted them, and every thread has a process; until an *)
(* exit has left a thread, or the clock's walk has made a free struct      *)
(* ready.  The exit is only ever that of the first process with one        *)
(* thread, since its count starts at 0.                                    *)
(***************************************************************************)
ThreadsKnown ==
  /\ orphaned => ~initial
  /\ ~orphaned /\ ~crashed =>
       \A t \in Alive :
         /\ master[t] \in Alive
         /\ First(t) /\ ~(reaping /\ t = current) =>
              /\ RingOfThreads(t)
              /\ num_threads[t] = Cardinality(Group(t)) +
                                  (IF initial /\ t = Task1 THEN 0 ELSE 1)

(***************************************************************************)
(* Every node at which exit kills is that of a thread of the process, even *)
(* when a thread has been left: sys_exit never takes a free struct, its    *)
(* own or another process's thread, and never leaves the list.             *)
(***************************************************************************)
ExitKillsItsThreads ==
  Exiting /\ KillsThreads /\ Victim # Threads(current)
    => Victim \in {ThreadsList(k) : k \in Group(current)}

=============================================================================
