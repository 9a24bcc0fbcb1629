-------------------------- MODULE ProcessesProofs --------------------------
(***************************************************************************)
(* The two components that extend Scheduler, for any number of tasks.      *)
(*                                                                         *)
(* Processes: what list.c promises for any memory with any number of lists *)
(* in it and, for programs that keep the rule, that every process knows    *)
(* its threads and kills no others.                                        *)
(*                                                                         *)
(* ProcInv is inductive.  A list is a Ring of the nodes of a process, with *)
(* its nodes numbered, while no exit has left a thread; Paired is what is  *)
(* left of this when one has, and is all that exit needs.  Bounded and     *)
(* Counted say the same of num_threads.  ProcOver is what is left when the *)
(* kernel crashes inside the clock's walk.                                 *)
(*                                                                         *)
(* Semaphores (the last part): who waits, and what the counts say of it.   *)
(* Both rest on SchedInv, which every step of theirs keeps because it is a *)
(* step of the scheduler (ProcStepRefines, StepRefines).                   *)
(***************************************************************************)
EXTENDS Processes, Semaphores, SchedulerProofs, FiniteSetTheorems

-----------------------------------------------------------------------------
(* The operations of list.c *)

\* A memory of these addresses, the pointers of which point into it.
MemoryOf(M) == [next : [M -> M], prev : [M -> M]]

\* next and prev of a list just made; no other node points to its head.
THEOREM InitKeepsLists ==
  ASSUME NEW M, Null \in M, NEW m \in MemoryOf(M), DoublyLinked(m),
         NEW list \in M \ {Null}, list \notin Linked(m)
  PROVE  /\ DoublyLinked(INIT_LIST_HEAD(m, list))
         /\ Linked(INIT_LIST_HEAD(m, list)) = Linked(m) \cup {list}
         /\ list_empty(INIT_LIST_HEAD(m, list), list)
<1> DEFINE r == INIT_LIST_HEAD(m, list)
<1>1. r \in MemoryOf(M)
  BY DEF INIT_LIST_HEAD, MemoryOf
<1>2. r.next[list] = list /\ r.prev[list] = list
  BY DEF INIT_LIST_HEAD, MemoryOf
<1>3. \A n \in M \ {list} : r.next[n] = m.next[n] /\ r.prev[n] = m.prev[n]
  BY DEF INIT_LIST_HEAD, MemoryOf
<1>4. Linked(r) = Linked(m) \cup {list}
  BY <1>1, <1>2, <1>3 DEF Linked, MemoryOf
<1>5. DoublyLinked(r)
  BY <1>1, <1>2, <1>3, <1>4 DEF DoublyLinked, Linked, MemoryOf
<1> QED
  BY <1>2, <1>4, <1>5 DEF list_empty

(***************************************************************************)
(* __list_add between a node and its successor.  The new node must not be  *)
(* linked: kernel routines that insert a struct that is still in a queue   *)
(* break what this theorem assumes.                                        *)
(***************************************************************************)
THEOREM AddKeepsLists ==
  ASSUME NEW M, Null \in M, NEW m \in MemoryOf(M), DoublyLinked(m),
         NEW new \in M \ {Null}, new \notin Linked(m),
         NEW prev \in Linked(m)
  PROVE  LET r == __list_add(m, new, prev, m.next[prev]) IN
           /\ DoublyLinked(r)
           /\ Linked(r) = Linked(m) \cup {new}
           /\ r.next[prev] = new /\ r.next[new] = m.next[prev]
<1> DEFINE next == m.next[prev]
           r == __list_add(m, new, prev, next)
<1>1. next \in Linked(m) /\ m.prev[next] = prev /\ next # new /\ prev # new
  BY DEF DoublyLinked
<1>2. prev \in M /\ next \in M /\ Null \notin Linked(m) /\ Linked(m) \subseteq M
  BY <1>1 DEF Linked, MemoryOf
<1>3. r \in MemoryOf(M)
  BY <1>2 DEF __list_add, MemoryOf
<1>4. /\ r.next[new] = next /\ r.next[prev] = new
      /\ \A n \in M \ {new, prev} : r.next[n] = m.next[n]
  BY <1>1, <1>2 DEF __list_add, MemoryOf
<1>5. /\ r.prev[new] = prev /\ r.prev[next] = new
      /\ \A n \in M \ {new, next} : r.prev[n] = m.prev[n]
  BY <1>1, <1>2 DEF __list_add, MemoryOf
<1>6. Linked(r) = Linked(m) \cup {new}
  <2>1. \A n \in M : n \in Linked(m) <=> n # Null /\ m.next[n] # Null
    BY DEF Linked, MemoryOf
  <2>2. \A n \in M : n \in Linked(r) <=> n # Null /\ r.next[n] # Null
    BY <1>3 DEF Linked, MemoryOf
  <2>3. Linked(r) \subseteq M
    BY <1>3 DEF Linked, MemoryOf
  <2> QED
    BY <1>1, <1>2, <1>4, <2>1, <2>2, <2>3
<1>7. DoublyLinked(r)
  <2> SUFFICES ASSUME NEW n \in Linked(r)
               PROVE  /\ r.next[n] \in Linked(r) /\ r.prev[n] \in Linked(r)
                      /\ r.prev[r.next[n]] = n /\ r.next[r.prev[n]] = n
    BY DEF DoublyLinked
  <2>1. \A k \in Linked(m) : /\ m.next[k] \in Linked(m) /\ m.prev[k] \in Linked(m)
                             /\ m.prev[m.next[k]] = k /\ m.next[m.prev[k]] = k
    BY DEF DoublyLinked
  <2>2. CASE n = new
    BY <2>2, <1>1, <1>4, <1>5, <1>6
  <2>3. CASE n # new
    <3>1. n \in Linked(m)
      BY <2>3, <1>6
    <3>2. r.next[n] \in Linked(r) /\ r.prev[r.next[n]] = n
      BY <3>1, <2>1, <1>1, <1>2, <1>4, <1>5, <1>6
    <3>3. r.prev[n] \in Linked(r) /\ r.next[r.prev[n]] = n
      BY <3>1, <2>1, <1>1, <1>2, <1>4, <1>5, <1>6
    <3> QED
      BY <3>2, <3>3
  <2> QED
    BY <2>2, <2>3
<1> QED
  BY <1>4, <1>6, <1>7

\* A struct put at the tail comes before the head.
THEOREM AddTailKeepsLists ==
  ASSUME NEW M, Null \in M, NEW m \in MemoryOf(M), DoublyLinked(m),
         NEW new \in M \ {Null}, new \notin Linked(m),
         NEW head \in Linked(m)
  PROVE  /\ DoublyLinked(list_add_tail(m, new, head))
         /\ Linked(list_add_tail(m, new, head)) = Linked(m) \cup {new}
         /\ list_add_tail(m, new, head).next[new] = head
<1>1. m.prev[head] \in Linked(m) /\ m.next[m.prev[head]] = head
  BY DEF DoublyLinked
<1>2. list_add_tail(m, new, head) = __list_add(m, new, m.prev[head], m.next[m.prev[head]])
  BY <1>1 DEF list_add_tail
<1> QED
  BY <1>1, <1>2, AddKeepsLists

(***************************************************************************)
(* list_del of a node of any list, the last one of its ring included.  A   *)
(* node that is linked nowhere has null links, through which it would      *)
(* write: its callers have to know.                                        *)
(***************************************************************************)
THEOREM DelKeepsLists ==
  ASSUME NEW M, Null \in M, NEW m \in MemoryOf(M), DoublyLinked(m),
         NEW entry \in Linked(m)
  PROVE  /\ DoublyLinked(list_del(m, entry))
         /\ Linked(list_del(m, entry)) = Linked(m) \ {entry}
<1> DEFINE next == m.next[entry]
           prev == m.prev[entry]
           r == list_del(m, entry)
<1>1. /\ next \in Linked(m) /\ prev \in Linked(m)
      /\ m.prev[next] = entry /\ m.next[prev] = entry
  BY DEF DoublyLinked
<1>2. Null \notin Linked(m) /\ Linked(m) \subseteq M
  BY DEF Linked, MemoryOf
<1>3. /\ r.next[entry] = Null
      /\ \A n \in M \ {entry} : r.next[n] = IF n = prev THEN next ELSE m.next[n]
  BY <1>1, <1>2 DEF list_del, MemoryOf
<1>4. \A n \in M \ {entry} : r.prev[n] = IF n = next THEN prev ELSE m.prev[n]
  BY <1>1, <1>2 DEF list_del, MemoryOf
<1>5. r \in MemoryOf(M)
  BY <1>1, <1>2 DEF list_del, MemoryOf
<1>6. Linked(r) = Linked(m) \ {entry}
  <2>1. \A n \in M : n \in Linked(m) <=> n # Null /\ m.next[n] # Null
    BY DEF Linked, MemoryOf
  <2>2. \A n \in M : n \in Linked(r) <=> n # Null /\ r.next[n] # Null
    BY <1>5 DEF Linked, MemoryOf
  <2>3. Linked(r) \subseteq M
    BY <1>5 DEF Linked, MemoryOf
  <2> QED
    BY <1>1, <1>2, <1>3, <2>1, <2>2, <2>3
<1>7. DoublyLinked(r)
  <2> SUFFICES ASSUME NEW n \in Linked(r)
               PROVE  /\ r.next[n] \in Linked(r) /\ r.prev[n] \in Linked(r)
                      /\ r.prev[r.next[n]] = n /\ r.next[r.prev[n]] = n
    BY DEF DoublyLinked
  <2>1. \A k \in Linked(m) : /\ m.next[k] \in Linked(m) /\ m.prev[k] \in Linked(m)
                             /\ m.prev[m.next[k]] = k /\ m.next[m.prev[k]] = k
    BY DEF DoublyLinked
  <2>2. n \in Linked(m) /\ n # entry
    BY <1>6
  <2>3. r.next[n] \in Linked(r) /\ r.prev[r.next[n]] = n
    BY <2>1, <2>2, <1>1, <1>2, <1>3, <1>4, <1>6
  <2>4. r.prev[n] \in Linked(r) /\ r.next[r.prev[n]] = n
    BY <2>1, <2>2, <1>1, <1>2, <1>3, <1>4, <1>6
  <2> QED
    BY <2>3, <2>4
<1> QED
  BY <1>6, <1>7

-----------------------------------------------------------------------------
(* The processes *)

LEMMA ProcStepRefines == [ProcNext]_allvars => [Next]_vars
<1> SUFFICES ASSUME [ProcNext]_allvars PROVE [Next]_vars
  OBVIOUS
<1>1. CASE OtherStep
  BY <1>1 DEF OtherStep, Next, SystemCall
<1>2. CASE Fork \/ CreateThread \/ CreateFails
  BY <1>2 DEF Fork, CreateThread, CreateFails, Next, SystemCall
<1>3. CASE ExitKillsThread \/ ExitProcess \/ pthread_exit
  BY <1>3 DEF ExitKillsThread, ExitProcess, pthread_exit, Next, SystemCall
<1>4. CASE UNCHANGED allvars
  BY <1>4 DEF allvars, vars
<1> QED
  BY <1>1, <1>2, <1>3, <1>4 DEF ProcNext

-----------------------------------------------------------------------------
(* Rings of nodes *)

LinkMemory == [next : [Nodes \cup {Null} -> Nodes \cup {Null, Wild}],
               prev : [Nodes \cup {Null} -> Nodes \cup {Null, Wild}]]

After(i, n) == IF i = n THEN 1 ELSE i + 1
Before(i, n) == IF i = 1 THEN n ELSE i - 1

\* q numbers the nodes of a ring of m from its head on
Numbers(q, n, m) ==
  /\ q \in [1 .. n -> Nodes]
  /\ \A i, j \in 1 .. n : q[i] = q[j] => i = j
  /\ \A i \in 1 .. n : m.next[q[i]] = q[After(i, n)] /\ m.prev[q[i]] = q[Before(i, n)]

\* the nodes of S are a ring, with head
Ring(m, head, S) ==
  \E n \in Nat \ {0} : \E q \in [1 .. n -> Nodes] :
    Numbers(q, n, m) /\ q[1] = head /\ S = {q[i] : i \in 1 .. n}

LEMMA RingAlone ==
  ASSUME NEW m \in LinkMemory, NEW head \in Nodes
  PROVE  Ring(INIT_LIST_HEAD(m, head), head, {head})
<1> DEFINE r == INIT_LIST_HEAD(m, head)
           q == [i \in 1 .. 1 |-> head]
<1>1. r.next[head] = head /\ r.prev[head] = head
  BY DEF INIT_LIST_HEAD, LinkMemory
<1>2. Numbers(q, 1, r)
  BY <1>1 DEF Numbers, After, Before
<1>3. {head} = {q[i] : i \in 1 .. 1} /\ q[1] = head
  OBVIOUS
<1>4. q \in [1 .. 1 -> Nodes] /\ 1 \in Nat \ {0}
  OBVIOUS
<1> HIDE DEF q
<1> QED
  BY <1>2, <1>3, <1>4 DEF Ring

\* A memory with the same links at the nodes of the ring
LEMMA RingElsewhere ==
  ASSUME NEW m, NEW r, NEW head, NEW S, Ring(m, head, S),
         \A x \in S : r.next[x] = m.next[x] /\ r.prev[x] = m.prev[x]
  PROVE  Ring(r, head, S)
<1>0. PICK n \in Nat \ {0} : \E q \in [1 .. n -> Nodes] :
        Numbers(q, n, m) /\ q[1] = head /\ S = {q[i] : i \in 1 .. n}
  BY DEF Ring
<1>1. PICK q \in [1 .. n -> Nodes] :
        Numbers(q, n, m) /\ q[1] = head /\ S = {q[i] : i \in 1 .. n}
  BY <1>0
<1>2. Numbers(q, n, r)
  BY <1>1 DEF Numbers
<1> QED
  BY <1>1, <1>2 DEF Ring

\* An empty list is the ring of its head.
LEMMA RingEmpty ==
  ASSUME NEW m, NEW head, NEW S, Ring(m, head, S), m.next[head] = head
  PROVE  S = {head}
<1>0. PICK n \in Nat \ {0} : \E q \in [1 .. n -> Nodes] :
        Numbers(q, n, m) /\ q[1] = head /\ S = {q[i] : i \in 1 .. n}
  BY DEF Ring
<1>1. PICK q \in [1 .. n -> Nodes] :
        Numbers(q, n, m) /\ q[1] = head /\ S = {q[i] : i \in 1 .. n}
  BY <1>0
<1>2. 1 \in 1 .. n /\ After(1, n) \in 1 .. n
  BY DEF After
<1>3. q[After(1, n)] = q[1]
  BY <1>1, <1>2 DEF Numbers
<1>4. After(1, n) = 1
  BY <1>1, <1>2, <1>3 DEF Numbers
<1>5. n = 1
  BY <1>4 DEF After
<1> QED
  BY <1>1, <1>5

\* list_add_tail of a node that is not in the ring
LEMMA RingAppend ==
  ASSUME NEW m \in LinkMemory, NEW head, NEW S, Ring(m, head, S),
         NEW new \in Nodes, new \notin S
  PROVE  Ring(list_add_tail(m, new, head), head, S \cup {new})
<1>0. PICK n \in Nat \ {0} : \E q \in [1 .. n -> Nodes] :
        Numbers(q, n, m) /\ q[1] = head /\ S = {q[i] : i \in 1 .. n}
  BY DEF Ring
<1>1. PICK q \in [1 .. n -> Nodes] :
        Numbers(q, n, m) /\ q[1] = head /\ S = {q[i] : i \in 1 .. n}
  BY <1>0
<1> DEFINE r == list_add_tail(m, new, head)
           p == [i \in 1 .. n + 1 |-> IF i = n + 1 THEN new ELSE q[i]]
<1>2. m.prev[head] = q[n] /\ q[n] \in Nodes /\ head \in Nodes /\ head \in S /\ q[n] \in S
  BY <1>1 DEF Numbers, Before
<1>3. /\ r.next[new] = head /\ r.next[q[n]] = new
      /\ \A x \in Nodes : x # new /\ x # q[n] => r.next[x] = m.next[x]
  BY <1>2 DEF list_add_tail, __list_add, LinkMemory
<1>4. /\ r.prev[new] = q[n] /\ r.prev[head] = new
      /\ \A x \in Nodes : x # new /\ x # head => r.prev[x] = m.prev[x]
  BY <1>2 DEF list_add_tail, __list_add, LinkMemory
<1>5. \A i \in 1 .. n : q[i] \in Nodes /\ q[i] \in S /\ q[i] # new
  BY <1>1
<1>6. \A i, j \in 1 .. n : q[i] = q[j] => i = j
  BY <1>1 DEF Numbers
<1>7. \A i \in 1 .. n : m.next[q[i]] = q[After(i, n)] /\ m.prev[q[i]] = q[Before(i, n)]
  BY <1>1 DEF Numbers
<1> HIDE DEF r
<1>8. p \in [1 .. n + 1 -> Nodes]
  OBVIOUS
<1>9. ASSUME NEW i \in 1 .. n + 1, NEW j \in 1 .. n + 1, p[i] = p[j]
      PROVE  i = j
  <2>1. \A k \in 1 .. n + 1 : k = n + 1 \/ k \in 1 .. n
    OBVIOUS
  <2> QED
    BY <1>5, <1>6, <1>9, <2>1
<1>10. ASSUME NEW i \in 1 .. n + 1 PROVE r.next[p[i]] = p[After(i, n + 1)]
  <2>1. CASE i = n + 1
    <3>1. After(i, n + 1) = 1 /\ p[1] = head /\ p[i] = new
      BY <2>1, <1>1 DEF After
    <3> QED
      BY <3>1, <1>3
  <2>2. CASE i = n
    <3>1. After(i, n + 1) = n + 1 /\ p[n + 1] = new /\ p[i] = q[n]
      BY <2>2 DEF After
    <3> QED
      BY <3>1, <1>3
  <2>3. CASE i # n /\ i # n + 1
    <3>1. i \in 1 .. n /\ n \in 1 .. n /\ After(i, n + 1) = i + 1 /\ After(i, n) = i + 1
          /\ p[i] = q[i] /\ p[i + 1] = q[i + 1]
      BY <2>3 DEF After
    <3>2. q[i] # q[n] /\ q[i] # new
      BY <3>1, <2>3, <1>5, <1>6
    <3> QED
      BY <3>1, <3>2, <1>3, <1>5, <1>7
  <2> QED
    BY <2>1, <2>2, <2>3
<1>11. ASSUME NEW i \in 1 .. n + 1 PROVE r.prev[p[i]] = p[Before(i, n + 1)]
  <2>1. CASE i = n + 1
    <3>1. Before(i, n + 1) = n /\ p[n] = q[n] /\ p[i] = new
      BY <2>1 DEF Before
    <3> QED
      BY <3>1, <1>4
  <2>2. CASE i = 1
    <3>1. Before(i, n + 1) = n + 1 /\ p[n + 1] = new /\ p[i] = head
      BY <2>2, <1>1 DEF Before
    <3> QED
      BY <3>1, <1>4
  <2>3. CASE i # 1 /\ i # n + 1
    <3>1. i \in 1 .. n /\ 1 \in 1 .. n /\ Before(i, n + 1) = i - 1 /\ Before(i, n) = i - 1
          /\ p[i] = q[i] /\ p[i - 1] = q[i - 1]
      BY <2>3 DEF Before
    <3>2. q[i] # head /\ q[i] # new
      BY <3>1, <2>3, <1>1, <1>5, <1>6
    <3> QED
      BY <3>1, <3>2, <1>4, <1>5, <1>7
  <2> QED
    BY <2>1, <2>2, <2>3
<1>12. Numbers(p, n + 1, r)
  BY <1>8, <1>9, <1>10, <1>11 DEF Numbers
<1>13. S \cup {new} = {p[i] : i \in 1 .. n + 1} /\ p[1] = head
  <2>1. \A i \in 1 .. n : i \in 1 .. n + 1 /\ p[i] = q[i]
    OBVIOUS
  <2>2. n + 1 \in 1 .. n + 1 /\ p[n + 1] = new /\ p[1] = head
    BY <1>1
  <2>3. \A i \in 1 .. n + 1 : i # n + 1 => i \in 1 .. n
    OBVIOUS
  <2> HIDE DEF p
  <2> QED
    BY <1>1, <2>1, <2>2, <2>3
<1>14. n + 1 \in Nat \ {0}
  OBVIOUS
<1> HIDE DEF p
<1> QED
  BY <1>8, <1>12, <1>13, <1>14 DEF Ring, r

\* list_del of a node other than the head
LEMMA RingDelete ==
  ASSUME NEW m \in LinkMemory, NEW head, NEW S, Ring(m, head, S),
         NEW entry \in S, entry # head
  PROVE  Ring(list_del(m, entry), head, S \ {entry})
<1>0. PICK n \in Nat \ {0} : \E q \in [1 .. n -> Nodes] :
        Numbers(q, n, m) /\ q[1] = head /\ S = {q[i] : i \in 1 .. n}
  BY DEF Ring
<1>1. PICK q \in [1 .. n -> Nodes] :
        Numbers(q, n, m) /\ q[1] = head /\ S = {q[i] : i \in 1 .. n}
  BY <1>0
<1>2. PICK e \in 1 .. n : q[e] = entry
  BY <1>1
<1> DEFINE r == list_del(m, entry)
           up(i) == IF i < e THEN i ELSE i + 1
           p == [i \in 1 .. n - 1 |-> q[up(i)]]
<1>3. e # 1 /\ e \in 2 .. n
  BY <1>1, <1>2
<1>4. \A i, j \in 1 .. n : q[i] = q[j] => i = j
  BY <1>1 DEF Numbers
<1>5. \A i \in 1 .. n : q[i] \in Nodes /\ m.next[q[i]] = q[After(i, n)]
                        /\ m.prev[q[i]] = q[Before(i, n)]
  BY <1>1 DEF Numbers
<1>6. /\ After(e, n) \in 1 .. n /\ After(e, n) # e
      /\ Before(e, n) = e - 1 /\ e - 1 \in 1 .. n
  BY <1>3 DEF After, Before
<1> DEFINE a == q[After(e, n)]
           b == q[e - 1]
<1>7. a \in Nodes /\ b \in Nodes /\ a # entry /\ b # entry /\ entry \in Nodes
      /\ m.next[entry] = a /\ m.prev[entry] = b
  <2>1. e - 1 # e
    BY <1>3
  <2> QED
    BY <1>2, <1>4, <1>5, <1>6, <2>1
<1> HIDE DEF a, b
<1>8. /\ \A x \in Nodes \ {entry} : r.next[x] = IF x = b THEN a ELSE m.next[x]
      /\ \A x \in Nodes \ {entry} : r.prev[x] = IF x = a THEN b ELSE m.prev[x]
  BY <1>7 DEF list_del, LinkMemory
<1> HIDE DEF r
<1>9. \A i \in 1 .. n - 1 : up(i) \in 1 .. n /\ up(i) # e /\ p[i] = q[up(i)]
  BY <1>3
<1>10. p \in [1 .. n - 1 -> Nodes]
  BY <1>9
<1>11. ASSUME NEW i \in 1 .. n - 1, NEW j \in 1 .. n - 1, p[i] = p[j]
       PROVE  i = j
  <2>1. up(i) = up(j)
    BY <1>4, <1>9, <1>11
  <2> QED
    BY <2>1, <1>3
<1>12. \A i \in 1 .. n - 1 : p[i] \in Nodes \ {entry}
  BY <1>2, <1>4, <1>9
<1>13. ASSUME NEW i \in 1 .. n - 1 PROVE r.next[p[i]] = p[After(i, n - 1)]
  <2>0. After(i, n - 1) \in 1 .. n - 1
    BY DEF After
  <2>1. CASE i = e - 1
    <3>1. up(i) = i /\ p[i] = b
      BY <2>1, <1>3, <1>9 DEF b
    <3>2. up(After(i, n - 1)) = After(e, n)
      BY <2>1, <1>3 DEF After
    <3> QED
      BY <3>1, <3>2, <1>8, <1>9, <1>12, <2>0 DEF a
  <2>2. CASE i # e - 1
    <3>1. up(i) # e - 1
      BY <2>2, <1>3
    <3>2. p[i] # b
      BY <3>1, <1>4, <1>6, <1>9 DEF b
    <3>3. up(After(i, n - 1)) = After(up(i), n)
      BY <2>2, <1>3 DEF After
    <3>4. r.next[p[i]] = m.next[q[up(i)]]
      BY <3>2, <1>8, <1>9, <1>12
    <3> QED
      BY <3>3, <3>4, <1>5, <1>9, <2>0
  <2> QED
    BY <2>1, <2>2
<1>14. ASSUME NEW i \in 1 .. n - 1 PROVE r.prev[p[i]] = p[Before(i, n - 1)]
  <2>0. Before(i, n - 1) \in 1 .. n - 1
    BY DEF Before
  <2>1. CASE up(i) = After(e, n)
    <3>1. p[i] = a
      BY <2>1, <1>9 DEF a
    <3>2. up(Before(i, n - 1)) = e - 1
      BY <2>1, <1>3 DEF After, Before
    <3> QED
      BY <3>1, <3>2, <1>8, <1>9, <1>12, <2>0 DEF b
  <2>2. CASE up(i) # After(e, n)
    <3>2. p[i] # a
      BY <2>2, <1>4, <1>6, <1>9 DEF a
    <3>3. up(Before(i, n - 1)) = Before(up(i), n)
      BY <2>2, <1>3 DEF After, Before
    <3>4. r.prev[p[i]] = m.prev[q[up(i)]]
      BY <3>2, <1>8, <1>9, <1>12
    <3> QED
      BY <3>3, <3>4, <1>5, <1>9, <2>0
  <2> QED
    BY <2>1, <2>2
<1>15. Numbers(p, n - 1, r)
  <2> HIDE DEF p
  <2> QED
    BY <1>10, <1>11, <1>13, <1>14 DEF Numbers
<1>16. S \ {entry} = {p[i] : i \in 1 .. n - 1}
  <2>1. \A i \in 1 .. n - 1 : p[i] \in S \ {entry}
    BY <1>1, <1>9, <1>12
  <2>2. ASSUME NEW j \in 1 .. n, j # e PROVE \E i \in 1 .. n - 1 : p[i] = q[j]
    <3>1. CASE j < e
      <4>1. j \in 1 .. n - 1 /\ up(j) = j
        BY <3>1, <1>3
      <4> QED
        BY <4>1, <1>9
    <3>2. CASE ~(j < e)
      <4>1. j - 1 \in 1 .. n - 1 /\ up(j - 1) = j
        BY <3>2, <2>2, <1>3
      <4> QED
        BY <4>1, <1>9
    <3> QED
      BY <3>1, <3>2
  <2> HIDE DEF p
  <2> QED
    BY <1>1, <1>2, <2>1, <2>2
<1>17. n - 1 \in Nat \ {0} /\ p[1] = head
  BY <1>1, <1>3
<1> HIDE DEF p
<1> QED
  BY <1>10, <1>15, <1>16, <1>17 DEF Ring, r

-----------------------------------------------------------------------------
(* Walks *)

LEMMA TaskFinite == IsFiniteSet(Task) /\ Cardinality(Task) = NR_TASKS
<1>1. 0 \in Int /\ NR_TASKS - 1 \in Int /\ ~(0 > NR_TASKS - 1)
  BY SchedulerAssumption
<1>2. IsFiniteSet(0 .. NR_TASKS - 1)
      /\ Cardinality(0 .. NR_TASKS - 1) = (NR_TASKS - 1) - 0 + 1
  BY <1>1, FS_Interval
<1> QED
  BY <1>2, SchedulerAssumption DEF Task

LEMMA AddressFinite == IsFiniteSet(Address)
<1>1. IsFiniteSet({"threads", "threads_list"})
  <2>1. IsFiniteSet({} \cup {"threads"})
    BY FS_EmptySet, FS_AddElement
  <2>2. IsFiniteSet(({} \cup {"threads"}) \cup {"threads_list"})
    BY <2>1, FS_AddElement
  <2>3. ({} \cup {"threads"}) \cup {"threads_list"} = {"threads", "threads_list"}
    OBVIOUS
  <2> QED
    BY <2>2, <2>3
<1>2. IsFiniteSet(Nodes)
  BY <1>1, TaskFinite, FS_Product DEF Nodes
<1>3. Address = (Nodes \cup {Null}) \cup {Wild}
  BY ProcessesAssumption
<1> QED
  BY <1>2, <1>3, FS_AddElement

\* The walk of Path
IsWalk(g, m, head) ==
  g = [left \in 0 .. Cardinality(Address) |->
        [node \in Address |->
           IF node \in {head, Null, Wild} \/ left = 0 THEN <<node>>
           ELSE <<node>> \o g[left - 1][m.next[node]]]]

LEMMA WalkExists ==
  ASSUME NEW m \in LinkMemory, NEW head \in Nodes
  PROVE  \E g : IsWalk(g, m, head)
<1> DEFINE S == [Address -> Seq(Address)]
           base == [node \in Address |-> <<node>>]
           on(f) == [node \in Address |->
                       IF node \in {head, Null, Wild} THEN <<node>>
                       ELSE <<node>> \o f[m.next[node]]]
           step == [p \in S \X (1 .. Cardinality(Address)) |-> on(p[1])]
<1>0. PICK n \in Nat : n = Cardinality(Address)
  BY AddressFinite, FS_CardinalityType
<1>1. base \in S
  OBVIOUS
<1>2. ASSUME NEW f \in S PROVE on(f) \in S
  <2>1. ASSUME NEW node \in Address, node \notin {head, Null, Wild}
        PROVE  <<node>> \o f[m.next[node]] \in Seq(Address)
    <3>1. node \in Nodes
      BY <2>1, ProcessesAssumption
    <3>2. m.next[node] \in Address
      BY <3>1, ProcessesAssumption DEF LinkMemory
    <3>3. <<node>> \in Seq(Address) /\ f[m.next[node]] \in Seq(Address)
      BY <3>2
    <3> QED
      BY <3>3, ConcatProperties
  <2>2. \A node \in Address : <<node>> \in Seq(Address)
    OBVIOUS
  <2> QED
    BY <2>1, <2>2
<1>3. step \in [S \X (1 .. n) -> S]
  <2> HIDE DEF S, on
  <2> QED
    BY <1>0, <1>2
<1>4. PICK f \in Runs(n, S, base, step) : TRUE
  <2> HIDE DEF step, S, base
  <2> QED
    BY <1>1, <1>3, Recurrence
<1>5. /\ f \in [0 .. n -> S] /\ f[0] = base
      /\ \A i \in 1 .. n : f[i] = step[<<f[i - 1], i>>]
  BY DEF Runs
<1>6. ASSUME NEW i \in 1 .. n PROVE f[i] = on(f[i - 1])
  <2>1. f[i - 1] \in S
    BY <1>5
  <2> HIDE DEF S, on
  <2>2. <<f[i - 1], i>> \in S \X (1 .. Cardinality(Address))
    BY <1>0, <2>1
  <2>3. step[<<f[i - 1], i>>] = on(<<f[i - 1], i>>[1])
    BY <2>2
  <2> QED
    BY <1>5, <2>3
<1>7. f = [left \in 0 .. n |->
        [node \in Address |->
           IF node \in {head, Null, Wild} \/ left = 0 THEN <<node>>
           ELSE <<node>> \o f[left - 1][m.next[node]]]]
  <2>1. \A left \in 0 .. n : f[left] =
        [node \in Address |->
           IF node \in {head, Null, Wild} \/ left = 0 THEN <<node>>
           ELSE <<node>> \o f[left - 1][m.next[node]]]
    <3> TAKE left \in 0 .. n
    <3>1. CASE left = 0
      BY <3>1, <1>5
    <3>2. CASE left # 0
      <4>1. left \in 1 .. n
        BY <3>2
      <4> QED
        BY <4>1, <3>2, <1>6
    <3> QED
      BY <3>1, <3>2
  <2>2. f = [left \in 0 .. n |-> f[left]]
    BY <1>5
  <2> QED
    BY <2>1, <2>2
<1> QED
  BY <1>0, <1>7 DEF IsWalk

\* list_for_each over a ring: its nodes from the second on, then the head.
LEMMA RingPath ==
  ASSUME NEW m \in LinkMemory, NEW n \in Nat \ {0}, NEW q \in [1 .. n -> Nodes],
         Numbers(q, n, m)
  PROVE  Path(m, q[1]) = [i \in 1 .. n |-> q[After(i, n)]]
<1> DEFINE head == q[1]
           C == Cardinality(Address)
           g == CHOOSE g : IsWalk(g, m, head)
           at(i) == IF i = n + 1 THEN head ELSE q[i]
           rest(i) == [j \in 1 .. n + 2 - i |-> at(i + j - 1)]
<1>0. head \in Nodes /\ 1 \in 1 .. n
  OBVIOUS
<1>1. Path(m, head) = g[C][m.next[head]]
  BY DEF Path, IsWalk
<1>2. IsWalk(g, m, head)
  <2>1. \E f : IsWalk(f, m, head)
    BY <1>0, WalkExists
  <2> HIDE DEF head
  <2> QED
    BY <2>1
<1>3. C \in Nat
  BY AddressFinite, FS_CardinalityType
<1>4. n <= C
  <2>1. \A i, j \in 1 .. n : q[i] = q[j] => i = j
    BY DEF Numbers
  <2>2. q \in [1 .. n -> Address]
    BY ProcessesAssumption
  <2>3. q \in Injection(1 .. n, Address)
    BY <2>1, <2>2 DEF Injection, IsInjective
  <2>4. Cardinality(1 .. n) <= C
    BY <2>3, AddressFinite, FS_Injection
  <2>5. Cardinality(1 .. n) = n
    BY FS_Interval
  <2> QED
    BY <2>4, <2>5
<1> HIDE DEF g, C
<1>5. \A left \in 0 .. C, node \in Address :
        g[left][node] = IF node \in {head, Null, Wild} \/ left = 0 THEN <<node>>
                        ELSE <<node>> \o g[left - 1][m.next[node]]
  <2> TAKE left \in 0 .. C
  <2>1. g[left] = [node \in Address |->
                    IF node \in {head, Null, Wild} \/ left = 0 THEN <<node>>
                    ELSE <<node>> \o g[left - 1][m.next[node]]]
    BY <1>2 DEF IsWalk, C
  <2> QED
    BY <2>1
<1>6. \A i \in 2 .. n + 1 : at(i) \in Address
  BY ProcessesAssumption
<1>7. rest(n + 1) = <<head>>
  <2>1. n + 2 - (n + 1) = 1
    OBVIOUS
  <2>2. rest(n + 1) = [j \in 1 .. 1 |-> head]
    BY <2>1
  <2> QED
    BY <2>2
<1>8. ASSUME NEW i \in 2 .. n PROVE rest(i) = <<q[i]>> \o rest(i + 1)
  <2>1. n + 2 - (i + 1) \in Nat /\ n + 2 - (i + 1) + 1 = n + 2 - i
    OBVIOUS
  <2>2. \A j \in 1 .. n + 2 - (i + 1) : at(i + 1 + j - 1) \in Address
    BY <1>6
  <2>3. rest(i + 1) \in Seq(Address) /\ Len(rest(i + 1)) = n + 2 - (i + 1)
    BY <2>1, <2>2
  <2>4. q[i] \in Address
    BY ProcessesAssumption
  <2>5. <<q[i]>> \o rest(i + 1)
          = [j \in 1 .. n + 2 - i |-> IF j = 1 THEN q[i] ELSE rest(i + 1)[j - 1]]
    <3> HIDE DEF rest
    <3> QED
      BY <2>1, <2>3, <2>4, PutInFront
  <2>6. \A j \in 1 .. n + 2 - i :
          at(i + j - 1) = IF j = 1 THEN q[i] ELSE rest(i + 1)[j - 1]
    <3> TAKE j \in 1 .. n + 2 - i
    <3>1. CASE j = 1
      BY <3>1
    <3>2. CASE j # 1
      <4>1. j - 1 \in 1 .. n + 2 - (i + 1) /\ i + 1 + (j - 1) - 1 = i + j - 1
        BY <3>2
      <4> QED
        BY <3>2, <4>1
    <3> QED
      BY <3>1, <3>2
  <2> QED
    BY <2>5, <2>6
<1>9. ASSUME NEW i \in 2 .. n
      PROVE  q[i] \in Nodes /\ q[i] \notin {head, Null, Wild} /\ m.next[q[i]] = at(i + 1)
  <2>1. i \in 1 .. n /\ i # 1
    OBVIOUS
  <2>2. q[i] # head
    BY <1>0, <2>1 DEF Numbers
  <2>3. m.next[q[i]] = q[After(i, n)]
    BY <2>1 DEF Numbers
  <2>4. q[After(i, n)] = at(i + 1)
    BY DEF After
  <2> QED
    BY <2>1, <2>2, <2>3, <2>4, ProcessesAssumption
<1> HIDE DEF at, rest
<1> DEFINE Good(left) == \A i \in 2 .. n + 1 :
                           n + 1 - i <= left => g[left][at(i)] = rest(i)
           G == {left \in Nat : left <= C => Good(left)}
<1>10. at(n + 1) = head
  BY DEF at
<1>11. \A left \in 0 .. C : g[left][at(n + 1)] = rest(n + 1)
  BY <1>0, <1>5, <1>7, <1>10, ProcessesAssumption
<1>12. 0 \in G
  <2>1. \A i \in 2 .. n + 1 : n + 1 - i <= 0 => i = n + 1
    OBVIOUS
  <2> QED
    BY <2>1, <1>3, <1>11
<1>13. ASSUME NEW left \in Nat, left \in G PROVE left + 1 \in G
  <2> SUFFICES ASSUME left + 1 <= C, NEW i \in 2 .. n + 1, n + 1 - i <= left + 1
               PROVE  g[left + 1][at(i)] = rest(i)
    OBVIOUS
  <2>0. left + 1 \in 0 .. C /\ left + 1 # 0 /\ (left + 1) - 1 = left /\ left <= C
    BY <1>3
  <2>1. CASE i = n + 1
    BY <2>0, <2>1, <1>11
  <2>2. CASE i # n + 1
    <3>1. i \in 2 .. n /\ i + 1 \in 2 .. n + 1 /\ n + 1 - (i + 1) <= left
      BY <2>2
    <3>2. g[left][at(i + 1)] = rest(i + 1)
      BY <1>13, <2>0, <3>1
    <3>3. at(i) = q[i] /\ q[i] \in Address
      BY <3>1, <2>2, ProcessesAssumption DEF at
    <3>4. g[left + 1][q[i]] = <<q[i]>> \o g[left][m.next[q[i]]]
      <4>1. q[i] \notin {head, Null, Wild} /\ ~(left + 1 = 0)
        BY <1>9, <2>0, <3>1
      <4> DEFINE node == q[i]
                 k == left + 1
      <4>2. node \in Address /\ k \in 0 .. C /\ node \notin {head, Null, Wild} /\ k # 0
        BY <2>0, <3>3, <4>1
      <4> HIDE DEF node, k
      <4>3. g[k][node] = <<node>> \o g[k - 1][m.next[node]]
        BY <1>5, <4>2
      <4> QED
        BY <2>0, <4>3 DEF node, k
    <3> QED
      BY <1>8, <1>9, <3>1, <3>2, <3>3, <3>4
  <2> QED
    BY <2>1, <2>2
<1>14. Good(C)
  <2> HIDE DEF G
  <2>1. C \in G
    BY <1>3, <1>12, <1>13, InductionOnSet
  <2> QED
    BY <2>1, <1>3 DEF G
<1>15. m.next[head] = at(2)
  <2>1. m.next[head] = q[After(1, n)]
    BY <1>0 DEF Numbers
  <2> QED
    BY <2>1 DEF After, at
<1>16. g[C][m.next[head]] = rest(2)
  BY <1>3, <1>4, <1>14, <1>15
<1>17. rest(2) = [i \in 1 .. n |-> q[After(i, n)]]
  <2>1. n + 2 - 2 = n
    OBVIOUS
  <2>2. \A i \in 1 .. n : at(2 + i - 1) = q[After(i, n)]
    BY DEF at, After
  <2> QED
    BY <2>1, <2>2 DEF rest
<1> QED
  BY <1>1, <1>16, <1>17

-----------------------------------------------------------------------------
(* Groups and their nodes *)

LEMMA NodeFacts ==
  /\ \A t \in Task : Threads(t) \in Nodes /\ ThreadsList(t) \in Nodes
  /\ \A t \in Task : StructOf(ThreadsList(t)) = t
  /\ \A t, u : Threads(t) # ThreadsList(u)
  /\ \A t, u : Threads(t) = Threads(u) => t = u
  /\ \A t, u : ThreadsList(t) = ThreadsList(u) => t = u
  /\ \A x \in Nodes : x # Null /\ x # Wild
<1>1. \A x \in Nodes : x # Null /\ x # Wild
  BY ProcessesAssumption
<1>2. \A t \in Task : Threads(t) \in Nodes /\ ThreadsList(t) \in Nodes
  BY DEF Threads, ThreadsList, Nodes
<1> QED
  BY <1>1, <1>2 DEF Threads, ThreadsList, StructOf

\* Group, the ring it should be, and the node of a thread in the ring of its process, for
\* the tasks A that are alive with the masters M
Folk(A, M, t) == {k \in A \ {t} : M[k] = t}
Kin(A, M, t) == {Threads(t)} \cup {ThreadsList(k) : k \in Folk(A, M, t)}
Place(M, t) == IF M[t] = t THEN Threads(t) ELSE ThreadsList(t)

\* The neighbours of a node are of its process, and point back if they are in use.
Paired(A, M, L) ==
  \A t \in A :
    /\ L.next[Place(M, t)] \in Kin(A, M, M[t])
    /\ L.prev[Place(M, t)] \in Kin(A, M, M[t])
    /\ \A k \in Task :
         /\ L.next[Place(M, t)] = ThreadsList(k) => L.prev[ThreadsList(k)] = Place(M, t)
         /\ L.prev[Place(M, t)] = ThreadsList(k) => L.next[ThreadsList(k)] = Place(M, t)

HaveMaster(A, M) == \A t \in A : M[t] \in A /\ M[M[t]] = M[t]

Rings(A, M, L) == \A t \in A : M[t] = t => Ring(L, Threads(t), Kin(A, M, t))

\* the memories that differ in the nodes of c at most
But(c, L, R) == \A x \in Nodes : x # Threads(c) /\ x # ThreadsList(c) =>
                                   R.next[x] = L.next[x] /\ R.prev[x] = L.prev[x]

\* the masters when c, which is not alive, gets the master h
Joins(A, M, N, c, h) == c \notin A /\ N[c] = h /\ \A k \in A : N[k] = M[k]

LEMMA KinCopied ==
  ASSUME NEW A, NEW M, NEW N, NEW c, NEW h, Joins(A, M, N, c, h), NEW t
  PROVE  Kin(A, N, t) = Kin(A, M, t) /\ Folk(A, N, t) = Folk(A, M, t)
BY DEF Folk, Kin, Joins

LEMMA FolkGone ==
  ASSUME NEW A, NEW M, NEW v \in A
  PROVE  \A t : /\ Folk(A \ {v}, M, t) = Folk(A, M, t) \ {v}
                /\ v \notin Folk(A, M, t) => Folk(A \ {v}, M, t) = Folk(A, M, t)
                /\ v \in Folk(A, M, t) <=> M[v] = t /\ v # t
BY DEF Folk

LEMMA KinGone ==
  ASSUME NEW A, NEW M, NEW v \in A
  PROVE  \A t : Kin(A \ {v}, M, t) = Kin(A, M, t) \ {ThreadsList(v)}
<1> TAKE t
<1>1. Folk(A \ {v}, M, t) = Folk(A, M, t) \ {v}
  BY FolkGone
<1> QED
  BY <1>1, NodeFacts DEF Kin

LEMMA KinNodes ==
  ASSUME NEW A, NEW M \in [Task -> Task], A \subseteq Task, NEW t \in Task
  PROVE  /\ Kin(A, M, t) \subseteq Nodes
         /\ \A k : ThreadsList(k) \in Kin(A, M, t) <=> k \in Folk(A, M, t)
         /\ \A k : Threads(k) \in Kin(A, M, t) <=> k = t
BY NodeFacts DEF Kin, Folk

LEMMA KinApart ==
  ASSUME NEW A, NEW M, NEW t, NEW u, t # u
  PROVE  Kin(A, M, t) \cap Kin(A, M, u) = {}
BY NodeFacts DEF Kin, Folk

-----------------------------------------------------------------------------
(* What clone does to the pairs *)

LEMMA PairedCopy ==
  ASSUME NEW A, NEW M \in [Task -> Task], A \subseteq Task, NEW c \in Task \ A,
         NEW L, Paired(A, M, L), NEW R, But(c, L, R), NEW h \in Task
  PROVE  Paired(A, [M EXCEPT ![c] = h], R)
<1> DEFINE N == [M EXCEPT ![c] = h]
<1>1. \A k \in A : N[k] = M[k] /\ k # c /\ Place(N, k) = Place(M, k)
  BY DEF Place
<1>2. \A t : Kin(A, N, t) = Kin(A, M, t)
  <2>1. Joins(A, M, N, c, h)
    BY DEF Joins
  <2> HIDE DEF N
  <2> QED
    BY <2>1, KinCopied
<1>3. \A t \in A : Place(M, t) \in Nodes /\ Place(M, t) # Threads(c)
                   /\ Place(M, t) # ThreadsList(c)
  BY NodeFacts DEF Place
<1> HIDE DEF N
<1>4. ASSUME NEW t \in A
      PROVE  /\ R.next[Place(N, t)] \in Kin(A, N, N[t])
             /\ R.prev[Place(N, t)] \in Kin(A, N, N[t])
             /\ \A k \in Task :
                  /\ R.next[Place(N, t)] = ThreadsList(k) => R.prev[ThreadsList(k)] = Place(N, t)
                  /\ R.prev[Place(N, t)] = ThreadsList(k) => R.next[ThreadsList(k)] = Place(N, t)
  <2> DEFINE x == Place(M, t)
  <2>1. Place(N, t) = x /\ N[t] = M[t] /\ Kin(A, N, N[t]) = Kin(A, M, M[t])
        /\ R.next[x] = L.next[x] /\ R.prev[x] = L.prev[x]
    BY <1>1, <1>2, <1>3 DEF But
  <2>2. /\ L.next[x] \in Kin(A, M, M[t]) /\ L.prev[x] \in Kin(A, M, M[t])
        /\ \A k \in Task : /\ L.next[x] = ThreadsList(k) => L.prev[ThreadsList(k)] = x
                           /\ L.prev[x] = ThreadsList(k) => L.next[ThreadsList(k)] = x
    BY DEF Paired
  <2>3. M[t] \in Task
    OBVIOUS
  <2> HIDE DEF x
  <2>4. ASSUME NEW k \in Task, ThreadsList(k) \in Kin(A, M, M[t])
        PROVE  /\ R.next[ThreadsList(k)] = L.next[ThreadsList(k)]
               /\ R.prev[ThreadsList(k)] = L.prev[ThreadsList(k)]
    <3>1. k \in Folk(A, M, M[t])
      BY <2>3, <2>4, KinNodes
    <3>2. k # c
      BY <3>1 DEF Folk
    <3> QED
      BY <3>2, NodeFacts DEF But
  <2> QED
    BY <2>1, <2>2, <2>4
<1> QED
  BY <1>4 DEF Paired, N

LEMMA PairedFork ==
  ASSUME NEW A, NEW M \in [Task -> Task], A \subseteq Task, NEW c \in Task \ A,
         NEW L, Paired(A, M, L), NEW R \in LinkMemory, But(c, L, R)
  PROVE  Paired(A \cup {c}, [M EXCEPT ![c] = c], INIT_LIST_HEAD(R, Threads(c)))
<1> DEFINE N == [M EXCEPT ![c] = c]
           I == INIT_LIST_HEAD(R, Threads(c))
<1>1. /\ I.next[Threads(c)] = Threads(c) /\ I.prev[Threads(c)] = Threads(c)
      /\ \A x \in Nodes : x # Threads(c) => I.next[x] = R.next[x] /\ I.prev[x] = R.prev[x]
  BY NodeFacts DEF INIT_LIST_HEAD, LinkMemory
<1> HIDE DEF I
<1>2. But(c, L, I)
  BY <1>1 DEF But
<1>3. Paired(A, N, I)
  BY <1>2, PairedCopy
<1>4. \A t : Kin(A \cup {c}, N, t) = Kin(A, N, t)
  <2>1. Joins(A, M, N, c, c)
    BY DEF Joins
  <2> HIDE DEF N
  <2> QED
    BY <2>1 DEF Joins, Kin, Folk
<1>5. N[c] = c /\ Place(N, c) = Threads(c)
  BY DEF Place
<1> HIDE DEF N
<1>6. Threads(c) \in Kin(A, N, c) /\ \A k \in Task : Threads(c) # ThreadsList(k)
  BY NodeFacts DEF Kin
<1>7. Paired(A \cup {c}, N, I)
  <2>1. \A t \in A : /\ I.next[Place(N, t)] \in Kin(A \cup {c}, N, N[t])
                     /\ I.prev[Place(N, t)] \in Kin(A \cup {c}, N, N[t])
    BY <1>3, <1>4 DEF Paired
  <2>2. \A t \in A, k \in Task :
          /\ I.next[Place(N, t)] = ThreadsList(k) => I.prev[ThreadsList(k)] = Place(N, t)
          /\ I.prev[Place(N, t)] = ThreadsList(k) => I.next[ThreadsList(k)] = Place(N, t)
    BY <1>3 DEF Paired
  <2>3. /\ I.next[Place(N, c)] \in Kin(A \cup {c}, N, N[c])
        /\ I.prev[Place(N, c)] \in Kin(A \cup {c}, N, N[c])
    BY <1>1, <1>4, <1>5, <1>6
  <2>4. \A k \in Task :
          /\ I.next[Place(N, c)] = ThreadsList(k) => I.prev[ThreadsList(k)] = Place(N, c)
          /\ I.prev[Place(N, c)] = ThreadsList(k) => I.next[ThreadsList(k)] = Place(N, c)
    BY <1>1, <1>5, <1>6
  <2> HIDE DEF Place, Kin
  <2> QED
    BY <2>1, <2>2, <2>3, <2>4 DEF Paired
<1> QED
  BY <1>7 DEF N, I

LEMMA PairedCreate ==
  ASSUME NEW A, NEW M \in [Task -> Task], A \subseteq Task, NEW c \in Task \ A,
         NEW L, Paired(A, M, L), NEW R \in LinkMemory, But(c, L, R),
         NEW h \in A, M[h] = h
  PROVE  Paired(A \cup {c}, [M EXCEPT ![c] = h],
                list_add_tail(R, ThreadsList(c), Threads(h)))
<1> DEFINE N == [M EXCEPT ![c] = h]
           B == A \cup {c}
           I == list_add_tail(R, ThreadsList(c), Threads(h))
           new == ThreadsList(c)
           head == Threads(h)
           p == R.prev[head]
<1>0. c # h /\ h \in Task
  OBVIOUS
<1>1. Paired(A, N, R)
  BY PairedCopy
<1>2. /\ \A t : t # h => Kin(B, N, t) = Kin(A, N, t)
      /\ Kin(B, N, h) = Kin(A, N, h) \cup {new}
      /\ N[h] = h /\ N[c] = h /\ Place(N, c) = new /\ Place(N, h) = head
  <2>1. N[h] = h /\ N[c] = h
    BY <1>0
  <2>2. Joins(A, M, N, c, h)
    BY DEF Joins
  <2> HIDE DEF N
  <2>3. \A t : t # h => Kin(B, N, t) = Kin(A, N, t)
    BY <2>2, <1>0 DEF Joins, Kin, Folk
  <2>4. Kin(B, N, h) = Kin(A, N, h) \cup {new}
    BY <2>2, <1>0 DEF Joins, Kin, Folk
  <2> QED
    BY <2>1, <2>3, <2>4, <1>0 DEF Place
<1>3. head \in Nodes /\ new \in Nodes /\ head # new /\ N \in [Task -> Task]
  BY <1>0, NodeFacts
<1> HIDE DEF N
<1>4. p \in Kin(A, N, h) /\ \A k \in Task : p = ThreadsList(k) => R.next[ThreadsList(k)] = head
  BY <1>1, <1>2 DEF Paired
<1>5. p \in Nodes /\ p # new
  <2>1. \A t : Folk(A, N, t) \subseteq A
    BY DEF Folk
  <2>2. p \in Nodes
    <3>1. Kin(A, N, h) \subseteq Nodes
      BY <1>0, <1>3, KinNodes
    <3> QED
      BY <3>1, <1>4
  <2>3. new \notin Kin(A, N, h)
    BY <2>1, NodeFacts DEF Kin
  <2> QED
    BY <1>4, <2>2, <2>3
<1>6. /\ I.next[new] = head /\ I.next[p] = new
      /\ \A x \in Nodes : x # new /\ x # p => I.next[x] = R.next[x]
  BY <1>3, <1>5 DEF list_add_tail, __list_add, LinkMemory
<1>7. /\ I.prev[new] = p /\ I.prev[head] = new
      /\ \A x \in Nodes : x # new /\ x # head => I.prev[x] = R.prev[x]
  BY <1>3, <1>5 DEF list_add_tail, __list_add, LinkMemory
<1> HIDE DEF I, p
<1>8. ASSUME NEW t \in A
      PROVE  /\ I.next[Place(N, t)] \in Kin(B, N, N[t])
             /\ I.prev[Place(N, t)] \in Kin(B, N, N[t])
             /\ \A k \in Task :
                  /\ I.next[Place(N, t)] = ThreadsList(k) => I.prev[ThreadsList(k)] = Place(N, t)
                  /\ I.prev[Place(N, t)] = ThreadsList(k) => I.next[ThreadsList(k)] = Place(N, t)
  <2> DEFINE x == Place(N, t)
  <2>1. /\ R.next[x] \in Kin(A, N, N[t]) /\ R.prev[x] \in Kin(A, N, N[t])
        /\ \A k \in Task : /\ R.next[x] = ThreadsList(k) => R.prev[ThreadsList(k)] = x
                           /\ R.prev[x] = ThreadsList(k) => R.next[ThreadsList(k)] = x
    BY <1>1 DEF Paired
  <2>2. x \in Nodes /\ x # new
    BY NodeFacts DEF Place
  <2>3. Kin(A, N, N[t]) \subseteq Kin(B, N, N[t])
    BY <1>2
  <2>4. x \in Kin(A, N, N[t])
    BY DEF Place, Kin, Folk
  <2>5. x = p \/ x = head => N[t] = h
    <3>1. head \in Kin(A, N, h)
      BY DEF Kin
    <3> QED
      BY <1>4, <2>4, <3>1, KinApart
  <2>6. new \in Kin(B, N, h)
    BY <1>2
  <2> HIDE DEF x
  <2>7. /\ I.next[x] \in Kin(B, N, N[t])
        /\ \A k \in Task : I.next[x] = ThreadsList(k) => I.prev[ThreadsList(k)] = x
    <3>1. CASE x = p
      BY <3>1, <1>6, <1>7, <2>5, <2>6
    <3>2. CASE x # p
      <4>1. I.next[x] = R.next[x]
        BY <3>2, <1>6, <2>2
      <4>2. ASSUME NEW k \in Task, R.next[x] = ThreadsList(k)
            PROVE  I.prev[ThreadsList(k)] = x
        <5>1. ThreadsList(k) # new
          <6>0. N[t] \in Task /\ ThreadsList(k) \in Kin(A, N, N[t])
            BY <4>2, <2>1, <1>3
          <6>1. k \in Folk(A, N, N[t])
            BY <6>0, <1>3, KinNodes
          <6> QED
            BY <6>1, NodeFacts DEF Folk
        <5>2. ThreadsList(k) # head /\ ThreadsList(k) \in Nodes
          BY NodeFacts
        <5> QED
          BY <5>1, <5>2, <4>2, <1>7, <2>1
      <4> QED
        BY <4>1, <4>2, <2>1, <2>3
    <3> QED
      BY <3>1, <3>2
  <2>8. /\ I.prev[x] \in Kin(B, N, N[t])
        /\ \A k \in Task : I.prev[x] = ThreadsList(k) => I.next[ThreadsList(k)] = x
    <3>1. CASE x = head
      BY <3>1, <1>6, <1>7, <2>5, <2>6
    <3>2. CASE x # head
      <4>1. I.prev[x] = R.prev[x]
        BY <3>2, <1>7, <2>2
      <4>2. ASSUME NEW k \in Task, R.prev[x] = ThreadsList(k)
            PROVE  I.next[ThreadsList(k)] = x
        <5>1. ThreadsList(k) # new /\ ThreadsList(k) \in Nodes
          <6>0. N[t] \in Task /\ ThreadsList(k) \in Kin(A, N, N[t])
            BY <4>2, <2>1, <1>3
          <6>1. k \in Folk(A, N, N[t])
            BY <6>0, <1>3, KinNodes
          <6> QED
            BY <6>1, NodeFacts DEF Folk
        <5>2. R.next[ThreadsList(k)] = x
          BY <4>2, <2>1
        <5>3. ThreadsList(k) # p
          BY <5>2, <1>4, <3>2
        <5> QED
          BY <5>1, <5>2, <5>3, <1>6
      <4> QED
        BY <4>1, <4>2, <2>1, <2>3
    <3> QED
      BY <3>1, <3>2
  <2> QED
    BY <2>7, <2>8 DEF x
<1>9. /\ I.next[new] \in Kin(B, N, h) /\ I.prev[new] \in Kin(B, N, h)
      /\ \A k \in Task : /\ I.next[new] = ThreadsList(k) => I.prev[ThreadsList(k)] = new
                         /\ I.prev[new] = ThreadsList(k) => I.next[ThreadsList(k)] = new
  <2>1. head \in Kin(B, N, h)
    BY DEF Kin
  <2>2. \A k \in Task : head # ThreadsList(k)
    BY NodeFacts
  <2> QED
    BY <2>1, <2>2, <1>2, <1>4, <1>6, <1>7
<1> HIDE DEF new, head
<1> QED
  BY <1>2, <1>8, <1>9 DEF Paired, N, I, new, head

-----------------------------------------------------------------------------
(* ... and the exits *)

LEMMA PairedDelete ==
  ASSUME NEW A, NEW M \in [Task -> Task], A \subseteq Task,
         NEW L \in LinkMemory, Paired(A, M, L), NEW v \in A, M[v] # v
  PROVE  Paired(A \ {v}, M, list_del(L, ThreadsList(v)))
<1> DEFINE B == A \ {v}
           e == ThreadsList(v)
           h == M[v]
           a == L.next[e]
           b == L.prev[e]
           I == list_del(L, e)
<1>0. v \in Task /\ h \in Task /\ Place(M, v) = e /\ e \in Nodes
  BY NodeFacts DEF Place
<1>1. /\ a \in Kin(A, M, h) /\ b \in Kin(A, M, h)
      /\ \A k \in Task : /\ a = ThreadsList(k) => L.prev[ThreadsList(k)] = e
                         /\ b = ThreadsList(k) => L.next[ThreadsList(k)] = e
  BY <1>0 DEF Paired
<1>2. a \in Nodes /\ b \in Nodes
  BY <1>0, <1>1, KinNodes
<1>3. /\ \A x \in Nodes : x # e => I.next[x] = IF x = b THEN a ELSE L.next[x]
      /\ \A x \in Nodes : x # e => I.prev[x] = IF x = a THEN b ELSE L.prev[x]
  BY <1>0, <1>2 DEF list_del, LinkMemory
<1>4. \A t \in Task : Kin(B, M, t) = Kin(A, M, t) \ {e}
  BY KinGone
<1> HIDE DEF I, a, b, h
<1>5. ASSUME NEW t \in B
      PROVE  /\ I.next[Place(M, t)] \in Kin(B, M, M[t])
             /\ I.prev[Place(M, t)] \in Kin(B, M, M[t])
             /\ \A k \in Task :
                  /\ I.next[Place(M, t)] = ThreadsList(k) => I.prev[ThreadsList(k)] = Place(M, t)
                  /\ I.prev[Place(M, t)] = ThreadsList(k) => I.next[ThreadsList(k)] = Place(M, t)
  <2> DEFINE x == Place(M, t)
  <2>1. /\ L.next[x] \in Kin(A, M, M[t]) /\ L.prev[x] \in Kin(A, M, M[t])
        /\ \A k \in Task : /\ L.next[x] = ThreadsList(k) => L.prev[ThreadsList(k)] = x
                           /\ L.prev[x] = ThreadsList(k) => L.next[ThreadsList(k)] = x
    BY DEF Paired
  <2>2. x \in Nodes /\ x # e /\ M[t] \in Task
    BY NodeFacts DEF Place
  <2>3. x \in Kin(A, M, M[t])
    BY DEF Place, Kin, Folk
  <2>4. x = a \/ x = b => M[t] = h
    BY <1>1, <2>3, KinApart
  <2> HIDE DEF x
  <2>5. L.next[x] = e => x = b
    BY <1>0, <2>1 DEF b
  <2>6. L.prev[x] = e => x = a
    BY <1>0, <2>1 DEF a
  <2>7. x = b => a # e
    BY <1>0, <1>1, <2>2 DEF a, b
  <2>8. x = a => b # e
    BY <1>0, <1>1, <2>2 DEF a, b
  <2>9a. I.next[x] \in Kin(A, M, M[t]) /\ I.next[x] # e
    BY <1>1, <1>3, <2>1, <2>2, <2>4, <2>5, <2>7
  <2>9b. I.prev[x] \in Kin(A, M, M[t]) /\ I.prev[x] # e
    BY <1>1, <1>3, <2>1, <2>2, <2>4, <2>6, <2>8
  <2>9. I.next[x] \in Kin(B, M, M[t]) /\ I.prev[x] \in Kin(B, M, M[t])
    BY <1>4, <2>2, <2>9a, <2>9b
  <2>10. ASSUME NEW k \in Task, I.next[x] = ThreadsList(k)
         PROVE  I.prev[ThreadsList(k)] = x
    <3>1. ThreadsList(k) \in Nodes /\ ThreadsList(k) # e
      BY <2>9a, <2>10, NodeFacts
    <3>2. CASE x = b
      <4>1. ThreadsList(k) = a
        BY <3>2, <2>10, <2>2, <1>3
      <4> QED
        BY <3>1, <3>2, <4>1, <1>3
    <3>3. CASE x # b
      <4>1. L.next[x] = ThreadsList(k)
        BY <3>3, <2>10, <2>2, <1>3
      <4>2. L.prev[ThreadsList(k)] = x
        BY <4>1, <2>1
      <4>3. ThreadsList(k) # a
        BY <4>2, <1>1, <2>2
      <4> QED
        BY <3>1, <4>2, <4>3, <1>3
    <3> QED
      BY <3>2, <3>3
  <2>11. ASSUME NEW k \in Task, I.prev[x] = ThreadsList(k)
         PROVE  I.next[ThreadsList(k)] = x
    <3>1. ThreadsList(k) \in Nodes /\ ThreadsList(k) # e
      BY <2>9b, <2>11, NodeFacts
    <3>2. CASE x = a
      <4>1. ThreadsList(k) = b
        BY <3>2, <2>11, <2>2, <1>3
      <4> QED
        BY <3>1, <3>2, <4>1, <1>3
    <3>3. CASE x # a
      <4>1. L.prev[x] = ThreadsList(k)
        BY <3>3, <2>11, <2>2, <1>3
      <4>2. L.next[ThreadsList(k)] = x
        BY <4>1, <2>1
      <4>3. ThreadsList(k) # b
        BY <4>2, <1>1, <2>2
      <4> QED
        BY <3>1, <4>2, <4>3, <1>3
    <3> QED
      BY <3>2, <3>3
  <2> QED
    BY <2>9, <2>10, <2>11 DEF x
<1> QED
  BY <1>5 DEF Paired, I

\* A process that exits leaves the links as they are.
LEMMA PairedExit ==
  ASSUME NEW A, NEW M \in [Task -> Task], A \subseteq Task,
         NEW L, Paired(A, M, L), NEW v \in A, M[v] = v
  PROVE  Paired(A \ {v}, M, L)
<1>1. \A t : Folk(A \ {v}, M, t) = Folk(A, M, t)
  BY DEF Folk
<1>2. \A t : Kin(A \ {v}, M, t) = Kin(A, M, t)
  BY <1>1 DEF Kin
<1> QED
  BY <1>2 DEF Paired

-----------------------------------------------------------------------------
(* The rings of the processes *)

LEMMA RingsCopy ==
  ASSUME NEW A, NEW M \in [Task -> Task], A \subseteq Task, NEW c \in Task \ A,
         NEW L, Rings(A, M, L), NEW R, But(c, L, R), NEW h \in Task
  PROVE  Rings(A, [M EXCEPT ![c] = h], R)
<1> DEFINE N == [M EXCEPT ![c] = h]
<1>1. Joins(A, M, N, c, h) /\ \A t \in A : N[t] = M[t]
  BY DEF Joins
<1> HIDE DEF N
<1> SUFFICES ASSUME NEW t \in A, N[t] = t PROVE Ring(R, Threads(t), Kin(A, N, t))
  BY DEF Rings, N
<1>2. Kin(A, N, t) = Kin(A, M, t) /\ M[t] = t
  BY <1>1, KinCopied
<1>3. Ring(L, Threads(t), Kin(A, M, t))
  BY <1>2 DEF Rings
<1>4. ASSUME NEW x \in Kin(A, M, t) PROVE x \in Nodes /\ x # Threads(c) /\ x # ThreadsList(c)
  <2>1. t # c /\ c \notin Folk(A, M, t) /\ t \in Task
    BY DEF Folk
  <2>2. Kin(A, M, t) \subseteq Nodes
    BY <2>1, KinNodes
  <2>3. Threads(c) \notin Kin(A, M, t) /\ ThreadsList(c) \notin Kin(A, M, t)
    BY <2>1, NodeFacts DEF Kin
  <2> QED
    BY <2>2, <2>3
<1>5. \A x \in Kin(A, M, t) : R.next[x] = L.next[x] /\ R.prev[x] = L.prev[x]
  BY <1>4 DEF But
<1> QED
  BY <1>2, <1>3, <1>5, RingElsewhere

LEMMA RingsFork ==
  ASSUME NEW A, NEW M \in [Task -> Task], A \subseteq Task, NEW c \in Task \ A,
         NEW L, Rings(A, M, L), NEW R \in LinkMemory, But(c, L, R), HaveMaster(A, M)
  PROVE  Rings(A \cup {c}, [M EXCEPT ![c] = c], INIT_LIST_HEAD(R, Threads(c)))
<1> DEFINE N == [M EXCEPT ![c] = c]
           I == INIT_LIST_HEAD(R, Threads(c))
           B == A \cup {c}
<1>0. Threads(c) \in Nodes
  BY NodeFacts
<1>1. \A x \in Nodes : x # Threads(c) => I.next[x] = R.next[x] /\ I.prev[x] = R.prev[x]
  BY <1>0 DEF INIT_LIST_HEAD, LinkMemory
<1>2. Ring(I, Threads(c), {Threads(c)})
  BY <1>0, RingAlone
<1> HIDE DEF I
<1>3. But(c, L, I)
  BY <1>1 DEF But
<1>4. Rings(A, N, I)
  BY <1>3, RingsCopy
<1>5. Joins(A, M, N, c, c)
  BY DEF Joins
<1>6. Kin(B, N, c) = {Threads(c)}
  <2>1. Folk(B, N, c) = {}
    BY <1>5 DEF Joins, Folk, HaveMaster
  <2> QED
    BY <2>1 DEF Kin
<1>7. ASSUME NEW t \in A PROVE Kin(B, N, t) = Kin(A, N, t)
  <2>1. Folk(B, N, t) = Folk(A, N, t)
    BY <1>5 DEF Joins, Folk
  <2> QED
    BY <2>1 DEF Kin
<1> HIDE DEF N
<1>8. \A t \in A : N[t] = t => Ring(I, Threads(t), Kin(B, N, t))
  BY <1>4, <1>7 DEF Rings
<1>9. Ring(I, Threads(c), Kin(B, N, c))
  BY <1>2, <1>6
<1>10. Rings(B, N, I)
  BY <1>8, <1>9 DEF Rings
<1> QED
  BY <1>10 DEF N, I

LEMMA RingsCreate ==
  ASSUME NEW A, NEW M \in [Task -> Task], A \subseteq Task, NEW c \in Task \ A,
         NEW L, Rings(A, M, L), Paired(A, M, L), NEW R \in LinkMemory, But(c, L, R),
         NEW h \in A, M[h] = h
  PROVE  Rings(A \cup {c}, [M EXCEPT ![c] = h],
               list_add_tail(R, ThreadsList(c), Threads(h)))
<1> DEFINE N == [M EXCEPT ![c] = h]
           I == list_add_tail(R, ThreadsList(c), Threads(h))
           B == A \cup {c}
           p == R.prev[Threads(h)]
<1>0. Rings(A, N, R) /\ Paired(A, N, R)
  BY RingsCopy, PairedCopy
<1>1. Joins(A, M, N, c, h) /\ c # h /\ N[h] = h /\ N[c] = h /\ N \in [Task -> Task]
  BY DEF Joins
<1> HIDE DEF N
<1>2. ThreadsList(c) \notin Kin(A, N, h)
  BY NodeFacts DEF Kin, Folk
<1>3. p \in Kin(A, N, h)
  <2>1. Place(N, h) = Threads(h)
    BY <1>1 DEF Place
  <2> QED
    BY <1>0, <1>1, <2>1 DEF Paired
<1>4. Kin(A, N, h) \subseteq Nodes /\ Threads(h) \in Kin(A, N, h) /\ ThreadsList(c) \in Nodes
  <2>1. h \in Task
    OBVIOUS
  <2>2. Kin(A, N, h) \subseteq Nodes
    BY <2>1, <1>1, KinNodes
  <2> QED
    BY <2>2, NodeFacts DEF Kin
<1>5. \A x \in Nodes : x # ThreadsList(c) /\ x # p /\ x # Threads(h) =>
                         I.next[x] = R.next[x] /\ I.prev[x] = R.prev[x]
  BY <1>3, <1>4 DEF list_add_tail, __list_add, LinkMemory
<1> HIDE DEF I, p
<1>6. ASSUME NEW t \in A, N[t] = t, t # h
      PROVE  Ring(I, Threads(t), Kin(B, N, t))
  <2>1. Kin(B, N, t) = Kin(A, N, t)
    BY <1>1, <1>6 DEF Joins, Kin, Folk
  <2>2. Ring(R, Threads(t), Kin(A, N, t))
    BY <1>0, <1>6 DEF Rings
  <2>3. Kin(A, N, t) \cap Kin(A, N, h) = {}
    BY <1>6, KinApart
  <2>4. ThreadsList(c) \notin Kin(A, N, t)
    BY NodeFacts DEF Kin, Folk
  <2>5. Kin(A, N, t) \subseteq Nodes
    <3>1. t \in Task
      OBVIOUS
    <3> QED
      BY <3>1, <1>1, KinNodes
  <2>6. \A x \in Kin(A, N, t) : I.next[x] = R.next[x] /\ I.prev[x] = R.prev[x]
    BY <1>3, <1>4, <1>5, <2>3, <2>4, <2>5
  <2> QED
    BY <2>1, <2>2, <2>6, RingElsewhere
<1>7. Ring(I, Threads(h), Kin(B, N, h))
  <2>1. Kin(B, N, h) = Kin(A, N, h) \cup {ThreadsList(c)}
    BY <1>1 DEF Joins, Kin, Folk
  <2>2. Ring(R, Threads(h), Kin(A, N, h))
    BY <1>0, <1>1 DEF Rings
  <2>3. Ring(list_add_tail(R, ThreadsList(c), Threads(h)), Threads(h),
             Kin(A, N, h) \cup {ThreadsList(c)})
    BY <1>2, <1>4, <2>2, RingAppend
  <2> QED
    BY <2>1, <2>3 DEF I
<1>8. Rings(B, N, I)
  BY <1>1, <1>6, <1>7 DEF Rings
<1> QED
  BY <1>8 DEF N, I

\* list_del of a thread in the ring of its process ...
LEMMA RingOwn ==
  ASSUME NEW A, NEW M \in [Task -> Task], A \subseteq Task, NEW L \in LinkMemory,
         NEW v \in A, M[v] # v, Ring(L, Threads(M[v]), Kin(A, M, M[v]))
  PROVE  Ring(list_del(L, ThreadsList(v)), Threads(M[v]), Kin(A \ {v}, M, M[v]))
<1>1. ThreadsList(v) \in Kin(A, M, M[v])
  BY DEF Kin, Folk
<1>2. ThreadsList(v) # Threads(M[v])
  BY NodeFacts
<1>3. Kin(A \ {v}, M, M[v]) = Kin(A, M, M[v]) \ {ThreadsList(v)}
  BY KinGone
<1> QED
  BY <1>1, <1>2, <1>3, RingDelete

\* ... and seen from another one
LEMMA RingOther ==
  ASSUME NEW A, NEW M \in [Task -> Task], A \subseteq Task, NEW L \in LinkMemory,
         Paired(A, M, L), NEW v \in A, M[v] # v, NEW t \in Task, t # M[v],
         Ring(L, Threads(t), Kin(A, M, t))
  PROVE  /\ Ring(list_del(L, ThreadsList(v)), Threads(t), Kin(A, M, t))
         /\ Kin(A \ {v}, M, t) = Kin(A, M, t)
<1> DEFINE e == ThreadsList(v)
           a == L.next[e]
           b == L.prev[e]
           I == list_del(L, e)
<1>1. M[v] \in Task /\ v \in Task
  OBVIOUS
<1>2. a \in Kin(A, M, M[v]) /\ b \in Kin(A, M, M[v])
  BY DEF Paired, Place
<1>3. e \in Kin(A, M, M[v])
  BY DEF Kin, Folk
<1>4. Kin(A, M, M[v]) \subseteq Nodes /\ Kin(A, M, t) \subseteq Nodes
  BY <1>1, KinNodes
<1>5. \A x \in Nodes : x # e /\ x # a /\ x # b => I.next[x] = L.next[x] /\ I.prev[x] = L.prev[x]
  BY <1>2, <1>3, <1>4 DEF list_del, LinkMemory
<1> HIDE DEF a, b, I, e
<1>6. Kin(A, M, t) \cap Kin(A, M, M[v]) = {}
  BY KinApart
<1>7. \A x \in Kin(A, M, t) : I.next[x] = L.next[x] /\ I.prev[x] = L.prev[x]
  BY <1>2, <1>3, <1>4, <1>5, <1>6
<1>8. Ring(I, Threads(t), Kin(A, M, t))
  BY <1>7, RingElsewhere
<1>9. Kin(A \ {v}, M, t) = Kin(A, M, t)
  BY DEF Kin, Folk
<1> QED
  BY <1>8, <1>9 DEF I, e

\* The list of a process whose threads are a ring is what RingOfThreads says.
LEMMA RingIsList ==
  ASSUME links \in LinkMemory, NEW t \in Task,
         Ring(links, Threads(t), Kin(Alive, master, t))
  PROVE  RingOfThreads(t)
<1> DEFINE S == Kin(Alive, master, t)
           head == Threads(t)
<1>0. PICK n \in Nat \ {0} : \E q \in [1 .. n -> Nodes] :
        Numbers(q, n, links) /\ q[1] = head /\ S = {q[i] : i \in 1 .. n}
  BY DEF Ring
<1>1. PICK q \in [1 .. n -> Nodes] :
        Numbers(q, n, links) /\ q[1] = head /\ S = {q[i] : i \in 1 .. n}
  BY <1>0
<1> DEFINE path == [i \in 1 .. n |-> q[After(i, n)]]
<1>2. Path(links, head) = path
  <2>1. Numbers(q, n, links)
    BY <1>1
  <2>2. Path(links, q[1]) = [i \in 1 .. n |-> q[After(i, n)]]
    BY <2>1, RingPath
  <2> QED
    BY <1>1, <2>2
<1>3. \A i \in 1 .. n : After(i, n) \in 1 .. n /\ Before(i, n) \in 1 .. n
                        /\ After(Before(i, n), n) = i /\ Before(After(i, n), n) = i
  BY DEF After, Before
<1>4. \A i, j \in 1 .. n : q[i] = q[j] => i = j
  BY <1>1 DEF Numbers
<1>5. IsInjective(path)
  <2> SUFFICES ASSUME NEW i \in 1 .. n, NEW j \in 1 .. n, path[i] = path[j] PROVE i = j
    BY DEF IsInjective
  <2>1. After(i, n) = After(j, n)
    BY <1>3, <1>4
  <2> QED
    BY <1>3, <2>1
<1>6. ToSet(path) = S
  <2>1. ToSet(path) = {path[i] : i \in 1 .. n}
    BY DEF ToSet
  <2>2. \A i \in 1 .. n : path[i] = q[After(i, n)] /\ path[Before(i, n)] = q[i]
    BY <1>3
  <2> HIDE DEF path
  <2>3. \A i \in 1 .. n : path[i] \in S /\ q[i] \in ToSet(path)
    BY <1>1, <1>3, <2>1, <2>2
  <2>4. S \subseteq ToSet(path)
    BY <1>1, <2>3
  <2>5. ToSet(path) \subseteq S
    BY <2>1, <2>3
  <2> QED
    BY <2>4, <2>5
<1>7. path \in Seq(Nodes) /\ Len(path) = n
  <2>1. path \in [1 .. n -> Nodes]
    BY <1>3
  <2>2. n \in Nat
    OBVIOUS
  <2> HIDE DEF path
  <2>3. path \in Seq(Nodes)
    BY <2>1, <2>2, SeqDef
  <2> QED
    BY <2>1, <2>2, <2>3, LenProperties
<1>8. path[Len(path)] = head
  BY <1>1, <1>7 DEF After
<1>9. \A x \in S : links.prev[links.next[x]] = x
  <2> SUFFICES ASSUME NEW i \in 1 .. n PROVE links.prev[links.next[q[i]]] = q[i]
    BY <1>1
  <2>1. links.next[q[i]] = q[After(i, n)] /\ links.prev[q[After(i, n)]] = q[Before(After(i, n), n)]
    BY <1>1, <1>3 DEF Numbers
  <2> QED
    BY <2>1, <1>3
<1>10. S = {Threads(t)} \cup {ThreadsList(k) : k \in Group(t)}
  BY DEF Kin, Folk, Group
<1> HIDE DEF path, S
<1> QED
  BY <1>2, <1>5, <1>6, <1>8, <1>9, <1>10 DEF RingOfThreads, Returns

-----------------------------------------------------------------------------
(* The counts of threads *)

Size(A, M, t) == Cardinality(Folk(A, M, t))

\* What num_threads is apart from the size of the group, also when threads have been left,
\* for all tasks but those of X.
Bounded(A, M, N, X) ==
  \A t \in Task :
    /\ N[t] \in Int /\ N[t] <= NR_TASKS
    /\ N[t] >= Size(A, M, t) - 3 * NR_TASKS
    /\ t \in A => N[t] >= Size(A, M, t) - 2 * NR_TASKS
    /\ t \in A /\ M[t] = t => N[t] >= Size(A, M, t) - NR_TASKS
    /\ t \in A \ X /\ M[t] = t => N[t] <= Size(A, M, t) + 1

\* ... and when none has been.
Counted(A, M, N, X, first) ==
  /\ \A t \in Task : N[t] >= 0
  /\ \A t \in A \ X : M[t] = t =>
       N[t] = Size(A, M, t) + (IF first /\ t = Task1 THEN 0 ELSE 1)

LEMMA SizeFacts ==
  ASSUME NEW A, NEW M, A \subseteq Task, NEW t \in Task
  PROVE  /\ IsFiniteSet(Folk(A, M, t)) /\ Size(A, M, t) \in Nat
         /\ Size(A, M, t) <= NR_TASKS - 1
<1>1. IsFiniteSet(Task \ {t}) /\ Cardinality(Task \ {t}) = NR_TASKS - 1
  BY TaskFinite, FS_RemoveElement
<1>2. Folk(A, M, t) \in SUBSET (Task \ {t})
  BY DEF Folk
<1>3. IsFiniteSet(Folk(A, M, t)) /\ Cardinality(Folk(A, M, t)) <= NR_TASKS - 1
  BY <1>1, <1>2, FS_Subset
<1> QED
  BY <1>3, FS_CardinalityType DEF Size

LEMMA SizeCopied ==
  ASSUME NEW A, NEW M, NEW N, NEW c, NEW h, Joins(A, M, N, c, h), NEW t
  PROVE  Size(A, N, t) = Size(A, M, t)
BY KinCopied DEF Size

LEMMA SizeJoined ==
  ASSUME NEW A, NEW M, NEW N, NEW c \in Task, NEW h, Joins(A, M, N, c, h), NEW t \in Task,
         A \subseteq Task
  PROVE  Size(A \cup {c}, N, t) = IF t = h /\ h # c THEN Size(A, M, t) + 1
                                  ELSE Size(A, M, t)
<1>1. CASE t = h /\ h # c
  <2>1. Folk(A \cup {c}, N, t) = Folk(A, M, t) \cup {c} /\ c \notin Folk(A, M, t)
    BY <1>1 DEF Joins, Folk
  <2>2. IsFiniteSet(Folk(A, M, t))
    BY SizeFacts
  <2>3. Cardinality(Folk(A, M, t) \cup {c}) = Cardinality(Folk(A, M, t)) + 1
    BY <2>1, <2>2, FS_AddElement
  <2> QED
    BY <1>1, <2>1, <2>3 DEF Size
<1>2. CASE ~(t = h /\ h # c)
  <2>1. Folk(A \cup {c}, N, t) = Folk(A, M, t)
    BY <1>2 DEF Joins, Folk
  <2> QED
    BY <1>2, <2>1 DEF Size
<1> QED
  BY <1>1, <1>2

LEMMA SizeGone ==
  ASSUME NEW A, NEW M, NEW v \in A, NEW t \in Task, A \subseteq Task
  PROVE  Size(A \ {v}, M, t) = IF t = M[v] /\ t # v THEN Size(A, M, t) - 1
                               ELSE Size(A, M, t)
<1>1. CASE t = M[v] /\ t # v
  <2>1. Folk(A \ {v}, M, t) = Folk(A, M, t) \ {v} /\ v \in Folk(A, M, t)
    BY <1>1 DEF Folk
  <2>2. IsFiniteSet(Folk(A, M, t))
    BY SizeFacts
  <2>3. Cardinality(Folk(A, M, t) \ {v}) = Cardinality(Folk(A, M, t)) - 1
    BY <2>1, <2>2, FS_RemoveElement
  <2> QED
    BY <1>1, <2>1, <2>3 DEF Size
<1>2. CASE ~(t = M[v] /\ t # v)
  <2>1. Folk(A \ {v}, M, t) = Folk(A, M, t)
    BY <1>2 DEF Folk
  <2> QED
    BY <1>2, <2>1 DEF Size
<1> QED
  BY <1>1, <1>2

LEMMA TasksEnough == NR_TASKS \in Nat /\ NR_TASKS >= 2
BY SchedulerAssumption

\* a clone that fails
LEMMA CountsCopy ==
  ASSUME NEW A, NEW M \in [Task -> Task], A \subseteq Task, NEW c \in Task \ A,
         NEW N \in [Task -> Int], NEW X, NEW h \in A, NEW m \in Task, Bounded(A, M, N, X)
  PROVE  /\ Bounded(A, [M EXCEPT ![c] = m], [N EXCEPT ![c] = N[h]], X)
         /\ \A first : Counted(A, M, N, X, first) =>
              Counted(A, [M EXCEPT ![c] = m], [N EXCEPT ![c] = N[h]], X, first)
<1> DEFINE M2 == [M EXCEPT ![c] = m]
           N2 == [N EXCEPT ![c] = N[h]]
<1>1. Joins(A, M, M2, c, m) /\ h \in Task /\ c # h
  BY DEF Joins
<1>2. N2[c] = N[h] /\ \A t \in Task \ {c} : N2[t] = N[t]
  OBVIOUS
<1> HIDE DEF M2, N2
<1>3. \A t \in Task : /\ Size(A, M2, t) = Size(A, M, t)
                      /\ Size(A, M, t) \in Nat /\ Size(A, M, t) <= NR_TASKS - 1
  BY <1>1, SizeCopied, SizeFacts
<1>4. \A t \in A : M2[t] = M[t]
  BY <1>1 DEF Joins
<1>5. Bounded(A, M2, N2, X)
  <2> SUFFICES ASSUME NEW t \in Task
               PROVE  /\ N2[t] \in Int /\ N2[t] <= NR_TASKS
                      /\ N2[t] >= Size(A, M2, t) - 3 * NR_TASKS
                      /\ t \in A => N2[t] >= Size(A, M2, t) - 2 * NR_TASKS
                      /\ t \in A /\ M2[t] = t => N2[t] >= Size(A, M2, t) - NR_TASKS
                      /\ t \in A \ X /\ M2[t] = t => N2[t] <= Size(A, M2, t) + 1
    BY DEF Bounded
  <2>1. CASE t = c
    <3>1. N[h] \in Int /\ N[h] <= NR_TASKS /\ N[h] >= Size(A, M, h) - 2 * NR_TASKS
      BY <1>1 DEF Bounded
    <3>2. Size(A, M, h) \in Nat /\ Size(A, M2, c) \in Nat /\ Size(A, M2, c) <= NR_TASKS - 1
      BY <1>1, <1>3
    <3>3. N[h] >= Size(A, M2, c) - 3 * NR_TASKS
      BY <3>1, <3>2, TasksEnough
    <3> QED
      BY <2>1, <3>1, <3>3, <1>2
  <2>2. CASE t # c
    <3>1. N2[t] = N[t] /\ Size(A, M2, t) = Size(A, M, t)
      BY <2>2, <1>2, <1>3
    <3> QED
      BY <3>1, <1>4 DEF Bounded
  <2> QED
    BY <2>1, <2>2
<1>6. ASSUME NEW first, Counted(A, M, N, X, first)
      PROVE  Counted(A, M2, N2, X, first)
  <2>1. \A t \in Task : N2[t] >= 0
    BY <1>1, <1>2, <1>6 DEF Counted
  <2>2. \A t \in A \ X : N2[t] = N[t] /\ M2[t] = M[t] /\ Size(A, M2, t) = Size(A, M, t)
    BY <1>2, <1>3, <1>4
  <2> QED
    BY <2>1, <2>2, <1>6 DEF Counted
<1> QED
  BY <1>5, <1>6 DEF M2, N2

LEMMA CountsFork ==
  ASSUME NEW A, NEW M \in [Task -> Task], A \subseteq Task, NEW c \in Task \ A,
         NEW N \in [Task -> Int], Bounded(A, M, N, {})
  PROVE  /\ Bounded(A \cup {c}, [M EXCEPT ![c] = c], [N EXCEPT ![c] = 1], {})
         /\ \A first : /\ Counted(A, M, N, {}, first) /\ HaveMaster(A, M)
                       /\ first => c # Task1
                       => Counted(A \cup {c}, [M EXCEPT ![c] = c], [N EXCEPT ![c] = 1], {}, first)
<1> DEFINE M2 == [M EXCEPT ![c] = c]
           N2 == [N EXCEPT ![c] = 1]
           B == A \cup {c}
<1>1. Joins(A, M, M2, c, c)
  BY DEF Joins
<1>2. N2[c] = 1 /\ \A t \in Task \ {c} : N2[t] = N[t]
  OBVIOUS
<1> HIDE DEF M2, N2
<1>3. \A t \in Task : /\ Size(B, M2, t) = Size(A, M, t)
                      /\ Size(A, M, t) \in Nat /\ Size(A, M, t) <= NR_TASKS - 1
  BY <1>1, SizeJoined, SizeFacts
<1>4. \A t \in A : M2[t] = M[t] /\ t # c
  BY <1>1 DEF Joins
<1>5. Bounded(B, M2, N2, {})
  <2> SUFFICES ASSUME NEW t \in Task
               PROVE  /\ N2[t] \in Int /\ N2[t] <= NR_TASKS
                      /\ N2[t] >= Size(B, M2, t) - 3 * NR_TASKS
                      /\ t \in B => N2[t] >= Size(B, M2, t) - 2 * NR_TASKS
                      /\ t \in B /\ M2[t] = t => N2[t] >= Size(B, M2, t) - NR_TASKS
                      /\ t \in B /\ M2[t] = t => N2[t] <= Size(B, M2, t) + 1
    BY DEF Bounded
  <2>1. CASE t = c
    <3>1. Size(B, M2, c) \in Nat /\ Size(B, M2, c) <= NR_TASKS - 1
      BY <1>3
    <3> QED
      BY <2>1, <3>1, <1>2, TasksEnough
  <2>2. CASE t # c
    <3>1. N2[t] = N[t] /\ Size(B, M2, t) = Size(A, M, t) /\ (t \in B => t \in A)
      BY <2>2, <1>2, <1>3
    <3> QED
      BY <3>1, <1>4 DEF Bounded
  <2> QED
    BY <2>1, <2>2
<1>6. ASSUME NEW first, Counted(A, M, N, {}, first), HaveMaster(A, M), first => c # Task1
      PROVE  Counted(B, M2, N2, {}, first)
  <2>1. \A t \in Task : N2[t] >= 0
    BY <1>2, <1>6 DEF Counted
  <2>2. \A t \in A : N2[t] = N[t] /\ M2[t] = M[t] /\ Size(B, M2, t) = Size(A, M, t)
    BY <1>2, <1>3, <1>4
  <2>3. Size(B, M2, c) = 0
    <3>1. Folk(B, M2, c) = {}
      BY <1>1, <1>6 DEF Joins, Folk, HaveMaster
    <3> QED
      BY <3>1, FS_EmptySet DEF Size
  <2>4. N2[c] = Size(B, M2, c) + (IF first /\ c = Task1 THEN 0 ELSE 1)
    BY <1>2, <1>6, <2>3
  <2>5. ASSUME NEW t \in A, M2[t] = t
        PROVE  N2[t] = Size(B, M2, t) + (IF first /\ t = Task1 THEN 0 ELSE 1)
    BY <2>2, <2>5, <1>6 DEF Counted
  <2> QED
    BY <2>1, <2>4, <2>5 DEF Counted
<1> QED
  BY <1>5, <1>6 DEF M2, N2

LEMMA CountsCreate ==
  ASSUME NEW A, NEW M \in [Task -> Task], A \subseteq Task, NEW c \in Task \ A,
         NEW N \in [Task -> Int], Bounded(A, M, N, {}), NEW h \in A, M[h] = h,
         NEW M2, M2 = [M EXCEPT ![c] = h],
         NEW N2, N2 = [N EXCEPT ![c] = N[h], ![h] = N[h] + 1]
  PROVE  /\ Bounded(A \cup {c}, M2, N2, {})
         /\ \A first : Counted(A, M, N, {}, first) => Counted(A \cup {c}, M2, N2, {}, first)
<1> DEFINE B == A \cup {c}
<1>1. Joins(A, M, M2, c, h) /\ h \in Task /\ c # h
  BY DEF Joins
<1>2. N2[c] = N[h] /\ N2[h] = N[h] + 1 /\ \A t \in Task \ {c, h} : N2[t] = N[t]
  BY <1>1
<1>3. \A t \in Task : Size(A, M, t) \in Nat /\ Size(A, M, t) <= NR_TASKS - 1
  BY SizeFacts
<1>4. /\ \A t \in Task \ {h} : Size(B, M2, t) = Size(A, M, t)
      /\ Size(B, M2, h) = Size(A, M, h) + 1
  BY <1>1, SizeJoined
<1>5. Size(B, M2, h) <= NR_TASKS - 1
  <2>1. B \subseteq Task
    OBVIOUS
  <2> QED
    BY <2>1, <1>1, SizeFacts
<1>6. \A t \in A : M2[t] = M[t] /\ t # c
  BY <1>1 DEF Joins
<1>7. M2[c] = h
  BY <1>1 DEF Joins
<1>8. /\ N[h] \in Int /\ N[h] <= Size(A, M, h) + 1 /\ N[h] >= Size(A, M, h) - NR_TASKS
      /\ N[h] <= NR_TASKS
  BY <1>1 DEF Bounded
<1>9. Bounded(B, M2, N2, {})
  <2> SUFFICES ASSUME NEW t \in Task
               PROVE  /\ N2[t] \in Int /\ N2[t] <= NR_TASKS
                      /\ N2[t] >= Size(B, M2, t) - 3 * NR_TASKS
                      /\ t \in B => N2[t] >= Size(B, M2, t) - 2 * NR_TASKS
                      /\ t \in B /\ M2[t] = t => N2[t] >= Size(B, M2, t) - NR_TASKS
                      /\ t \in B /\ M2[t] = t => N2[t] <= Size(B, M2, t) + 1
    BY DEF Bounded
  <2>1. CASE t = c
    <3>1. Size(B, M2, c) \in Nat /\ Size(B, M2, c) <= NR_TASKS - 1 /\ Size(A, M, h) \in Nat
      BY <1>1, <1>3, <1>4
    <3>2. N[h] >= Size(B, M2, c) - 2 * NR_TASKS /\ N[h] >= Size(B, M2, c) - 3 * NR_TASKS
      BY <3>1, <1>8, TasksEnough
    <3> QED
      BY <2>1, <3>2, <1>1, <1>2, <1>7, <1>8
  <2>2. CASE t = h
    <3>1. Size(A, M, h) \in Nat /\ N2[h] = N[h] + 1 /\ Size(B, M2, h) = Size(A, M, h) + 1
      BY <1>1, <1>2, <1>3, <1>4
    <3> QED
      BY <2>2, <3>1, <1>5, <1>8, TasksEnough
  <2>3. CASE t # c /\ t # h
    <3>1. N2[t] = N[t] /\ Size(B, M2, t) = Size(A, M, t) /\ (t \in B => t \in A)
      BY <2>3, <1>2, <1>4
    <3> QED
      BY <3>1, <1>6 DEF Bounded
  <2> QED
    BY <2>1, <2>2, <2>3
<1>10. ASSUME NEW first, Counted(A, M, N, {}, first)
       PROVE  Counted(B, M2, N2, {}, first)
  <2>0. N[h] >= 0 /\ N[h] + 1 >= 0
    BY <1>1, <1>8, <1>10 DEF Counted
  <2>1. \A t \in Task : N2[t] >= 0
    BY <1>2, <2>0, <1>10 DEF Counted
  <2>2. ASSUME NEW t \in B, M2[t] = t
        PROVE  N2[t] = Size(B, M2, t) + (IF first /\ t = Task1 THEN 0 ELSE 1)
    <3>1. t \in A /\ M[t] = t /\ t \in Task
      BY <2>2, <1>1, <1>6, <1>7
    <3>2. N[t] = Size(A, M, t) + (IF first /\ t = Task1 THEN 0 ELSE 1)
      BY <3>1, <1>10 DEF Counted
    <3>3. CASE t = h
      <4>1. N2[t] = N[t] + 1 /\ Size(B, M2, t) = Size(A, M, t) + 1 /\ Size(A, M, t) \in Nat
        BY <3>1, <3>3, <1>2, <1>3, <1>4
      <4>2. CASE first /\ t = Task1
        BY <3>2, <4>1, <4>2
      <4>3. CASE ~(first /\ t = Task1)
        BY <3>2, <4>1, <4>3
      <4> QED
        BY <4>2, <4>3
    <3>4. CASE t # h
      BY <3>1, <3>2, <3>4, <1>2, <1>4, <1>6
    <3> QED
      BY <3>3, <3>4
  <2> QED
    BY <2>1, <2>2 DEF Counted
<1> QED
  BY <1>9, <1>10

\* a thread that its process kills on its way out
LEMMA CountsKill ==
  ASSUME NEW A, NEW M \in [Task -> Task], A \subseteq Task, NEW v \in A, M[v] # v,
         NEW N \in [Task -> Int], NEW X, X \subseteq {M[v]}, Bounded(A, M, N, X)
  PROVE  /\ Bounded(A \ {v}, M, N, {M[v]})
         /\ \A first : Counted(A, M, N, X, first) => Counted(A \ {v}, M, N, {M[v]}, first)
<1> DEFINE B == A \ {v}
<1>1. \A t \in Task : Size(A, M, t) \in Nat
  BY SizeFacts
<1>2. \A t \in Task : /\ t # M[v] => Size(B, M, t) = Size(A, M, t)
                      /\ t = M[v] => Size(B, M, t) = Size(A, M, t) - 1
  BY SizeGone
<1>3. Bounded(B, M, N, {M[v]})
  <2> SUFFICES ASSUME NEW t \in Task
               PROVE  /\ N[t] \in Int /\ N[t] <= NR_TASKS
                      /\ N[t] >= Size(B, M, t) - 3 * NR_TASKS
                      /\ t \in B => N[t] >= Size(B, M, t) - 2 * NR_TASKS
                      /\ t \in B /\ M[t] = t => N[t] >= Size(B, M, t) - NR_TASKS
                      /\ t \in B \ {M[v]} /\ M[t] = t => N[t] <= Size(B, M, t) + 1
    BY DEF Bounded
  <2>1. CASE t = M[v]
    <3>1. Size(A, M, t) \in Nat /\ Size(B, M, t) = Size(A, M, t) - 1
      BY <2>1, <1>1, <1>2
    <3>2. /\ N[t] \in Int /\ N[t] <= NR_TASKS
          /\ N[t] >= Size(A, M, t) - 3 * NR_TASKS
          /\ t \in A => N[t] >= Size(A, M, t) - 2 * NR_TASKS
          /\ t \in A /\ M[t] = t => N[t] >= Size(A, M, t) - NR_TASKS
      BY DEF Bounded
    <3> QED
      BY <2>1, <3>1, <3>2, TasksEnough
  <2>2. CASE t # M[v]
    <3>1. Size(B, M, t) = Size(A, M, t)
      BY <2>2, <1>2
    <3> QED
      BY <2>2, <3>1 DEF Bounded
  <2> QED
    BY <2>1, <2>2
<1>4. ASSUME NEW first, Counted(A, M, N, X, first)
      PROVE  Counted(B, M, N, {M[v]}, first)
  <2>1. \A t \in B \ {M[v]} : t \in A \ X /\ Size(B, M, t) = Size(A, M, t)
    BY <1>2
  <2> QED
    BY <2>1, <1>4 DEF Counted
<1> QED
  BY <1>3, <1>4

\* a thread that exits
LEMMA CountsThread ==
  ASSUME NEW A, NEW M \in [Task -> Task], A \subseteq Task, NEW v \in A, M[v] # v,
         NEW N \in [Task -> Int], Bounded(A, M, N, {}),
         NEW N2, N2 = [N EXCEPT ![M[v]] = @ - 1]
  PROVE  /\ Bounded(A \ {v}, M, N2, {})
         /\ \A first : HaveMaster(A, M) /\ Counted(A, M, N, {}, first) =>
                         Counted(A \ {v}, M, N2, {}, first)
<1> DEFINE B == A \ {v}
           m == M[v]
<1>0. m \in Task
  OBVIOUS
<1>1. N2[m] = N[m] - 1 /\ \A t \in Task \ {m} : N2[t] = N[t]
  OBVIOUS
<1>2. \A t \in Task : Size(A, M, t) \in Nat
  BY SizeFacts
<1>3. \A t \in Task : /\ t # m => Size(B, M, t) = Size(A, M, t)
                      /\ t = m => Size(B, M, t) = Size(A, M, t) - 1
  BY SizeGone
<1>4. Bounded(B, M, N2, {})
  <2> SUFFICES ASSUME NEW t \in Task
               PROVE  /\ N2[t] \in Int /\ N2[t] <= NR_TASKS
                      /\ N2[t] >= Size(B, M, t) - 3 * NR_TASKS
                      /\ t \in B => N2[t] >= Size(B, M, t) - 2 * NR_TASKS
                      /\ t \in B /\ M[t] = t => N2[t] >= Size(B, M, t) - NR_TASKS
                      /\ t \in B /\ M[t] = t => N2[t] <= Size(B, M, t) + 1
    BY DEF Bounded
  <2>0. /\ N[t] \in Int /\ N[t] <= NR_TASKS
        /\ N[t] >= Size(A, M, t) - 3 * NR_TASKS
        /\ t \in A => N[t] >= Size(A, M, t) - 2 * NR_TASKS
        /\ t \in A /\ M[t] = t => N[t] >= Size(A, M, t) - NR_TASKS
        /\ t \in A /\ M[t] = t => N[t] <= Size(A, M, t) + 1
    BY DEF Bounded
  <2>1. CASE t = m
    <3>1. Size(A, M, t) \in Nat /\ Size(B, M, t) = Size(A, M, t) - 1 /\ N2[t] = N[t] - 1
      BY <2>1, <1>1, <1>2, <1>3
    <3> HIDE DEF m
    <3> QED
      BY <3>1, <2>0, TasksEnough
  <2>2. CASE t # m
    <3>1. Size(B, M, t) = Size(A, M, t) /\ N2[t] = N[t]
      BY <2>2, <1>1, <1>3
    <3> QED
      BY <3>1, <2>0
  <2> QED
    BY <2>1, <2>2
<1>5. ASSUME NEW first, HaveMaster(A, M), Counted(A, M, N, {}, first)
      PROVE  Counted(B, M, N2, {}, first)
  <2>1. m \in A /\ M[m] = m
    BY <1>5 DEF HaveMaster
  <2>2. v \in Folk(A, M, m)
    BY DEF Folk
  <2>3. Size(A, M, m) >= 1
    <3>1. Folk(A, M, m) # {} /\ IsFiniteSet(Folk(A, M, m))
      BY <2>2, <1>0, SizeFacts
    <3>2. Size(A, M, m) # 0
      BY <3>1, FS_EmptySet DEF Size
    <3> QED
      BY <3>2, <1>0, <1>2
  <2>4. N[m] = Size(A, M, m) + (IF first /\ m = Task1 THEN 0 ELSE 1)
    BY <2>1, <1>5 DEF Counted
  <2>5. Size(A, M, m) \in Nat /\ Size(B, M, m) = Size(A, M, m) - 1
    BY <1>0, <1>2, <1>3
  <2>6. N2[m] = Size(B, M, m) + (IF first /\ m = Task1 THEN 0 ELSE 1) /\ N2[m] >= 0
    <3>1. CASE first /\ m = Task1
      <4>1. N[m] = Size(A, M, m) + 0
        BY <2>4, <3>1
      <4> HIDE DEF m
      <4> QED
        BY <4>1, <3>1, <2>3, <2>5, <1>1
    <3>2. CASE ~(first /\ m = Task1)
      <4>1. N[m] = Size(A, M, m) + 1
        BY <2>4, <3>2
      <4> HIDE DEF m
      <4> QED
        BY <4>1, <3>2, <2>3, <2>5, <1>1
    <3> QED
      BY <3>1, <3>2
  <2> HIDE DEF m
  <2>7. \A t \in Task : N2[t] >= 0
    BY <2>6, <1>1, <1>5 DEF Counted
  <2>8. \A t \in B : M[t] = t =>
          N2[t] = Size(B, M, t) + (IF first /\ t = Task1 THEN 0 ELSE 1)
    <3> SUFFICES ASSUME NEW t \in B, M[t] = t, t # m
                 PROVE  N2[t] = Size(B, M, t) + (IF first /\ t = Task1 THEN 0 ELSE 1)
      BY <2>6
    <3>1. t \in Task /\ N2[t] = N[t] /\ Size(B, M, t) = Size(A, M, t)
      BY <1>1, <1>3
    <3> QED
      BY <3>1, <1>5 DEF Counted
  <2> QED
    BY <2>7, <2>8 DEF Counted
<1> QED
  BY <1>4, <1>5

\* a process that exits
LEMMA CountsExit ==
  ASSUME NEW A, NEW M \in [Task -> Task], A \subseteq Task, NEW v \in A, M[v] = v,
         NEW N \in [Task -> Int], NEW X, X \subseteq {v}, Bounded(A, M, N, X)
  PROVE  /\ Bounded(A \ {v}, M, N, {})
         /\ \A first : Counted(A, M, N, X, first) => Counted(A \ {v}, M, N, {}, first /\ v # Task1)
<1> DEFINE B == A \ {v}
<1>1. \A t \in Task : Size(B, M, t) = Size(A, M, t)
  BY SizeGone
<1>2. \A t \in B : t \in A \ X
  OBVIOUS
<1>3. Bounded(B, M, N, {})
  BY <1>1, <1>2 DEF Bounded
<1>4. ASSUME NEW first, Counted(A, M, N, X, first)
      PROVE  Counted(B, M, N, {}, first /\ v # Task1)
  <2>1. \A t \in B : M[t] = t =>
          N[t] = Size(B, M, t) + (IF first /\ t = Task1 THEN 0 ELSE 1)
    BY <1>1, <1>2, <1>4 DEF Counted
  <2>2. \A t \in B : first /\ t = Task1 <=> (first /\ v # Task1) /\ t = Task1
    OBVIOUS
  <2> QED
    BY <2>1, <2>2, <1>4 DEF Counted
<1> QED
  BY <1>3, <1>4

-----------------------------------------------------------------------------
(* Who lives, through each step of the scheduler *)

LEMMA AliveFacts ==
  ASSUME SchedInv
  PROVE  /\ Alive \subseteq Task /\ Idle \notin Alive
         /\ current \in Task
         /\ current # Idle => current \in Alive
         /\ crashed \in BOOLEAN /\ reaping \in BOOLEAN
BY InvFacts DEF Alive, SchedInv, QueuesApart, OnePlace, RestOK

LEMMA CloneAlive ==
  ASSUME SchedInv, Clone
  PROVE  /\ Child \in Task \ Alive /\ current \in Alive
         /\ Alive' = Alive \cup {Child} /\ current' = current
         /\ ~crashed /\ ~reaping /\ ~crashed' /\ ~reaping'
<1>1. /\ freequeue # <<>> /\ freequeue' = Tail(freequeue) /\ leaked' = leaked
      /\ current' = current /\ crashed' = crashed /\ reaping' = reaping
      /\ current # Idle /\ ~crashed /\ ~reaping
  BY DEF Clone, Calling, InUser
<1>2. /\ Child \in Task /\ Child \in ToSet(freequeue)
      /\ ToSet(Tail(freequeue)) = ToSet(freequeue) \ {Child}
  BY <1>1, InvFacts, TailQueue DEF Child
<1>3. Child \notin leaked \cup {Idle}
  BY <1>2 DEF SchedInv, QueuesApart, OnePlace
<1>4. Child \notin Alive
  BY <1>2 DEF Alive
<1>5. Alive' = Alive \cup {Child}
  BY <1>1, <1>2, <1>3 DEF Alive
<1> QED
  BY <1>1, <1>2, <1>4, <1>5, AliveFacts

LEMMA CloneFailsAlive ==
  ASSUME SchedInv, CloneNoFrames \/ CloneNoPages
  PROVE  /\ Child \in Task \ Alive /\ current \in Alive
         /\ Alive' = Alive /\ current' = current
         /\ ~crashed /\ ~reaping /\ ~crashed' /\ ~reaping'
<1>1. /\ freequeue # <<>>
      /\ current' = current /\ crashed' = crashed /\ reaping' = reaping
      /\ current # Idle /\ ~crashed /\ ~reaping
  BY DEF CloneNoFrames, CloneNoPages, Calling, InUser
<1>2. /\ Child \in Task /\ Child \in ToSet(freequeue) /\ Tail(freequeue) \in Seq(Task)
      /\ ToSet(Tail(freequeue)) = ToSet(freequeue) \ {Child}
  BY <1>1, InvFacts, TailQueue DEF Child
<1>3. Child \notin Alive
  BY <1>2 DEF Alive
<1>4. ToSet(freequeue') \cup leaked' = ToSet(freequeue) \cup leaked
  <2>1. CASE CloneNoFrames
    <3>1. freequeue' = Append(Tail(freequeue), Child) /\ leaked' = leaked
      BY <2>1 DEF CloneNoFrames, Child
    <3>2. \A q \in Seq(Task), t \in Task : ToSet(Append(q, t)) = ToSet(q) \cup {t}
      BY AppendQueue
    <3>3. ToSet(Append(Tail(freequeue), Child)) = ToSet(Tail(freequeue)) \cup {Child}
      BY <1>2, <3>2
    <3> QED
      BY <3>1, <3>3, <1>2
  <2>2. CASE CloneNoPages
    <3>1. freequeue' = Tail(freequeue) /\ leaked' = leaked \cup {Child}
      BY <2>2 DEF CloneNoPages, Child
    <3> QED
      BY <3>1, <1>2
  <2> QED
    BY <2>1, <2>2
<1>5. Alive' = Alive
  BY <1>4 DEF Alive
<1> QED
  BY <1>1, <1>2, <1>3, <1>5, AliveFacts

\* a struct that comes to the tail of freequeue
LEMMA FreedAlive ==
  ASSUME SchedInv, NEW v \in Task, freequeue' = Append(freequeue, v), leaked' = leaked
  PROVE  Alive' = Alive \ {v}
<1>1. ToSet(freequeue') = ToSet(freequeue) \cup {v}
  BY InvFacts, AppendQueue
<1> QED
  BY <1>1 DEF Alive

LEMMA ExitAlive ==
  ASSUME SchedInv, Exit
  PROVE  /\ current \in Alive /\ Alive' = Alive \ {current}
         /\ ~crashed /\ ~crashed' /\ ~reaping'
<1>1. /\ current # Idle /\ ~crashed /\ crashed' = crashed /\ ~reaping' /\ leaked' = leaked
      /\ freequeue' = Append(freequeue, current)
  BY DEF Exit, Exiting
<1> QED
  BY <1>1, AliveFacts, FreedAlive

\* Only a walk that makes a free struct ready changes who lives, and crashes.
LEMMA OtherAlive ==
  ASSUME SchedInv, [OtherStep]_allvars
  PROVE  /\ UNCHANGED procvars
         /\ reaping' = reaping
         /\ ~crashed' => ~crashed /\ Alive' = Alive
         /\ reaping => current' = current
<1>1. CASE UNCHANGED allvars
  BY <1>1 DEF allvars, vars, queues, Alive
<1>2. CASE OtherStep
  <2>1. UNCHANGED reaping
    BY <1>2 DEF OtherStep, Clock, ClockInterrupt, UnblockStep, UnblockStray, StrayCursor,
         Schedule, TscTick, Crashed, Yield, SetPriority, Pause, BlockCurrent, queues, vars
  <2>2. ~crashed' => ~crashed
    BY <1>2 DEF OtherStep, Clock, ClockInterrupt, UnblockStep, UnblockStray, StrayCursor,
         Schedule, TscTick, Crashed, Yield, SetPriority, Pause, BlockCurrent, Calling,
         InUser, queues, vars
  <2>3. reaping => current' = current
    BY <1>2 DEF OtherStep, Clock, ClockInterrupt, UnblockStep, UnblockStray, StrayCursor,
         Schedule, TscTick, Crashed, Yield, SetPriority, Pause, BlockCurrent, Calling,
         InUser, queues, vars
  <2>4. ASSUME UnblockStray, ~crashed' PROVE UNCHANGED <<freequeue, leaked>>
    BY <2>4 DEF UnblockStray, Unlinked
  <2>5. UnblockStray \/ UNCHANGED <<freequeue, leaked>>
    BY <1>2 DEF OtherStep, Clock, ClockInterrupt, UnblockStep, StrayCursor,
         Schedule, TscTick, Crashed, Yield, SetPriority, Pause, BlockCurrent, queues, vars
  <2>6. ~crashed' => Alive' = Alive
    BY <2>4, <2>5 DEF Alive
  <2> QED
    BY <2>1, <2>2, <2>3, <2>6, <1>2 DEF OtherStep
<1> QED
  BY <1>1, <1>2

-----------------------------------------------------------------------------
(* The invariant *)

ProcTypes ==
  /\ links \in LinkMemory
  /\ master \in [Task -> Task]
  /\ num_threads \in [Task -> Int]
  /\ walk \in Nodes \cup {Null}
  /\ initial \in BOOLEAN /\ orphaned \in BOOLEAN

\* Between two threads the loop of exit stands where it would begin anew.
Reaps ==
  reaping => /\ KillsThreads
             /\ ~crashed => walk = links.next[Threads(current)]

\* the process whose count no longer holds
Doomed == IF reaping THEN {current} ELSE {}

\* the only process whose count does not count itself
FirstProcess ==
  /\ orphaned => ~initial
  /\ initial => Task1 \in Alive /\ First(Task1)

Whole ==
  /\ HaveMaster(Alive, master)
  /\ Counted(Alive, master, num_threads, Doomed, initial)
  /\ \A t \in Alive : First(t) /\ ~(crashed /\ reaping /\ t = current) =>
       Ring(links, Threads(t), Kin(Alive, master, t))

ProcInv ==
  /\ SchedInv /\ ProcTypes /\ Reaps /\ FirstProcess
  /\ Bounded(Alive, master, num_threads, Doomed)
  /\ ~crashed => Paired(Alive, master, links)
  /\ ~orphaned => Whole

ProcOver == crashed /\ ProcTypeOK /\ (orphaned => ~initial)

\* in user mode, where every process is in order
LEMMA InOrder ==
  ASSUME ProcInv, ~crashed, ~reaping
  PROVE  /\ Bounded(Alive, master, num_threads, {})
         /\ Paired(Alive, master, links)
         /\ ~orphaned => /\ HaveMaster(Alive, master)
                         /\ Counted(Alive, master, num_threads, {}, initial)
                         /\ Rings(Alive, master, links)
<1>1. Doomed = {}
  BY DEF Doomed
<1> QED
  BY <1>1 DEF ProcInv, Whole, Rings, First

LEMMA InOrderAgain ==
  ASSUME SchedInv', ProcTypes', FirstProcess', ~crashed', ~reaping',
         Bounded(Alive', master', num_threads', {}),
         Paired(Alive', master', links'),
         ~orphaned' => /\ HaveMaster(Alive', master')
                       /\ Counted(Alive', master', num_threads', {}, initial')
                       /\ Rings(Alive', master', links')
  PROVE  ProcInv'
<1>1. Doomed' = {}
  BY DEF Doomed
<1>2. Reaps'
  BY DEF Reaps
<1>3. ~orphaned' => Whole'
  BY <1>1 DEF Whole, Rings, First
<1> QED
  BY <1>1, <1>2, <1>3 DEF ProcInv

LEMMA CopiedFacts ==
  ASSUME links \in LinkMemory, Child \in Task, current \in Task
  PROVE  Copied \in LinkMemory /\ But(Child, links, Copied)
<1> DEFINE c == Child
           h == current
<1>1. /\ Threads(c) \in Nodes /\ ThreadsList(c) \in Nodes
      /\ Threads(h) \in Nodes /\ ThreadsList(h) \in Nodes
  BY NodeFacts
<1> HIDE DEF c, h
<1>2. Copied = [next |-> [links.next EXCEPT ![Threads(c)] = links.next[Threads(h)],
                                            ![ThreadsList(c)] = links.next[ThreadsList(h)]],
                prev |-> [links.prev EXCEPT ![Threads(c)] = links.prev[Threads(h)],
                                            ![ThreadsList(c)] = links.prev[ThreadsList(h)]]]
  BY DEF Copied, c, h
<1>3. Copied \in LinkMemory
  BY <1>1, <1>2 DEF LinkMemory
<1>4. But(c, links, Copied)
  BY <1>1, <1>2 DEF But, LinkMemory
<1> QED
  BY <1>3, <1>4 DEF c

-----------------------------------------------------------------------------
(* Each action keeps the invariant *)

LEMMA ProcInitInv == ProcInit => ProcInv
<1> SUFFICES ASSUME ProcInit PROVE ProcInv
  OBVIOUS
<1> DEFINE zeros == [n \in Nodes \cup {Null} |-> IF n = Null THEN Wild ELSE Null]
           L == [next |-> zeros, prev |-> zeros]
<1>1. SchedInv
  BY InitInv DEF ProcInit
<1>2. Alive = {Task1} /\ Task1 # Idle
  <2>1. ToSet(freequeue) = Task \ {Idle, Task1} /\ leaked = {} /\ Task1 \in Task
    BY InitFreeQueue, TaskFacts DEF ProcInit, Init
  <2>2. Task1 # Idle
    BY DEF Task1, Idle
  <2> QED
    BY <2>1, <2>2 DEF Alive
<1>3. /\ links = INIT_LIST_HEAD(L, Threads(Task1))
      /\ master = [t \in Task |-> IF t = Task1 THEN Task1 ELSE Idle]
      /\ num_threads = [t \in Task |-> 0]
      /\ walk = Null /\ initial = TRUE /\ orphaned = FALSE
      /\ ~reaping /\ ~crashed
  BY DEF ProcInit, Init
<1>4. Task1 \in Task /\ Idle \in Task /\ Threads(Task1) \in Nodes
  BY TaskFacts, NodeFacts
<1>5. L \in LinkMemory
  BY DEF LinkMemory
<1>6. /\ links \in LinkMemory
      /\ links.next[Threads(Task1)] = Threads(Task1)
      /\ links.prev[Threads(Task1)] = Threads(Task1)
  BY <1>3, <1>4, <1>5 DEF INIT_LIST_HEAD, LinkMemory
<1>7. master[Task1] = Task1 /\ master \in [Task -> Task] /\ num_threads \in [Task -> Int]
  BY <1>3, <1>4
<1>8. Folk(Alive, master, Task1) = {} /\ Kin(Alive, master, Task1) = {Threads(Task1)}
  <2>1. Folk(Alive, master, Task1) = {}
    BY <1>2 DEF Folk
  <2> QED
    BY <2>1 DEF Kin
<1>9. /\ \A t \in Task : Size(Alive, master, t) \in Nat /\ Size(Alive, master, t) <= NR_TASKS - 1
      /\ Size(Alive, master, Task1) = 0
  <2>1. Alive \subseteq Task
    BY <1>2, <1>4
  <2> QED
    BY <2>1, <1>8, SizeFacts, FS_EmptySet DEF Size
<1>10. Bounded(Alive, master, num_threads, {})
  <2> SUFFICES ASSUME NEW t \in Task
               PROVE  /\ num_threads[t] \in Int /\ num_threads[t] <= NR_TASKS
                      /\ num_threads[t] >= Size(Alive, master, t) - 3 * NR_TASKS
                      /\ num_threads[t] >= Size(Alive, master, t) - 2 * NR_TASKS
                      /\ num_threads[t] >= Size(Alive, master, t) - NR_TASKS
                      /\ num_threads[t] <= Size(Alive, master, t) + 1
    BY DEF Bounded
  <2>1. num_threads[t] = 0
    BY <1>3
  <2> QED
    BY <2>1, <1>9, TasksEnough
<1>11. Paired(Alive, master, links)
  BY <1>2, <1>6, <1>7, <1>8, NodeFacts DEF Paired, Place, Kin
<1>12. Counted(Alive, master, num_threads, {}, initial)
  <2>1. \A t \in Task : num_threads[t] = 0
    BY <1>3
  <2>2. num_threads[Task1] = Size(Alive, master, Task1) + 0 /\ initial
    BY <2>1, <1>3, <1>4, <1>9
  <2>3. \A t \in Alive \ {} : t = Task1
    BY <1>2
  <2>4. num_threads[Task1] = Size(Alive, master, Task1)
          + (IF initial /\ Task1 = Task1 THEN 0 ELSE 1)
    BY <2>2
  <2> QED
    BY <2>1, <2>3, <2>4 DEF Counted
<1>13. Rings(Alive, master, links)
  BY <1>2, <1>3, <1>4, <1>5, <1>8, RingAlone DEF Rings
<1>14. HaveMaster(Alive, master)
  BY <1>2, <1>7 DEF HaveMaster
<1>15. ProcTypes /\ Reaps /\ FirstProcess /\ Doomed = {}
  BY <1>2, <1>3, <1>6, <1>7 DEF ProcTypes, Reaps, FirstProcess, First, Doomed
<1> QED
  BY <1>1, <1>10, <1>11, <1>12, <1>13, <1>14, <1>15 DEF ProcInv, Whole, Rings, First

LEMMA ForkInv ==
  ASSUME ProcInv, Fork, SchedInv'
  PROVE  ProcInv'
<1> DEFINE c == Child
<1>1. Clone /\ SchedInv /\ ProcTypes /\ FirstProcess
  BY DEF Fork, ProcInv
<1>2. /\ c \in Task \ Alive /\ current \in Alive /\ Alive \subseteq Task
      /\ Alive' = Alive \cup {c} /\ current' = current
      /\ ~crashed /\ ~reaping /\ ~crashed' /\ ~reaping'
  BY <1>1, CloneAlive, AliveFacts
<1>3. /\ Bounded(Alive, master, num_threads, {})
      /\ Paired(Alive, master, links)
      /\ ~orphaned => /\ HaveMaster(Alive, master)
                      /\ Counted(Alive, master, num_threads, {}, initial)
                      /\ Rings(Alive, master, links)
  BY <1>2, InOrder
<1>4. Copied \in LinkMemory /\ But(c, links, Copied)
  BY <1>1, <1>2, CopiedFacts DEF ProcTypes
<1>5. /\ links' = INIT_LIST_HEAD(Copied, Threads(c))
      /\ master' = [master EXCEPT ![c] = c]
      /\ num_threads' = [num_threads EXCEPT ![c] = 1]
      /\ walk' = walk /\ initial' = initial /\ orphaned' = orphaned
  BY DEF Fork
<1> HIDE DEF c
<1>6. /\ master \in [Task -> Task] /\ num_threads \in [Task -> Int]
  BY <1>1 DEF ProcTypes
<1>7. ProcTypes'
  <2>1. links' \in LinkMemory
    BY <1>2, <1>4, <1>5, NodeFacts DEF INIT_LIST_HEAD, LinkMemory
  <2>2. master' \in [Task -> Task] /\ num_threads' \in [Task -> Int]
    BY <1>2, <1>5, <1>6
  <2> QED
    BY <2>1, <2>2, <1>1, <1>5 DEF ProcTypes
<1>8. initial => c # Task1
  BY <1>1, <1>2 DEF FirstProcess
<1>9. FirstProcess'
  BY <1>1, <1>2, <1>5, <1>6, <1>8 DEF FirstProcess, First
<1>10. Paired(Alive', master', links')
  BY <1>2, <1>3, <1>4, <1>5, <1>6, PairedFork
<1>11. /\ Bounded(Alive', master', num_threads', {})
       /\ Counted(Alive, master, num_threads, {}, initial) /\ HaveMaster(Alive, master)
          => Counted(Alive', master', num_threads', {}, initial')
  BY <1>2, <1>3, <1>5, <1>6, <1>8, CountsFork
<1>12. ASSUME ~orphaned
       PROVE  HaveMaster(Alive', master') /\ Rings(Alive', master', links')
  <2>1. Rings(Alive', master', links')
    BY <1>2, <1>3, <1>4, <1>5, <1>6, <1>12, RingsFork
  <2>2. HaveMaster(Alive', master')
    BY <1>2, <1>3, <1>5, <1>6, <1>12 DEF HaveMaster
  <2> QED
    BY <2>1, <2>2
<1> QED
  BY <1>2, <1>3, <1>5, <1>7, <1>9, <1>10, <1>11, <1>12, InOrderAgain

LEMMA CreateThreadInv ==
  ASSUME ProcInv, CreateThread, ~ThreadsCreate, SchedInv'
  PROVE  ProcInv'
<1> DEFINE c == Child
           h == current
<1>1. Clone /\ SchedInv /\ ProcTypes /\ FirstProcess /\ master[h] = h
  BY DEF CreateThread, ProcInv, First
<1>2. /\ c \in Task \ Alive /\ h \in Alive /\ Alive \subseteq Task
      /\ Alive' = Alive \cup {c}
      /\ ~crashed /\ ~reaping /\ ~crashed' /\ ~reaping'
  BY <1>1, CloneAlive, AliveFacts
<1>3. /\ Bounded(Alive, master, num_threads, {})
      /\ Paired(Alive, master, links)
      /\ ~orphaned => /\ HaveMaster(Alive, master)
                      /\ Counted(Alive, master, num_threads, {}, initial)
                      /\ Rings(Alive, master, links)
  BY <1>2, InOrder
<1>4. Copied \in LinkMemory /\ But(c, links, Copied)
  BY <1>1, <1>2, CopiedFacts DEF ProcTypes
<1>5. /\ links' = list_add_tail(Copied, ThreadsList(c), Threads(h))
      /\ master' = [master EXCEPT ![c] = h]
      /\ num_threads' = [num_threads EXCEPT ![c] = num_threads[h], ![h] = num_threads[h] + 1]
      /\ walk' = walk /\ initial' = initial /\ orphaned' = orphaned
  BY DEF CreateThread
<1> HIDE DEF c, h
<1>6. /\ master \in [Task -> Task] /\ num_threads \in [Task -> Int] /\ links \in LinkMemory
  BY <1>1 DEF ProcTypes
<1>7. ProcTypes'
  <2>1. links' \in LinkMemory
    <3>1. /\ Threads(h) \in Nodes /\ ThreadsList(c) \in Nodes
          /\ Copied.prev[Threads(h)] = links.prev[Threads(h)]
      BY <1>2, <1>4, NodeFacts DEF But
    <3>2. links.prev[Threads(h)] \in Nodes
      <4>1. Place(master, h) = Threads(h)
        BY <1>1 DEF Place
      <4>2. links.prev[Threads(h)] \in Kin(Alive, master, h)
        BY <4>1, <1>1, <1>2, <1>3 DEF Paired
      <4>3. h \in Task /\ \A t \in Task : Kin(Alive, master, t) \subseteq Nodes
        BY <1>2, <1>6, KinNodes
      <4> QED
        BY <4>2, <4>3
    <3> QED
      BY <3>1, <3>2, <1>4, <1>5 DEF list_add_tail, __list_add, LinkMemory
  <2>2. master' \in [Task -> Task] /\ num_threads' \in [Task -> Int]
    BY <1>2, <1>5, <1>6
  <2> QED
    BY <2>1, <2>2, <1>1, <1>5 DEF ProcTypes
<1>8. initial => c # Task1
  BY <1>1, <1>2 DEF FirstProcess
<1>9. FirstProcess'
  BY <1>1, <1>2, <1>5, <1>6, <1>8 DEF FirstProcess, First
<1>10. Paired(Alive', master', links')
  BY <1>1, <1>2, <1>3, <1>4, <1>5, <1>6, PairedCreate
<1>11. /\ Bounded(Alive', master', num_threads', {})
       /\ Counted(Alive, master, num_threads, {}, initial)
          => Counted(Alive', master', num_threads', {}, initial')
  BY <1>1, <1>2, <1>3, <1>5, <1>6, CountsCreate
<1>12. ASSUME ~orphaned
       PROVE  HaveMaster(Alive', master') /\ Rings(Alive', master', links')
  <2>1. Rings(Alive', master', links')
    BY <1>1, <1>2, <1>3, <1>4, <1>5, <1>6, <1>12, RingsCreate
  <2>2. HaveMaster(Alive', master')
    BY <1>1, <1>2, <1>3, <1>5, <1>6, <1>12 DEF HaveMaster
  <2> QED
    BY <2>1, <2>2
<1> QED
  BY <1>2, <1>3, <1>5, <1>7, <1>9, <1>10, <1>11, <1>12, InOrderAgain

LEMMA CreateFailsInv ==
  ASSUME ProcInv, CreateFails, SchedInv'
  PROVE  ProcInv'
<1> DEFINE c == Child
           h == current
           m == master[h]
<1>1. (CloneNoFrames \/ CloneNoPages) /\ SchedInv /\ ProcTypes /\ FirstProcess
  BY DEF CreateFails, ProcInv
<1>2. /\ c \in Task \ Alive /\ h \in Alive /\ Alive \subseteq Task
      /\ Alive' = Alive
      /\ ~crashed /\ ~reaping /\ ~crashed' /\ ~reaping'
  BY <1>1, CloneFailsAlive, AliveFacts
<1>3. /\ Bounded(Alive, master, num_threads, {})
      /\ Paired(Alive, master, links)
      /\ ~orphaned => /\ HaveMaster(Alive, master)
                      /\ Counted(Alive, master, num_threads, {}, initial)
                      /\ Rings(Alive, master, links)
  BY <1>2, InOrder
<1>4. Copied \in LinkMemory /\ But(c, links, Copied)
  BY <1>1, <1>2, CopiedFacts DEF ProcTypes
<1>5. /\ links' = Copied
      /\ master' = [master EXCEPT ![c] = m]
      /\ num_threads' = [num_threads EXCEPT ![c] = num_threads[h]]
      /\ walk' = walk /\ initial' = initial /\ orphaned' = orphaned
  BY DEF CreateFails
<1>6. /\ master \in [Task -> Task] /\ num_threads \in [Task -> Int] /\ m \in Task
  BY <1>1, <1>2 DEF ProcTypes
<1> HIDE DEF c, h, m
<1>7. ProcTypes'
  <2>1. master' \in [Task -> Task] /\ num_threads' \in [Task -> Int]
    BY <1>2, <1>5, <1>6
  <2> QED
    BY <2>1, <1>1, <1>4, <1>5 DEF ProcTypes
<1>8. FirstProcess'
  BY <1>1, <1>2, <1>5, <1>6 DEF FirstProcess, First
<1>9. Paired(Alive', master', links')
  BY <1>2, <1>3, <1>4, <1>5, <1>6, PairedCopy
<1>10. /\ Bounded(Alive', master', num_threads', {})
       /\ Counted(Alive, master, num_threads, {}, initial)
          => Counted(Alive', master', num_threads', {}, initial')
  BY <1>2, <1>3, <1>5, <1>6, CountsCopy
<1>11. ASSUME ~orphaned
       PROVE  HaveMaster(Alive', master') /\ Rings(Alive', master', links')
  <2>1. Rings(Alive', master', links')
    BY <1>2, <1>3, <1>4, <1>5, <1>6, <1>11, RingsCopy
  <2>2. HaveMaster(Alive', master')
    BY <1>2, <1>3, <1>5, <1>6, <1>11 DEF HaveMaster
  <2> QED
    BY <2>1, <2>2
<1> QED
  BY <1>2, <1>3, <1>5, <1>7, <1>8, <1>9, <1>10, <1>11, InOrderAgain

LEMMA OtherStepInv ==
  ASSUME ProcInv, [OtherStep]_allvars, ~crashed'
  PROVE  ProcInv'
<1>0. SchedInv'
  <2>1. [Next]_vars
    BY ProcStepRefines DEF ProcNext
  <2> QED
    BY <2>1, StepInv DEF ProcInv, Gone
<1>1. /\ Alive' = Alive /\ UNCHANGED procvars
      /\ reaping' = reaping /\ ~crashed
      /\ reaping => current' = current
  BY OtherAlive DEF ProcInv
<1>2. /\ links' = links /\ master' = master /\ num_threads' = num_threads
      /\ walk' = walk /\ initial' = initial /\ orphaned' = orphaned
  BY <1>1 DEF procvars
<1>3. ProcTypes' /\ FirstProcess' /\ Doomed' = Doomed
  BY <1>1, <1>2 DEF ProcInv, ProcTypes, FirstProcess, First, Doomed
<1>4. Reaps'
  BY <1>1, <1>2 DEF ProcInv, Reaps, KillsThreads, First
<1>5. ~orphaned' => Whole'
  BY <1>1, <1>2, <1>3 DEF ProcInv, Whole, First
<1> QED
  BY <1>0, <1>1, <1>2, <1>3, <1>4, <1>5 DEF ProcInv

(***************************************************************************)
(* The node exit is at is the first of the list of its process, and, since *)
(* the neighbours of a head are of its process, that of one of its threads.*)
(***************************************************************************)
LEMMA VictimIsThread ==
  ASSUME ProcInv, Exiting, KillsThreads, Victim # Threads(current)
  PROVE  /\ Victim = links.next[Threads(current)]
         /\ \E v \in Folk(Alive, master, current) : Victim = ThreadsList(v)
<1>1. /\ ~crashed /\ current \in Alive /\ master[current] = current
      /\ Paired(Alive, master, links)
  BY AliveFacts DEF Exiting, KillsThreads, First, ProcInv
<1>2. Victim = links.next[Threads(current)]
  BY <1>1 DEF Victim, ProcInv, Reaps
<1>3. Place(master, current) = Threads(current)
  BY <1>1 DEF Place
<1>4. links.next[Threads(current)] \in Kin(Alive, master, current)
  BY <1>1, <1>3 DEF Paired
<1> QED
  BY <1>2, <1>4 DEF Kin

LEMMA ExitKillsThreadInv ==
  ASSUME ProcInv, ExitKillsThread, SchedInv'
  PROVE  ProcInv'
<1> DEFINE h == current
           e == Victim
<1>1. /\ SchedInv /\ ProcTypes /\ FirstProcess /\ Reaps
      /\ Exiting /\ KillsThreads /\ ExitKills /\ Victim \in Nodes \ {Threads(current)}
  BY DEF ExitKillsThread, ExitKills, ProcInv
<1>2. PICK v \in Folk(Alive, master, h) : e = ThreadsList(v) /\ e = links.next[Threads(h)]
  BY <1>1, VictimIsThread
<1>3. /\ v \in Alive /\ v # h /\ master[v] = h /\ master[h] = h
      /\ h \in Alive /\ Alive \subseteq Task /\ ~crashed
      /\ master \in [Task -> Task] /\ num_threads \in [Task -> Int] /\ links \in LinkMemory
  BY <1>1, <1>2, AliveFacts DEF Folk, KillsThreads, First, Exiting, ProcTypes
<1>4. StructOf(e) = v
  BY <1>2, <1>3, NodeFacts
<1>5. /\ walk' = links.next[e] /\ links' = list_del(links, e)
      /\ master' = master /\ num_threads' = num_threads
      /\ initial' = initial /\ orphaned' = orphaned
      /\ current' = h /\ reaping' /\ leaked' = leaked
      /\ ~crashed' => freequeue' = Append(freequeue, v)
      /\ crashed' => freequeue' = freequeue
  <2>1. crashed' => freequeue' = freequeue
    BY <1>1, <1>3 DEF ExitKills
  <2>2. ~crashed' => freequeue' = Append(freequeue, v)
    BY <1>4 DEF ExitKillsThread
  <2>3. leaked' = leaked /\ current' = h /\ reaping'
    BY <1>1 DEF ExitKills
  <2>4. links' = list_del(links, e)
    BY <1>2, <1>4 DEF ExitKillsThread
  <2>5. walk' = links.next[e] /\ UNCHANGED <<master, num_threads, initial, orphaned>>
    BY DEF ExitKillsThread
  <2> QED
    BY <2>1, <2>2, <2>3, <2>4, <2>5
<1> HIDE DEF h, e
<1>6. /\ ~crashed' => Alive' = Alive \ {v}
      /\ crashed' => Alive' = Alive
  <2>1. ~crashed' => Alive' = Alive \ {v}
    BY <1>1, <1>3, <1>5, FreedAlive
  <2>2. crashed' => Alive' = Alive
    BY <1>5 DEF Alive
  <2> QED
    BY <2>1, <2>2
<1>7. Paired(Alive, master, links) /\ Bounded(Alive, master, num_threads, Doomed)
  BY <1>3 DEF ProcInv
<1>8. /\ Threads(h) \in Nodes /\ e \in Nodes /\ e # Threads(h)
      /\ Place(master, h) = Threads(h) /\ Place(master, v) = e
  <2>1. v \in Task /\ h \in Task
    BY <1>3
  <2>2. Threads(h) \in Nodes /\ ThreadsList(v) \in Nodes /\ ThreadsList(v) # Threads(h)
    BY <2>1, NodeFacts
  <2>3. master[h] = h /\ master[v] # v
    BY <1>3
  <2> QED
    BY <2>2, <2>3, <1>2 DEF Place
<1>9. /\ links.next[e] \in Nodes /\ links.prev[e] = Threads(h)
  <2>1. links.prev[e] = Threads(h)
    BY <1>2, <1>3, <1>7, <1>8 DEF Paired
  <2>2. links.next[e] \in Kin(Alive, master, h)
    BY <1>3, <1>7, <1>8 DEF Paired
  <2>3. h \in Task /\ \A t \in Task : Kin(Alive, master, t) \subseteq Nodes
    BY <1>3, KinNodes
  <2> QED
    BY <2>1, <2>2, <2>3
<1>10. links' \in LinkMemory /\ links'.next[Threads(h)] = links.next[e]
  BY <1>3, <1>5, <1>8, <1>9 DEF list_del, LinkMemory
<1>11. ProcTypes'
  BY <1>1, <1>3, <1>5, <1>9, <1>10 DEF ProcTypes
<1>12. Reaps'
  BY <1>1, <1>3, <1>5, <1>10 DEF Reaps, KillsThreads, First, h
<1>13. FirstProcess'
  BY <1>1, <1>3, <1>5, <1>6 DEF FirstProcess, First
<1>14. Doomed' = {h} /\ Doomed \subseteq {master[v]}
  BY <1>3, <1>5 DEF Doomed, h
<1>15. Bounded(Alive', master', num_threads', Doomed')
  <2>1. CASE crashed'
    <3>1. Bounded(Alive, master, num_threads, {h})
      BY <1>3, <1>7, <1>14 DEF Bounded
    <3> QED
      BY <2>1, <3>1, <1>5, <1>6, <1>14
  <2>2. CASE ~crashed'
    <3>1. Bounded(Alive \ {v}, master, num_threads, {master[v]})
      BY <1>3, <1>7, <1>14, CountsKill
    <3> QED
      BY <2>2, <3>1, <1>3, <1>5, <1>6, <1>14
  <2> QED
    BY <2>1, <2>2
<1>16. ~crashed' => Paired(Alive', master', links')
  <2>1. Paired(Alive \ {v}, master, list_del(links, ThreadsList(v)))
    BY <1>3, <1>7, PairedDelete
  <2> QED
    BY <2>1, <1>2, <1>5, <1>6
<1>17. ASSUME ~orphaned PROVE Whole'
  <2>1. /\ HaveMaster(Alive, master)
        /\ Counted(Alive, master, num_threads, Doomed, initial)
        /\ \A t \in Alive : master[t] = t => Ring(links, Threads(t), Kin(Alive, master, t))
    BY <1>3, <1>17 DEF ProcInv, Whole, First
  <2>2. HaveMaster(Alive', master')
    BY <2>1, <1>3, <1>5, <1>6 DEF HaveMaster
  <2>3. Counted(Alive', master', num_threads', Doomed', initial')
    <3>1. CASE crashed'
      <4>1. Counted(Alive, master, num_threads, {h}, initial)
        BY <2>1, <1>3, <1>14 DEF Counted
      <4> QED
        BY <3>1, <4>1, <1>5, <1>6, <1>14
    <3>2. CASE ~crashed'
      <4>1. Counted(Alive \ {v}, master, num_threads, {master[v]}, initial)
        BY <2>1, <1>3, <1>7, <1>14, CountsKill
      <4> QED
        BY <3>2, <4>1, <1>3, <1>5, <1>6, <1>14
    <3> QED
      BY <3>1, <3>2
  <2>4. ASSUME NEW t \in Alive', master[t] = t, ~(crashed' /\ t = h)
        PROVE  Ring(links', Threads(t), Kin(Alive', master, t))
    <3>1. t \in Alive /\ t \in Task /\ Ring(links, Threads(t), Kin(Alive, master, t))
      BY <2>1, <2>4, <1>3, <1>6
    <3>2. CASE t = h
      <4>1. Ring(list_del(links, ThreadsList(v)), Threads(master[v]),
                 Kin(Alive \ {v}, master, master[v]))
        BY <3>1, <3>2, <1>3, RingOwn
      <4>2. ~crashed' /\ Alive' = Alive \ {v}
        BY <3>2, <2>4, <1>6
      <4> QED
        BY <3>2, <4>1, <4>2, <1>2, <1>3, <1>5
    <3>3. CASE t # h
      <4>1. /\ Ring(list_del(links, ThreadsList(v)), Threads(t), Kin(Alive, master, t))
            /\ Kin(Alive \ {v}, master, t) = Kin(Alive, master, t)
        BY <3>1, <3>3, <1>3, <1>7, RingOther
      <4>2. Kin(Alive', master, t) = Kin(Alive, master, t)
        BY <4>1, <1>6
      <4> QED
        BY <4>1, <4>2, <1>2, <1>5
    <3> QED
      BY <3>2, <3>3
  <2>5. \A t \in Alive' : master'[t] = t /\ ~(crashed' /\ reaping' /\ t = current') =>
          Ring(links', Threads(t), Kin(Alive', master', t))
    BY <2>4, <1>5
  <2> QED
    BY <2>2, <2>3, <2>5 DEF Whole, First
<1> QED
  BY <1>5, <1>11, <1>12, <1>13, <1>15, <1>16, <1>17 DEF ProcInv

LEMMA ExitProcessInv ==
  ASSUME ProcInv, ExitProcess, ~ThreadsExit, SchedInv'
  PROVE  ProcInv'
<1> DEFINE h == current
<1>1. /\ SchedInv /\ ProcTypes /\ FirstProcess /\ Reaps /\ Exit /\ Exiting
      /\ master[h] = h
  BY DEF ExitProcess, Exit, First, ProcInv
<1>2. /\ h \in Alive /\ Alive \subseteq Task /\ Alive' = Alive \ {h}
      /\ ~crashed /\ ~crashed' /\ ~reaping'
  BY <1>1, ExitAlive, AliveFacts
<1>3. /\ links' = links /\ master' = master /\ num_threads' = num_threads
      /\ walk' = Null /\ initial' = (initial /\ h # Task1)
      /\ orphaned' = (orphaned \/ Folk(Alive, master, h) # {})
      /\ KillsThreads => Victim = Threads(h)
  BY DEF ExitProcess, Group, Folk
<1>4. /\ master \in [Task -> Task] /\ num_threads \in [Task -> Int]
      /\ Bounded(Alive, master, num_threads, Doomed) /\ Doomed \subseteq {h}
      /\ Paired(Alive, master, links)
  BY <1>1, <1>2 DEF ProcTypes, ProcInv, Doomed
<1>5. KillsThreads => links.next[Threads(h)] = Threads(h)
  BY <1>2, <1>3 DEF Victim, Reaps, ProcInv
<1>6. ASSUME ~orphaned
      PROVE  /\ HaveMaster(Alive, master)
             /\ Counted(Alive, master, num_threads, Doomed, initial)
             /\ \A t \in Alive : master[t] = t =>
                  Ring(links, Threads(t), Kin(Alive, master, t))
  BY <1>2, <1>6 DEF ProcInv, Whole, First
<1>7. ASSUME ~orphaned, initial, h # Task1
      PROVE  Folk(Alive, master, h) = {}
  <2>1. CASE KillsThreads
    <3>1. Kin(Alive, master, h) = {Threads(h)}
      BY <2>1, <1>1, <1>2, <1>5, <1>6, <1>7, RingEmpty
    <3>2. \A k \in Folk(Alive, master, h) : ThreadsList(k) = Threads(h)
      BY <3>1 DEF Kin
    <3> QED
      BY <3>2, NodeFacts
  <2>2. CASE ~KillsThreads
    <3>1. Doomed = {} /\ ~(num_threads[h] > 1)
      BY <2>2, <1>1 DEF Doomed, Reaps, KillsThreads, First, h
    <3>2. num_threads[h] = Size(Alive, master, h)
                           + (IF initial /\ h = Task1 THEN 0 ELSE 1)
      BY <3>1, <1>1, <1>2, <1>6, <1>7 DEF Counted
    <3>3. num_threads[h] = Size(Alive, master, h) + 1
      BY <3>2, <1>7
    <3>4. IsFiniteSet(Folk(Alive, master, h)) /\ Size(Alive, master, h) \in Nat
      BY <1>2, SizeFacts
    <3>5. Size(Alive, master, h) = 0
      <4> HIDE DEF h
      <4> QED
        BY <3>1, <3>3, <3>4
    <3> QED
      BY <3>4, <3>5, FS_EmptySet DEF Size
  <2> QED
    BY <2>1, <2>2
<1> HIDE DEF h
<1>8. ProcTypes'
  BY <1>1, <1>3 DEF ProcTypes
<1>9. FirstProcess'
  <2>1. orphaned' => ~initial'
    BY <1>1, <1>3, <1>7 DEF FirstProcess
  <2>2. initial' => Task1 \in Alive' /\ master'[Task1] = Task1
    BY <1>1, <1>2, <1>3 DEF FirstProcess, First
  <2> QED
    BY <2>1, <2>2 DEF FirstProcess, First
<1>10. Paired(Alive', master', links')
  BY <1>1, <1>2, <1>3, <1>4, PairedExit
<1>11. /\ Bounded(Alive', master', num_threads', {})
       /\ Counted(Alive, master, num_threads, Doomed, initial)
            => Counted(Alive', master', num_threads', {}, initial')
  BY <1>1, <1>2, <1>3, <1>4, CountsExit
<1>12. ASSUME ~orphaned'
       PROVE  /\ HaveMaster(Alive', master')
              /\ Counted(Alive', master', num_threads', {}, initial')
              /\ Rings(Alive', master', links')
  <2>1. ~orphaned /\ Folk(Alive, master, h) = {}
    BY <1>3, <1>12
  <2>2. HaveMaster(Alive', master')
    BY <2>1, <1>2, <1>3, <1>6 DEF HaveMaster, Folk
  <2>3. Rings(Alive', master', links')
    <3> SUFFICES ASSUME NEW t \in Alive', master[t] = t
                 PROVE  Ring(links, Threads(t), Kin(Alive', master, t))
      BY <1>3 DEF Rings
    <3>1. t \in Alive /\ Ring(links, Threads(t), Kin(Alive, master, t))
      BY <2>1, <1>2, <1>6
    <3>2. Folk(Alive \ {h}, master, t) = Folk(Alive, master, t)
      BY <1>1, <1>2 DEF Folk
    <3>3. Kin(Alive', master, t) = Kin(Alive, master, t)
      BY <3>2, <1>2 DEF Kin
    <3> QED
      BY <3>1, <3>3
  <2> QED
    BY <2>1, <2>2, <2>3, <1>6, <1>11
<1> QED
  BY <1>2, <1>8, <1>9, <1>10, <1>11, <1>12, InOrderAgain

LEMMA pthread_exitInv ==
  ASSUME ProcInv, pthread_exit, SchedInv'
  PROVE  ProcInv'
<1> DEFINE v == current
<1>1. /\ SchedInv /\ ProcTypes /\ FirstProcess /\ Reaps /\ Exit /\ master[v] # v
  BY DEF pthread_exit, First, ProcInv
<1>2. /\ v \in Alive /\ Alive \subseteq Task /\ Alive' = Alive \ {v}
      /\ ~crashed /\ ~crashed' /\ ~reaping'
  BY <1>1, ExitAlive, AliveFacts
<1>3. ~reaping
  BY <1>1 DEF Reaps, KillsThreads, First
<1>4. /\ Bounded(Alive, master, num_threads, {})
      /\ Paired(Alive, master, links)
      /\ ~orphaned => /\ HaveMaster(Alive, master)
                      /\ Counted(Alive, master, num_threads, {}, initial)
                      /\ Rings(Alive, master, links)
  BY <1>2, <1>3, InOrder
<1>5. /\ links' = list_del(links, ThreadsList(v))
      /\ num_threads' = [num_threads EXCEPT ![master[v]] = @ - 1]
      /\ master' = master /\ walk' = walk /\ initial' = initial /\ orphaned' = orphaned
  BY DEF pthread_exit
<1> HIDE DEF v
<1>6. /\ master \in [Task -> Task] /\ num_threads \in [Task -> Int] /\ links \in LinkMemory
  BY <1>1 DEF ProcTypes
<1>7. ProcTypes'
  <2>1. links' \in LinkMemory
    <3>1. ThreadsList(v) \in Nodes /\ Place(master, v) = ThreadsList(v)
      BY <1>1, <1>2, NodeFacts DEF Place
    <3>2. /\ links.next[ThreadsList(v)] \in Kin(Alive, master, master[v])
          /\ links.prev[ThreadsList(v)] \in Kin(Alive, master, master[v])
      BY <3>1, <1>2, <1>4 DEF Paired
    <3>3. \A t \in Task : Kin(Alive, master, t) \subseteq Nodes
      BY <1>2, <1>6, KinNodes
    <3>4. links.next[ThreadsList(v)] \in Nodes /\ links.prev[ThreadsList(v)] \in Nodes
      BY <3>2, <3>3, <1>2, <1>6
    <3> QED
      BY <3>1, <3>4, <1>5, <1>6 DEF list_del, LinkMemory
  <2>2. num_threads' \in [Task -> Int]
    BY <1>2, <1>5, <1>6
  <2> QED
    BY <2>1, <2>2, <1>1, <1>5 DEF ProcTypes
<1>8. FirstProcess'
  BY <1>1, <1>2, <1>5 DEF FirstProcess, First
<1>9. Paired(Alive', master', links')
  BY <1>1, <1>2, <1>4, <1>5, <1>6, PairedDelete
<1>10. /\ Bounded(Alive', master', num_threads', {})
       /\ HaveMaster(Alive, master) /\ Counted(Alive, master, num_threads, {}, initial)
            => Counted(Alive', master', num_threads', {}, initial')
  BY <1>1, <1>2, <1>4, <1>5, <1>6, CountsThread
<1>11. ASSUME ~orphaned
       PROVE  HaveMaster(Alive', master') /\ Rings(Alive', master', links')
  <2>1. HaveMaster(Alive', master')
    BY <1>1, <1>2, <1>4, <1>5, <1>11 DEF HaveMaster
  <2>2. ASSUME NEW t \in Alive', master[t] = t
        PROVE  Ring(links', Threads(t), Kin(Alive \ {v}, master, t))
    <3>1. t \in Task /\ Ring(links, Threads(t), Kin(Alive, master, t))
      BY <2>2, <1>2, <1>4, <1>11 DEF Rings
    <3>2. CASE t = master[v]
      BY <3>1, <3>2, <1>1, <1>2, <1>5, <1>6, RingOwn
    <3>3. CASE t # master[v]
      <4>1. /\ Ring(list_del(links, ThreadsList(v)), Threads(t), Kin(Alive, master, t))
            /\ Kin(Alive \ {v}, master, t) = Kin(Alive, master, t)
        BY <3>1, <3>3, <1>1, <1>2, <1>4, <1>6, RingOther
      <4> QED
        BY <4>1, <1>5
    <3> QED
      BY <3>2, <3>3
  <2>3. Rings(Alive', master', links')
    BY <2>2, <1>2, <1>5 DEF Rings
  <2> QED
    BY <2>1, <2>3
<1> QED
  BY <1>2, <1>4, <1>5, <1>7, <1>8, <1>9, <1>10, <1>11, InOrderAgain

-----------------------------------------------------------------------------
(* What the runs check, for any number of tasks *)

(***************************************************************************)
(* The fields of a struct that clone copies, exit leaves and orphans       *)
(* decrement keep to their bounds.                                         *)
(***************************************************************************)
LEMMA ProcInvTypes == ProcInv => ProcTypeOK
<1> SUFFICES ASSUME ProcInv PROVE ProcTypeOK
  OBVIOUS
<1>1. ProcTypes /\ Bounded(Alive, master, num_threads, Doomed) /\ Alive \subseteq Task
  BY AliveFacts DEF ProcInv
<1>2. ASSUME NEW t \in Task
      PROVE  num_threads[t] \in -3 * NR_TASKS .. NR_TASKS
  <2>1. Size(Alive, master, t) \in Nat
    BY <1>1, SizeFacts
  <2>2. /\ num_threads[t] \in Int /\ num_threads[t] <= NR_TASKS
        /\ num_threads[t] >= Size(Alive, master, t) - 3 * NR_TASKS
    BY <1>1 DEF Bounded
  <2> QED
    BY <2>1, <2>2, TasksEnough
<1>3. ASSUME ~orphaned, NEW t \in Task PROVE num_threads[t] \in 0 .. NR_TASKS
  <2>1. num_threads[t] >= 0 /\ num_threads[t] \in Int /\ num_threads[t] <= NR_TASKS
    BY <1>1, <1>3 DEF ProcInv, Whole, Counted, Bounded
  <2> QED
    BY <2>1, TasksEnough
<1>4. num_threads \in [Task -> IF orphaned THEN -3 * NR_TASKS .. NR_TASKS ELSE 0 .. NR_TASKS]
  <2>1. num_threads \in [Task -> Int]
    BY <1>1 DEF ProcTypes
  <2>2. CASE orphaned
    BY <2>1, <2>2, <1>2
  <2>3. CASE ~orphaned
    BY <2>1, <2>3, <1>3
  <2> QED
    BY <2>2, <2>3
<1> QED
  BY <1>1, <1>4 DEF ProcTypes, ProcTypeOK, LinkMemory

LEMMA ProcInvKnown == ProcInv => ThreadsKnown
<1> SUFFICES ASSUME ProcInv PROVE ThreadsKnown
  OBVIOUS
<1>1. /\ links \in LinkMemory /\ Alive \subseteq Task /\ (orphaned => ~initial)
  BY AliveFacts DEF ProcInv, ProcTypes, FirstProcess
<1>2. ASSUME ~orphaned, NEW t \in Alive
      PROVE  /\ master[t] \in Alive
             /\ First(t) /\ ~(reaping /\ t = current) =>
                  /\ RingOfThreads(t)
                  /\ num_threads[t] = Cardinality(Group(t)) +
                                      (IF initial /\ t = Task1 THEN 0 ELSE 1)
  <2>1. Whole
    BY <1>2 DEF ProcInv
  <2>2. master[t] \in Alive
    BY <2>1 DEF Whole, HaveMaster
  <2>3. ASSUME First(t), ~(reaping /\ t = current)
        PROVE  /\ RingOfThreads(t)
               /\ num_threads[t] = Cardinality(Group(t)) +
                                   (IF initial /\ t = Task1 THEN 0 ELSE 1)
    <3>1. Ring(links, Threads(t), Kin(Alive, master, t))
      BY <2>1, <2>3 DEF Whole
    <3>2. RingOfThreads(t)
      BY <3>1, <1>1, <1>2, RingIsList
    <3>3. t \in Alive \ Doomed /\ master[t] = t
      BY <2>3, <1>2 DEF Doomed, First
    <3>4. num_threads[t] = Size(Alive, master, t) + (IF initial /\ t = Task1 THEN 0 ELSE 1)
      BY <2>1, <3>3 DEF Whole, Counted
    <3>5. Size(Alive, master, t) = Cardinality(Group(t))
      BY DEF Size, Folk, Group
    <3> QED
      BY <3>2, <3>4, <3>5
  <2> QED
    BY <2>2, <2>3
<1> QED
  BY <1>1, <1>2 DEF ThreadsKnown

LEMMA ProcInvKills == ProcInv => ExitKillsItsThreads
<1> SUFFICES ASSUME ProcInv, Exiting, KillsThreads, Victim # Threads(current)
             PROVE  Victim \in {ThreadsList(k) : k \in Group(current)}
  BY DEF ExitKillsItsThreads
<1>1. PICK v \in Folk(Alive, master, current) : Victim = ThreadsList(v)
  BY VictimIsThread
<1>2. v \in Group(current)
  BY DEF Folk, Group
<1> QED
  BY <1>1, <1>2

LEMMA ProcOverStep ==
  (ProcInv \/ ProcOver) /\ crashed' /\ [OtherStep]_allvars => ProcOver'
<1> SUFFICES ASSUME ProcTypeOK /\ (orphaned => ~initial), crashed', UNCHANGED procvars
             PROVE  ProcOver'
  <2>1. [OtherStep]_allvars => UNCHANGED procvars
    BY DEF OtherStep, allvars
  <2> QED
    BY <2>1, ProcInvTypes DEF ProcInv, FirstProcess, ProcOver
<1> QED
  BY DEF ProcOver, ProcTypeOK, procvars

LEMMA ProcStepInv ==
  ASSUME ~ThreadsCreate, ~ThreadsExit, ProcInv \/ ProcOver, [ProcNext]_allvars
  PROVE  ProcInv' \/ ProcOver'
<1>1. CASE crashed
  <2>1. [OtherStep]_allvars
    BY <1>1 DEF ProcNext, Fork, CreateThread, CreateFails, ExitKillsThread, ExitProcess,
       pthread_exit, Clone, CloneNoFrames, CloneNoPages, ExitKills, Exit, Exiting,
       Calling, InUser
  <2>2. crashed'
    BY <1>1, ProcStepRefines, GoneStays DEF vars
  <2> QED
    BY <2>1, <2>2, ProcOverStep
<1>2. CASE ~crashed /\ [OtherStep]_allvars
  BY <1>2, OtherStepInv, ProcOverStep DEF ProcOver
<1>3. CASE ~crashed /\ ~OtherStep /\ ProcNext
  <2>1. ProcInv /\ SchedInv
    BY <1>3 DEF ProcInv, ProcOver
  <2>2. CASE Fork
    BY <2>1, <2>2, CloneInv, ForkInv DEF Fork
  <2>3. CASE CreateThread
    BY <2>1, <2>3, CloneInv, CreateThreadInv DEF CreateThread
  <2>4. CASE CreateFails
    BY <2>1, <2>4, CloneNoFramesInv, CloneNoPagesInv, CreateFailsInv DEF CreateFails
  <2>5. CASE ExitKillsThread
    BY <2>1, <2>5, ExitKillsInv, ExitKillsThreadInv DEF ExitKillsThread
  <2>6. CASE ExitProcess
    BY <2>1, <2>6, ExitInv, ExitProcessInv DEF ExitProcess
  <2>7. CASE pthread_exit
    BY <2>1, <2>7, ExitInv, pthread_exitInv DEF pthread_exit
  <2> QED
    BY <1>3, <2>2, <2>3, <2>4, <2>5, <2>6, <2>7 DEF ProcNext
<1> QED
  BY <1>1, <1>2, <1>3

\* The counts and links of every struct, those that are free included, keep to their ranges.
THEOREM ProcTypeCorrect ==
  ASSUME ~ThreadsCreate, ~ThreadsExit
  PROVE  ProcSpec => []ProcTypeOK
<1>1. ProcInit => ProcInv
  BY ProcInitInv
<1>2. (ProcInv \/ ProcOver) /\ [ProcNext]_allvars => (ProcInv \/ ProcOver)'
  BY ProcStepInv
<1>3. ProcInv \/ ProcOver => ProcTypeOK
  BY ProcInvTypes DEF ProcOver
<1> QED
  BY <1>1, <1>2, <1>3, PTL DEF ProcSpec

(***************************************************************************)
(* As long as no exit has left a thread, the list and the count of every   *)
(* process are right, whatever clones failed and whatever was copied.      *)
(***************************************************************************)
THEOREM ThreadsAreKnown ==
  ASSUME ~ThreadsCreate, ~ThreadsExit
  PROVE  ProcSpec => []ThreadsKnown
<1>1. ProcInit => ProcInv
  BY ProcInitInv
<1>2. (ProcInv \/ ProcOver) /\ [ProcNext]_allvars => (ProcInv \/ ProcOver)'
  BY ProcStepInv
<1>3. ProcInv \/ ProcOver => ThreadsKnown
  BY ProcInvKnown DEF ProcOver, ThreadsKnown
<1> QED
  BY <1>1, <1>2, <1>3, PTL DEF ProcSpec

(***************************************************************************)
(* The loop of sys_exit only kills threads of the process that exits, also *)
(* after an exit has left a thread.                                        *)
(***************************************************************************)
THEOREM ExitOnlyKillsItsThreads ==
  ASSUME ~ThreadsCreate, ~ThreadsExit
  PROVE  ProcSpec => []ExitKillsItsThreads
<1>1. ProcInit => ProcInv
  BY ProcInitInv
<1>2. (ProcInv \/ ProcOver) /\ [ProcNext]_allvars => (ProcInv \/ ProcOver)'
  BY ProcStepInv
<1>3. ProcInv \/ ProcOver => ExitKillsItsThreads
  BY ProcInvKills DEF ProcOver, ExitKillsItsThreads, Exiting
<1> QED
  BY <1>1, <1>2, <1>3, PTL DEF ProcSpec

-----------------------------------------------------------------------------
(* Semaphores *)

LEMMA StepRefines == [SemNext]_allsemvars => [Next]_vars
<1> SUFFICES ASSUME [SemNext]_allsemvars PROVE [Next]_vars
  OBVIOUS
<1>1. CASE SchedulerStep
  BY <1>1 DEF SchedulerStep, Next, SystemCall
<1>2. CASE ThreadExit
  BY <1>2 DEF ThreadExit, Next, SystemCall
<1>3. ASSUME NEW s \in Sem, semWaitBlocks(s) PROVE [Next]_vars
  BY <1>3 DEF semWaitBlocks, Next, SystemCall
<1>4. CASE UNCHANGED vars
  BY <1>4
<1> QED
  BY <1>1, <1>2, <1>3, <1>4
     DEF SemNext, semCreate, semWaitPasses, semPost, semDestroy, allsemvars

\* what holds of the scheduler, through every step of the semaphores
LEMMA SemScheduler == SemSpec => [](SchedInv \/ Gone)
<1>1. SemInit => Init
  BY DEF SemInit
<1> QED
  BY <1>1, StepRefines, AlwaysInv, PTL DEF SemSpec, Spec

-----------------------------------------------------------------------------
WaitersAreBlocked ==
  /\ waiting \in [Task -> Sem \cup {NoSem}]
  /\ \A t \in Task : waiting[t] # NoSem => t \in ToSet(blocked)

LEMMA WaitersInit == SemInit => WaitersAreBlocked
BY DEF SemInit, WaitersAreBlocked

(* waiting is only kept for tasks that are still blocked *)
LEMMA KeptWhileBlocked ==
  ASSUME NEW w \in [Task -> Sem \cup {NoSem}], WaitingWhileBlocked(w)
  PROVE  WaitersAreBlocked'
<1>1. waiting' \in [Task -> Sem \cup {NoSem}]
  BY DEF WaitingWhileBlocked
<1>2. \A t \in Task : waiting'[t] # NoSem => t \in ToSet(blocked')
  BY DEF WaitingWhileBlocked
<1> QED
  BY <1>1, <1>2 DEF WaitersAreBlocked

LEMMA WaitersStep == WaitersAreBlocked /\ [SemNext]_allsemvars => WaitersAreBlocked'
<1> SUFFICES ASSUME WaitersAreBlocked, [SemNext]_allsemvars PROVE WaitersAreBlocked'
  OBVIOUS
<1>1. CASE SchedulerStep \/ ThreadExit
  BY <1>1, KeptWhileBlocked DEF SchedulerStep, ThreadExit, WaitersAreBlocked
<1>2. ASSUME NEW s \in Sem, semWaitBlocks(s) PROVE WaitersAreBlocked'
  <2>1. [waiting EXCEPT ![current] = s] \in [Task -> Sem \cup {NoSem}]
    BY DEF WaitersAreBlocked
  <2> QED
    BY <1>2, <2>1, KeptWhileBlocked DEF semWaitBlocks
<1>3. CASE UNCHANGED <<vars, waiting>>
  BY <1>3 DEF WaitersAreBlocked, vars, queues
<1> QED
  BY <1>1, <1>2, <1>3
     DEF SemNext, semCreate, semWaitPasses, semPost, semDestroy, allsemvars, semvars

(* an action of Scheduler other than ExitKills takes only due tasks out of blocked *)
LEMMA OnlyDueLeave ==
  ASSUME SchedInv, WaitersAreBlocked, [SemNext]_allsemvars,
         NEW t \in ToSet(blocked), unpause_tick[t] = NotArmed
  PROVE  t \in ToSet(blocked')
<1>1. CASE UnblockStep
  <2>1. PICK i \in DOMAIN blocked :
          \/ Due(blocked[i]) /\ blocked' = RemoveAt(blocked, i)
          \/ blocked' = blocked
    BY <1>1 DEF UnblockStep
  <2>2. CASE Due(blocked[i]) /\ blocked' = RemoveAt(blocked, i)
    <3>1. ToSet(blocked') = ToSet(blocked) \ {blocked[i]}
      BY <2>2, InvFacts, RemoveAtQueue
    <3>2. t # blocked[i]
      BY <2>2 DEF Due, NotArmed
    <3> QED
      BY <3>1, <3>2
  <2> QED
    BY <2>1, <2>2
<1>2. CASE BlockCurrent
  BY <1>2, InvFacts, AppendQueue DEF BlockCurrent
<1>3. CASE UNCHANGED blocked
  BY <1>3
<1>4. CASE SchedulerStep
  <2>1. CASE Clock
    BY <1>1, <1>3, <2>1 DEF Clock, ClockInterrupt, UnblockStray, StrayCursor,
       Schedule, queues
  <2>2. CASE \E k \in 1 .. MaxPause : Pause(k)
    BY <1>2, <2>2 DEF Pause
  <2>3. CASE \/ TscTick \/ Crashed \/ Yield
             \/ Clone \/ CloneNoFrames \/ CloneNoPages
             \/ \E p \in Priorities : SetPriority(p)
    BY <1>3, <2>3 DEF TscTick, Crashed, Yield, Clone, CloneNoFrames,
       CloneNoPages, SetPriority, vars, queues
  <2> QED
    BY <1>4, <2>1, <2>2, <2>3 DEF SchedulerStep
<1>5. CASE ThreadExit
  BY <1>3, <1>5 DEF ThreadExit, Exit
<1>6. ASSUME NEW s \in Sem, semWaitBlocks(s) PROVE t \in ToSet(blocked')
  BY <1>2, <1>6 DEF semWaitBlocks, SemBlock
<1>7. CASE UNCHANGED vars
  BY <1>3, <1>7 DEF vars, queues
<1> QED
  BY <1>4, <1>5, <1>6, <1>7
     DEF SemNext, semCreate, semWaitPasses, semPost, semDestroy, allsemvars

\* once the kernel has crashed, nothing moves
LEMMA SemGoneStays ==
  ASSUME crashed, WaitersAreBlocked, [SemNext]_allsemvars
  PROVE  UNCHANGED <<vars, count, TID, slept>> /\ waiting' = waiting
<1>1. UNCHANGED vars
  BY StepRefines, GoneStays
<1>2. SchedulerStep \/ UNCHANGED allsemvars
  BY DEF SemNext, ThreadExit, Exit, Exiting, semCreate, semWaitPasses, semWaitBlocks,
     SemBlock, semPost, semDestroy, Calling, InUser
<1>3. UNCHANGED <<count, TID, slept>>
  BY <1>2 DEF SchedulerStep, Pause, Calling, InUser, allsemvars, semvars
<1>4. waiting' = waiting
  <2>1. CASE SchedulerStep
    BY <1>1, <2>1 DEF SchedulerStep, WaitingWhileBlocked, WaitersAreBlocked, vars, queues
  <2> QED
    BY <1>2, <2>1 DEF allsemvars, semvars
<1> QED
  BY <1>1, <1>3, <1>4

(***************************************************************************)
(* A thread that blocks in semWait with no tick armed stays blocked, for   *)
(* every number of threads and semaphores: no post ever wakes anybody.     *)
(***************************************************************************)
THEOREM WaitersNeverWoken == SemSpec => WaitIsForever
<1>1. SemInit => Init
  BY DEF SemInit
<1>2. (SchedInv \/ Gone) /\ WaitersAreBlocked /\ [SemNext]_allsemvars =>
        [\A t \in Task : waiting[t] # NoSem /\ unpause_tick[t] = NotArmed
           => t \in ToSet(blocked')]_allsemvars
  BY OnlyDueLeave, SemGoneStays DEF WaitersAreBlocked, Gone, allsemvars, semvars
<1> QED
  BY <1>1, <1>2, SemScheduler, WaitersInit, WaitersStep, PTL
     DEF SemSpec, WaitIsForever

-----------------------------------------------------------------------------
(***************************************************************************)
(* The counts.  An invariant on the number of waiters needs that, as long  *)
(* as nobody has slept, no timer is armed, so that nobody leaves blocked.  *)
(***************************************************************************)
NothingArmed == ~slept => \A t \in Task : unpause_tick[t] = NotArmed

SemInv == SemTypeOK /\ NothingArmed /\ NoFreePass

LEMMA CountFacts ==
  /\ Counts \subseteq Int
  /\ -1 \in Counts
  /\ Values \subseteq Counts
  /\ \A c \in Counts : c > 0 => c - 1 \in Counts
  /\ \A c \in Counts : c \in -MaxCount + 1 .. 0 => c - 1 \in Counts
  /\ \A c \in Counts : c < MaxCount => c + 1 \in Counts
<1>1. MaxCount \in Nat /\ Values \subseteq Nat
  BY SemaphoresAssumption
<1>2. \A c \in Counts : c > 0 => c - 1 \in Counts
  <2> SUFFICES ASSUME NEW c \in Counts, c > 0 PROVE c - 1 \in Counts
    OBVIOUS
  <2>1. CASE c \in -MaxCount - 1 .. MaxCount
    BY <1>1, <2>1 DEF Counts
  <2>2. ASSUME NEW v \in Values, c \in 0 .. v PROVE c - 1 \in Counts
    <3>1. c - 1 \in 0 .. v
      BY <1>1, <2>2
    <3> QED
      BY <3>1 DEF Counts
  <2> QED
    BY <2>1, <2>2 DEF Counts
<1>3. Values \subseteq Counts
  <2>1. \A v \in Values : v \in 0 .. v
    BY <1>1
  <2> QED
    BY <2>1 DEF Counts
<1>4. Counts \subseteq Int
  BY <1>1 DEF Counts
<1>5. \A c \in Counts : c \in -MaxCount + 1 .. 0 => c - 1 \in Counts
  BY <1>1 DEF Counts
<1>6. \A c \in Counts : c < MaxCount => c + 1 \in Counts
  <2> SUFFICES ASSUME NEW c \in Counts, c < MaxCount PROVE c + 1 \in Counts
    OBVIOUS
  <2>1. c \in Int /\ c >= -MaxCount - 1
    BY <1>1 DEF Counts
  <2> QED
    BY <1>1, <2>1 DEF Counts
<1>7. -1 \in Counts
  BY <1>1 DEF Counts
<1> QED
  BY <1>2, <1>3, <1>4, <1>5, <1>6, <1>7

LEMMA SemInitInv == SemInit => SemInv
<1> SUFFICES ASSUME SemInit PROVE SemInv
  OBVIOUS
<1>1. SemTypeOK
  BY CountFacts DEF SemInit, SemTypeOK
<1>2. NothingArmed
  BY DEF SemInit, Init, NothingArmed
<1>3. NoFreePass
  BY DEF SemInit, NoFreePass
<1> QED
  BY <1>1, <1>2, <1>3 DEF SemInv

LEMMA WaitersFinite ==
  ASSUME NEW s
  PROVE  IsFiniteSet(Waiters(s)) /\ Cardinality(Waiters(s)) \in Nat
<1>1. IsFiniteSet(Task)
  BY SchedulerAssumption, FS_Interval DEF Task
<1> QED
  BY <1>1, FS_Subset, FS_CardinalityType DEF Waiters

LEMMA SemTypeStep ==
  ASSUME SchedInv, WaitersAreBlocked, SemTypeOK, [SemNext]_allsemvars
  PROVE  SemTypeOK'
<1>1. WaitersAreBlocked'
  BY WaitersStep
<1>2. current \in Task
  BY InvFacts
<1>3. slept' \in BOOLEAN
  <2>1. slept' = slept \/ slept' = TRUE
    BY DEF SemNext, SchedulerStep, ThreadExit, semCreate, semWaitPasses,
       semWaitBlocks, semPost, semDestroy, allsemvars, semvars
  <2> QED
    BY <2>1 DEF SemTypeOK
<1>4. count' \in [Sem -> Counts] /\ TID' \in [Sem -> Task \cup {Free, Departed}]
  <2>0. count \in [Sem -> Counts] /\ TID \in [Sem -> Task \cup {Free, Departed}]
    BY DEF SemTypeOK
  <2>1. CASE UNCHANGED <<count, TID>>
    BY <2>0, <2>1
  <2>2. CASE ThreadExit
    BY <2>0, <2>2 DEF ThreadExit
  <2>3. ASSUME NEW v \in Values, semCreate(v)
        PROVE  count' \in [Sem -> Counts] /\ TID' \in [Sem -> Task \cup {Free, Departed}]
    BY <1>2, <2>0, <2>3, CountFacts DEF semCreate
  <2>4. ASSUME NEW s \in Sem, semWaitPasses(s) \/ semWaitBlocks(s) \/ semPost(s)
        PROVE  count' \in [Sem -> Counts] /\ TID' \in [Sem -> Task \cup {Free, Departed}]
    <3>1. count[s] \in Counts
      BY <2>0
    <3> QED
      BY <2>0, <2>4, <3>1, CountFacts DEF semWaitPasses, semWaitBlocks, semPost
  <2>5. ASSUME NEW s \in Sem, semDestroy(s)
        PROVE  count' \in [Sem -> Counts] /\ TID' \in [Sem -> Task \cup {Free, Departed}]
    BY <2>0, <2>5, CountFacts DEF semDestroy
  <2> QED
    BY <2>1, <2>2, <2>3, <2>4, <2>5 DEF SemNext, SchedulerStep, allsemvars, semvars
<1> QED
  BY <1>1, <1>3, <1>4 DEF SemTypeOK, WaitersAreBlocked

LEMMA ArmedStep ==
  ASSUME SchedInv, NothingArmed, SemTypeOK, [SemNext]_allsemvars
  PROVE  NothingArmed'
<1> SUFFICES ASSUME ~slept' PROVE \A t \in Task : unpause_tick'[t] = NotArmed
  BY DEF NothingArmed
<1>0. current \in Task /\ unpause_tick \in [Task -> {NotArmed} \cup 0 .. MaxPause]
      /\ freequeue \in Seq(Task)
  BY InvFacts DEF SchedInv, TypeOK
<1>1. ~slept
  BY DEF SemNext, SchedulerStep, ThreadExit, semCreate, semWaitPasses,
         semWaitBlocks, semPost, semDestroy, allsemvars, semvars
<1>2. \A t \in Task : unpause_tick[t] = NotArmed
  BY <1>1 DEF NothingArmed
<1>3. CASE UNCHANGED unpause_tick
  BY <1>2, <1>3
<1>4. CASE TscTick
  BY <1>2, <1>4 DEF TscTick, NotArmed
<1>5. CASE Clone \/ CloneNoFrames \/ CloneNoPages
  <2>1. unpause_tick' = [unpause_tick EXCEPT ![Head(freequeue)] = unpause_tick[current]]
    BY <1>5 DEF Clone, CloneNoFrames, CloneNoPages, CopyTo
  <2> QED
    BY <1>0, <1>2, <2>1
<1>6. CASE SchedulerStep
  <2>1. Clock \/ TscTick \/ Crashed \/ Yield \/ Clone \/ CloneNoFrames \/ CloneNoPages
          \/ \E p \in Priorities : SetPriority(p)
    BY <1>6 DEF SchedulerStep
  <2>2. CASE Clock \/ Crashed \/ Yield \/ \E p \in Priorities : SetPriority(p)
    BY <1>3, <2>2 DEF Clock, ClockInterrupt, UnblockStep, UnblockStray, StrayCursor,
       Schedule, Crashed, Yield, SetPriority, vars
  <2> QED
    BY <1>4, <1>5, <2>1, <2>2
<1>7. CASE ThreadExit
  BY <1>3, <1>7 DEF ThreadExit, Exit
<1>8. ASSUME NEW s \in Sem, semWaitBlocks(s) PROVE UNCHANGED unpause_tick
  BY <1>8 DEF semWaitBlocks, SemBlock
<1> QED
  BY <1>3, <1>6, <1>7, <1>8
     DEF SemNext, semCreate, semWaitPasses, semPost, semDestroy, allsemvars, vars

(* while no timer is armed, nobody stops waiting *)
LEMMA WaitersStay ==
  ASSUME SchedInv, WaitersAreBlocked, NothingArmed, [SemNext]_allsemvars, ~slept,
         NEW w \in [Task -> Sem \cup {NoSem}], WaitingWhileBlocked(w),
         \A t \in Task : w[t] # waiting[t] => t \in ToSet(blocked')
  PROVE  waiting' = w
<1>1. \A t \in ToSet(blocked) : t \in ToSet(blocked')
  <2>1. ToSet(blocked) \subseteq Task
    BY InvFacts
  <2> QED
    BY <2>1, OnlyDueLeave DEF NothingArmed
<1>2. \A t \in Task : t \notin ToSet(blocked') => w[t] = NoSem
  BY <1>1 DEF WaitersAreBlocked
<1> QED
  BY <1>2 DEF WaitingWhileBlocked

LEMMA NoFreePassStep ==
  ASSUME SchedInv, WaitersAreBlocked, SemInv, [SemNext]_allsemvars
  PROVE  NoFreePass'
<1> SUFFICES ASSUME ~slept', NEW s \in Sem, TID'[s] # Free
             PROVE  -count'[s] <= Cardinality(Waiters(s)')
  BY DEF NoFreePass
<1>0. ~slept
  BY DEF SemNext, SchedulerStep, ThreadExit, semCreate, semWaitPasses,
         semWaitBlocks, semPost, semDestroy, allsemvars, semvars
<1>1. /\ count \in [Sem -> Counts] /\ count[s] \in Int
      /\ TID \in [Sem -> Task \cup {Free, Departed}]
      /\ waiting \in [Task -> Sem \cup {NoSem}]
      /\ current \in Task
      /\ current \notin ToSet(blocked)
      /\ Cardinality(Waiters(s)) \in Nat
  <2>1. /\ count \in [Sem -> Counts]
        /\ TID \in [Sem -> Task \cup {Free, Departed}]
        /\ waiting \in [Task -> Sem \cup {NoSem}]
    BY DEF SemInv, SemTypeOK
  <2>2. current \in Task /\ current \notin ToSet(blocked)
    BY InvFacts DEF SchedInv, QueuesApart, OnePlace
  <2>3. Cardinality(Waiters(s)) \in Nat
    BY WaitersFinite
  <2>4. count[s] \in Int
    BY <2>1, CountFacts
  <2> QED
    BY <2>1, <2>2, <2>3, <2>4
<1>2. TID[s] # Free => -count[s] <= Cardinality(Waiters(s))
  BY <1>0 DEF SemInv, NoFreePass
<1>3. waiting' = waiting => Waiters(s)' = Waiters(s)
  BY DEF Waiters
<1>4. CASE SchedulerStep \/ ThreadExit
  <2>1. waiting' = waiting
    BY <1>0, <1>1, <1>4, WaitersStay DEF SchedulerStep, ThreadExit, SemInv
  <2>2. count' = count /\ TID[s] # Free
    <3>1. count' = count /\ (TID' = TID \/ ThreadExit)
      BY <1>4 DEF SchedulerStep, ThreadExit
    <3>2. ASSUME ThreadExit PROVE TID[s] # Free
      <4>1. current # Free
        BY <1>1, SemaphoresAssumption
      <4>2. TID'[s] = IF TID[s] = current THEN Departed ELSE TID[s]
        BY <3>2 DEF ThreadExit
      <4> QED
        BY <4>1, <4>2
    <3> QED
      BY <3>1, <3>2
  <2> QED
    BY <1>2, <1>3, <2>1, <2>2
<1>5. ASSUME NEW v \in Values, semCreate(v)
      PROVE  -count'[s] <= Cardinality(Waiters(s)')
  <2>1. waiting' = waiting /\ v \in Nat
    BY <1>5, SemaphoresAssumption DEF semCreate
  <2>2. count'[s] = v \/ (count'[s] = count[s] /\ TID'[s] = TID[s])
    BY <1>1, <1>5 DEF semCreate
  <2> QED
    BY <1>1, <1>2, <1>3, <2>1, <2>2
<1>6. ASSUME NEW r \in Sem, semWaitPasses(r) \/ semPost(r) \/ semDestroy(r)
      PROVE  -count'[s] <= Cardinality(Waiters(s)')
  <2>0. waiting' = waiting
    BY <1>6 DEF semWaitPasses, semPost, semDestroy
  <2>1. CASE semWaitPasses(r)
    <3>1. TID[s] # Free /\ (count'[s] = count[s] \/ (count[s] > 0 /\ count'[s] = count[s] - 1))
      BY <1>1, <2>1 DEF semWaitPasses
    <3> QED
      BY <1>1, <1>2, <1>3, <2>0, <3>1
  <2>2. CASE semPost(r)
    <3>1. TID[s] # Free /\ (count'[s] = count[s] \/ count'[s] = count[s] + 1)
      BY <1>1, <2>2 DEF semPost
    <3> QED
      BY <1>1, <1>2, <1>3, <2>0, <3>1
  <2>3. CASE semDestroy(r)
    <3>1. TID'[s] = TID[s] /\ count'[s] = count[s]
      BY <1>1, <2>3 DEF semDestroy
    <3> QED
      BY <1>1, <1>2, <1>3, <2>0, <3>1
  <2> QED
    BY <1>6, <2>1, <2>2, <2>3
<1>7. ASSUME NEW r \in Sem, semWaitBlocks(r)
      PROVE  -count'[s] <= Cardinality(Waiters(s)')
  <2> DEFINE w == [waiting EXCEPT ![current] = r]
  <2>1. current \in ToSet(blocked')
    BY <1>1, <1>7, InvFacts, AppendQueue DEF semWaitBlocks, SemBlock, BlockCurrent
  <2>2. w \in [Task -> Sem \cup {NoSem}] /\ WaitingWhileBlocked(w)
    BY <1>1, <1>7 DEF semWaitBlocks
  <2>3. waiting' = w
    BY <1>0, <1>1, <2>1, <2>2, WaitersStay DEF SemInv
  <2>4. waiting[current] = NoSem /\ NoSem \notin Sem
    BY <1>1, SemaphoresAssumption DEF WaitersAreBlocked, Sem
  <2>5. CASE s = r
    <3>1. Waiters(s)' = Waiters(s) \cup {current} /\ current \notin Waiters(s)
      BY <1>1, <2>3, <2>4, <2>5 DEF Waiters
    <3>2. Cardinality(Waiters(s)') = Cardinality(Waiters(s)) + 1
      BY <3>1, WaitersFinite, FS_AddElement
    <3>3. count'[s] = count[s] - 1 /\ TID[s] # Free
      BY <1>1, <1>7, <2>5 DEF semWaitBlocks
    <3> QED
      BY <1>1, <1>2, <3>2, <3>3
  <2>6. CASE s # r
    <3>1. Waiters(s)' = Waiters(s)
      BY <1>1, <2>3, <2>4, <2>6 DEF Waiters
    <3>2. count'[s] = count[s] /\ TID'[s] = TID[s]
      BY <1>1, <1>7, <2>6 DEF semWaitBlocks
    <3> QED
      BY <1>2, <3>1, <3>2
  <2> QED
    BY <2>5, <2>6
<1>8. CASE UNCHANGED allsemvars
  <2>1. waiting' = waiting /\ count' = count /\ TID' = TID
    BY <1>8 DEF allsemvars, semvars
  <2> QED
    BY <1>2, <1>3, <2>1
<1> QED
  BY <1>4, <1>5, <1>6, <1>7, <1>8 DEF SemNext

LEMMA SemStep ==
  SchedInv /\ WaitersAreBlocked /\ SemInv /\ [SemNext]_allsemvars => SemInv'
BY SemTypeStep, ArmedStep, NoFreePassStep DEF SemInv

LEMMA SemOverStep ==
  ASSUME crashed, WaitersAreBlocked, SemInv, [SemNext]_allsemvars
  PROVE  SemInv'
<1>1. UNCHANGED <<vars, count, TID, slept, waiting>>
  BY SemGoneStays
<1> QED
  BY <1>1 DEF SemInv, SemTypeOK, NothingArmed, NoFreePass, Waiters, vars, queues

LEMMA SemInvHolds == SemSpec => []SemInv
<1>1. (SchedInv \/ Gone) /\ WaitersAreBlocked /\ SemInv /\ [SemNext]_allsemvars => SemInv'
  BY SemStep, SemOverStep DEF Gone
<1> QED
  BY <1>1, SemInitInv, SemScheduler, WaitersInit, WaitersStep, PTL DEF SemSpec

(***************************************************************************)
(* Counts stay between the bounds on posts and waits and the values that   *)
(* programs ask for, and whoever is recorded as waiting is blocked.        *)
(***************************************************************************)
THEOREM SemTypeCorrect == SemSpec => []SemTypeOK
<1>1. SemInv => SemTypeOK
  BY DEF SemInv
<1> QED
  BY <1>1, SemInvHolds, PTL

(***************************************************************************)
(* Nobody passes a semaphore that is taken, for any number of threads and  *)
(* semaphores, as long as no thread has slept: semWait counts below zero   *)
(* only for a thread that stays blocked.                                   *)
(***************************************************************************)
THEOREM WaitExcludes == SemSpec => []NoFreePass
<1>1. SemInv => NoFreePass
  BY DEF SemInv
<1> QED
  BY <1>1, SemInvHolds, PTL

=============================================================================
