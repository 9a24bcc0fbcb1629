---------------------------- MODULE LinkedList ----------------------------
(***************************************************************************)
(* The doubly linked lists of list.c at the level of their pointers. A     *)
(* memory m is a record of two functions on addresses, m.next and m.prev;  *)
(* a head is a node like any other. Both kernels use the same file.        *)
(*                                                                         *)
(* The row of Null stands for address 0: a write through a null pointer    *)
(* shows there (WroteNull), and a read of it gives Wild.                   *)
(***************************************************************************)
EXTENDS Naturals, Sequences, FiniteSets

CONSTANTS Address,  \* what a pointer may hold
          Null,     \* (void*) 0
          Wild      \* whatever lies at address 0: not the address of a node

-----------------------------------------------------------------------------
(* The operations of list.c *)

\* An empty list: both links of the head lead to it.
INIT_LIST_HEAD(m, list) ==
  [m EXCEPT !.next[list] = list, !.prev[list] = list]

\* __list_add: between two neighbours, in the order of the four stores.
__list_add(m, new, prev, next) ==
  [m EXCEPT !.prev[next] = new,
            !.next[new] = next,
            !.prev[new] = prev,
            !.next[prev] = new]

list_add(m, new, head) == __list_add(m, new, head, m.next[head])

list_add_tailMutant(m, new, head) == __list_add(m, new, head, m.next[head])

list_add_tail(m, new, head) == __list_add(m, new, m.prev[head], head)

\* list_del joins the neighbours and clears the links of the entry.
list_del(m, entry) ==
  [m EXCEPT !.prev[m.next[entry]] = m.prev[entry],
            !.next[m.prev[entry]] = m.next[entry],
            !.next[entry] = Null,
            !.prev[entry] = Null]

list_empty(m, head) == m.next[head] = head

list_first(m, head) == m.next[head]

-----------------------------------------------------------------------------
(* list_for_each *)

\* The nodes a walk of the list meets after its head. It ends at the head, at an
\* address that holds no node, or after as many nodes as there are.
Path(m, head) ==
  LET walk[left \in 0 .. Cardinality(Address)] ==
        [node \in Address |->
           IF node \in {head, Null, Wild} \/ left = 0 THEN <<node>>
           ELSE <<node>> \o walk[left - 1][m.next[node]]]
  IN walk[Cardinality(Address)][m.next[head]]

\* list_for_each ends, at the head.
Returns(m, head) == LET path == Path(m, head) IN path[Len(path)] = head

\* The nodes that list_for_each visits, in order
Entries(m, head) == LET path == Path(m, head) IN SubSeq(path, 1, Len(path) - 1)

-----------------------------------------------------------------------------
(* Notions for stating properties *)

\* Something was stored through a null pointer.
WroteNull(m) == m.next[Null] # Wild \/ m.prev[Null] # Wild

Linked(m) == {n \in DOMAIN m.next \ {Null} : m.next[n] # Null}

\* next and prev are inverse to each other on the linked nodes.
DoublyLinked(m) ==
  \A n \in Linked(m) :
    /\ m.next[n] \in Linked(m)
    /\ m.prev[n] \in Linked(m)
    /\ m.prev[m.next[n]] = n
    /\ m.next[m.prev[n]] = n

=============================================================================
