---------------------------- MODULE MemoryProofs ----------------------------
(***************************************************************************)
(* Who owns frames, pages and structs, for every size of the memory, any   *)
(* number of tasks and any programs that follow the protocol: no frame has *)
(* two owners, none is lost while nobody creates threads, and a thread     *)
(* keeps its pages while the first thread of its process lives.            *)
(***************************************************************************)
EXTENDS Memory, DataLemmas, FiniteSetTheorems, TLAPS

(* what the proof needs of the types; struct fields that no page depends   *)
(* on are left out                                                         *)
Shape ==
  /\ phys_mem \subseteq Frame
  /\ PT \in [Task -> [Page -> Page]]
  /\ present \in [Task -> SUBSET Page]
  /\ dir \in [Task -> Task]
  /\ stack \in [Task -> SUBSET High]
  /\ screen_buffer \in [Task -> High \cup {NULL}]

Queues ==
  /\ freequeue \in Seq(Task)
  /\ threads \in [Task -> Seq(Task)]

(* an entry that is not present holds no frame *)
EmptyEntries == \A d \in Task : \A p \in UserPages \ present[d] : PT[d][p] = 0

(* the frames of the code are never freed, nor mapped as anything else,     *)
(* whether or not their entries are present: fork copies the entries        *)
CodeFrames ==
  \A d \in Task : \A c \in Code :
    /\ PT[d][c] \in phys_mem \cup {0}
    /\ \A e \in Task : \A p \in UserPages \cap present[e] : PT[e][p] # PT[d][c]

FramesOK == PrivateFrames /\ EmptyEntries /\ CodeFrames

MemInv == Shape /\ Queues /\ FramesOK

(* the sections of the address space do not overlap *)
LEMMA Layout ==
  /\ NULL \notin UserPages
  /\ UserPages \subseteq Page
  /\ Code \subseteq Page
  /\ Kernel \subseteq Page
  /\ UserPages \cap Code = {}
  /\ UserPages \cap Kernel = {}
  /\ Code \cap Kernel = {}
  /\ Data \subseteq UserPages
  /\ High \subseteq UserPages
  /\ 0 \notin Frame
  /\ 0 \in Page
  /\ Frame \subseteq Nat \cap Page
  /\ Page \subseteq Int
<1>1. /\ NUM_PAG_KERNEL \in Nat \ {0} /\ NUM_PAG_CODE \in Nat \ {0}
      /\ NUM_PAG_DATA \in Nat \ {0} /\ TOTAL_PAGES \in Nat
      /\ TOTAL_PAGES >= NUM_PAG_KERNEL + 2 * (NUM_PAG_CODE + NUM_PAG_DATA)
  BY MemoryAssumption
<1> QED
  BY <1>1 DEF NULL, UserPages, Data, High, FirstHigh, Code, Kernel, Page, Frame,
     PAG_LOG_INIT_CODE, PAG_LOG_INIT_DATA

(* frames that FirstFit hands out in one call are different from each other *)
LEMMA FirstFitInjective ==
  ASSUME NEW S \in SUBSET Page, NEW new \in [S -> Free], FirstFit(new),
         NEW p \in S, NEW q \in S, new[p] = new[q]
  PROVE  p = q
<1>1. p \in Int /\ q \in Int
  BY Layout
<1> QED
  BY <1>1 DEF FirstFit

(***************************************************************************)
(* New frames are mapped at user pages of one page table.  Code entries    *)
(* may be copied from a table that has them.                               *)
(***************************************************************************)
MapsNew(d, S, new, table, pages) ==
  /\ d \in Task
  /\ S \in SUBSET UserPages
  /\ new \in [S -> Free]
  /\ FirstFit(new)
  /\ table \in [Page -> Page]
  /\ pages \in SUBSET Page
  /\ \A p \in S : table[p] = new[p]
  /\ \A p \in UserPages \ S : table[p] = PT[d][p]
  /\ pages \cap UserPages = (present[d] \cap UserPages) \cup S
  /\ \A c \in Code : \E e \in Task : table[c] = PT[e][c]
  /\ PT' = [PT EXCEPT ![d] = table]
  /\ present' = [present EXCEPT ![d] = pages]
  /\ phys_mem' = phys_mem \cup {new[p] : p \in S}

LEMMA MapKeeps ==
  ASSUME Shape, FramesOK,
         NEW d, NEW S, NEW new, NEW table, NEW pages,
         MapsNew(d, S, new, table, pages)
  PROVE  FramesOK' /\ phys_mem' \subseteq Frame
                   /\ PT' \in [Task -> [Page -> Page]]
                   /\ present' \in [Task -> SUBSET Page]
<1> USE DEF MapsNew, FramesOK, CodeFrames
<1> DEFINE IsNew(e, p) == e = d /\ p \in S
<1>1. \A e \in Task : \A p \in UserPages \cap present'[e] :
        /\ IsNew(e, p) => PT'[e][p] = new[p]
        /\ ~IsNew(e, p) => PT'[e][p] = PT[e][p] /\ p \in present[e]
  BY DEF Shape
<1>2. \A p \in S : new[p] \in Frame /\ new[p] \notin phys_mem
  BY DEF Free
<1>3. \A e \in Task : \A c \in Code : \E k \in Task : PT'[e][c] = PT[k][c]
  BY DEF Shape
<1>4. ASSUME NEW e \in Task, NEW c \in Code
      PROVE  PT'[e][c] \in phys_mem \cup {0}
  BY <1>3
<1>5. ASSUME NEW e \in Task, NEW p \in UserPages \cap present'[e],
             NEW k \in Task, NEW q \in UserPages \cap present'[k],
             PT'[e][p] = PT'[k][q]
      PROVE  e = k /\ p = q
  <2>1. CASE IsNew(e, p) /\ IsNew(k, q)
    <3>1. S \in SUBSET Page
      BY Layout
    <3> QED
      BY <2>1, <3>1, <1>1, <1>5, FirstFitInjective
  <2>2. CASE ~IsNew(e, p) /\ ~IsNew(k, q)
    BY <2>2, <1>1, <1>5 DEF PrivateFrames
  <2>3. CASE IsNew(e, p) /\ ~IsNew(k, q)
    BY <2>3, <1>1, <1>2, <1>5 DEF PrivateFrames
  <2>4. CASE ~IsNew(e, p) /\ IsNew(k, q)
    BY <2>4, <1>1, <1>2, <1>5 DEF PrivateFrames
  <2> QED
    BY <2>1, <2>2, <2>3, <2>4
<1>6. ASSUME NEW e \in Task, NEW p \in UserPages \cap present'[e], NEW k \in Task
      PROVE  /\ PT'[e][p] \in phys_mem'
             /\ \A c \in Code : PT'[e][p] # PT'[k][c]
  <2>1. CASE IsNew(e, p)
    BY <2>1, <1>1, <1>2, <1>4, Layout
  <2>2. CASE ~IsNew(e, p)
    <3>1. PT'[e][p] = PT[e][p] /\ p \in UserPages \cap present[e]
      BY <2>2, <1>1
    <3>2. PT[e][p] \in phys_mem
      BY <3>1 DEF PrivateFrames
    <3>3. \A c \in Code : PT'[e][p] # PT'[k][c]
      BY <3>1, <1>3
    <3> QED
      BY <3>1, <3>2, <3>3
  <2> QED
    BY <2>1, <2>2
<1>7. PrivateFrames'
  BY <1>5, <1>6 DEF PrivateFrames
<1>8. EmptyEntries'
  BY DEF EmptyEntries, Shape
<1>9. CodeFrames'
  BY <1>4, <1>6
<1>10. /\ phys_mem' \subseteq Frame
       /\ PT' \in [Task -> [Page -> Page]]
       /\ present' \in [Task -> SUBSET Page]
  BY <1>2 DEF Shape
<1> QED
  BY <1>7, <1>8, <1>9, <1>10

(* User pages of one page table are unmapped and their frames freed. *)
LEMMA UnmapKeeps ==
  ASSUME Shape, FramesOK,
         NEW d \in Task, NEW pages \in SUBSET UserPages,
         Unmap(d, pages),
         phys_mem' = AfterFree(FramesOf(d, pages))
  PROVE  FramesOK' /\ phys_mem' \subseteq Frame
                   /\ PT' \in [Task -> [Page -> Page]]
                   /\ present' \in [Task -> SUBSET Page]
<1> USE DEF FramesOK, CodeFrames
<1>1. \A e \in Task : \A p \in Page :
        /\ PT'[e][p] = IF e = d /\ p \in pages THEN 0 ELSE PT[e][p]
        /\ p \in present'[e] <=> p \in present[e] /\ ~(e = d /\ p \in pages)
  BY DEF Unmap, Shape
<1>2. \A e \in Task : \A p \in Page \cap present'[e] :
        PT'[e][p] = PT[e][p] /\ p \in present[e]
  BY <1>1
<1>3. \A f \in phys_mem \ phys_mem' : \E p \in pages \cap present[d] : f = PT[d][p]
  <2>1. \A f \in phys_mem : f \in Nat \ {0}
    BY Layout DEF Shape
  <2> QED
    BY <2>1 DEF AfterFree, FramesOf, EmptyEntries
<1>4. \A e \in Task : \A p \in UserPages \cap present'[e] : PT'[e][p] \in phys_mem'
  <2> SUFFICES ASSUME NEW e \in Task, NEW p \in UserPages \cap present'[e],
                      PT'[e][p] \notin phys_mem'
               PROVE  FALSE
    OBVIOUS
  <2>1. /\ PT'[e][p] = PT[e][p] /\ p \in present[e]
        /\ PT[e][p] \in phys_mem
    BY <1>2, Layout DEF PrivateFrames
  <2>2. PICK q \in pages \cap present[d] : PT[e][p] = PT[d][q]
    BY <1>3, <2>1
  <2>3. e = d /\ p = q
    BY <2>1, <2>2 DEF PrivateFrames
  <2> QED
    BY <2>3, <1>1, Layout
<1>5. CodeFrames'
  <2> SUFFICES ASSUME NEW e \in Task, NEW c \in Code
               PROVE  /\ PT'[e][c] \in phys_mem' \cup {0}
                      /\ \A k \in Task : \A p \in UserPages \cap present'[k] :
                           PT'[k][p] # PT'[e][c]
    OBVIOUS
  <2>1. PT'[e][c] = PT[e][c]
    BY <1>1, Layout
  <2>2. PT[e][c] \in phys_mem => PT[e][c] \in phys_mem'
    BY <1>3
  <2>3. \A k \in Task : \A p \in UserPages \cap present'[k] : PT'[k][p] # PT[e][c]
    BY <1>2, Layout
  <2> QED
    BY <2>1, <2>2, <2>3
<1>6. PrivateFrames'
  BY <1>2, <1>4, Layout DEF PrivateFrames
<1>7. EmptyEntries'
  BY <1>1, Layout DEF EmptyEntries
<1>8. /\ phys_mem' \subseteq Frame
      /\ PT' \in [Task -> [Page -> Page]]
      /\ present' \in [Task -> SUBSET Page]
  <2>1. phys_mem' \subseteq Frame
    BY DEF AfterFree, Shape
  <2>2. PT' \in [Task -> [Page -> Page]] /\ present' \in [Task -> SUBSET Page]
    BY Layout DEF Unmap, Shape
  <2> QED
    BY <2>1, <2>2
<1> QED
  BY <1>5, <1>6, <1>7, <1>8

-----------------------------------------------------------------------------

LEMMA InitMem == Init => MemInv
<1> SUFFICES ASSUME Init PROVE MemInv
  OBVIOUS
<1>1. PICK user \in [Code \cup Data -> Frame] :
        /\ \A p \in DOMAIN user :
             user[p] = NUM_PAG_KERNEL + 2 * (p - PAG_LOG_INIT_CODE)
        /\ phys_mem = {user[p] : p \in DOMAIN user}
        /\ PT = [d \in Task |->
                   IF d = Task1
                   THEN [p \in Page |-> IF p \in DOMAIN user THEN user[p]
                                        ELSE KernelTable[p]]
                   ELSE KernelTable]
  BY DEF Init, init_frames, set_user_pages
<1>2. present = [d \in Task |-> (Kernel \ ({0} \cup Guards))
                               \cup (IF d = Task1 THEN Code \cup Data ELSE {})]
  BY DEF Init
<1>3. \A p, q \in Code \cup Data : user[p] = user[q] => p = q
  <2>1. Code \cup Data \subseteq Int /\ PAG_LOG_INIT_CODE \in Int
    BY Layout, MemoryAssumption DEF PAG_LOG_INIT_CODE
  <2> QED
    BY <1>1, <2>1, MemoryAssumption
<1>4. Task1 \in Task
  BY MemoryAssumption DEF Task1, Task
<1>5. KernelTable \in [Page -> Page] /\ \A p \in UserPages \cup Code : KernelTable[p] = 0
  BY Layout, MemoryAssumption DEF KernelTable, Kernel
<1>6. Shape
  <2>1. PT \in [Task -> [Page -> Page]]
    BY <1>1, <1>5, Layout
  <2>2. present \in [Task -> SUBSET Page]
    BY <1>2, Layout, MemoryAssumption DEF UserPages
  <2> QED
    BY <1>1, <2>1, <2>2 DEF Shape, Init, allocate_DIR, init_dir_pages
<1>7. Queues
  <2>1. freequeue \in Seq(Task)
    BY MemoryAssumption DEF Init, Task
  <2> QED
    BY <1>4, <2>1 DEF Queues, Init
<1>8. \A d \in Task : \A p \in (UserPages \cup Code) \cap present[d] :
        d = Task1 /\ p \in Code \cup Data /\ PT[d][p] = user[p]
  BY <1>1, <1>2, Layout
<1>9. PrivateFrames
  <2>1. ASSUME NEW d \in Task, NEW e \in Task, NEW p \in UserPages \cap present[d],
               NEW q \in (UserPages \cup Code) \cap present[e], PT[d][p] = PT[e][q]
        PROVE  d = e /\ p = q
    <3>1. d = Task1 /\ p \in Code \cup Data /\ PT[d][p] = user[p]
      BY <1>8
    <3>2. e = Task1 /\ q \in Code \cup Data /\ PT[e][q] = user[q]
      BY <1>8
    <3>3. user[p] = user[q]
      BY <2>1, <3>1, <3>2
    <3> QED
      BY <1>3, <3>1, <3>2, <3>3
  <2>2. \A d \in Task : \A p \in UserPages \cap present[d] : PT[d][p] \in phys_mem
    <3>1. DOMAIN user = Code \cup Data /\ phys_mem = {user[p] : p \in DOMAIN user}
      BY <1>1
    <3> QED
      BY <1>8, <3>1
  <2>3. UserPages \cap Code = {}
    BY Layout
  <2> QED
    BY <2>1, <2>2, <2>3 DEF PrivateFrames
<1>10. EmptyEntries
  BY <1>1, <1>2, <1>5, Layout DEF EmptyEntries
<1>11. CodeFrames
  <2>1. \A d \in Task : \A c \in Code : PT[d][c] = user[c] \/ PT[d][c] = 0
    BY <1>1, <1>5, Layout
  <2>2. \A p \in DOMAIN user : user[p] \in phys_mem /\ user[p] # 0
    BY <1>1, Layout
  <2>3. \A c \in Code, p \in UserPages \cap (Code \cup Data) : user[c] # user[p]
    BY <1>3, Layout
  <2> QED
    BY <1>8, <2>1, <2>2, <2>3, Layout DEF CodeFrames
<1> QED
  BY <1>6, <1>7, <1>9, <1>10, <1>11 DEF MemInv, FramesOK

(* A step that leaves memory alone keeps all that is said of it. *)
LEMMA MemoryUnchanged ==
  ASSUME MemInv, UNCHANGED memory
  PROVE  FramesOK'
BY DEF MemInv, memory, FramesOK, PrivateFrames, EmptyEntries, CodeFrames

LEMMA ForkKeeps ==
  ASSUME MemInv, NEW t \in Task, Fork(t)
  PROVE  MemInv'
<1> DEFINE child == Head(freequeue)
           S == Data \cup Screen(t)
<1>0. Shape /\ Queues /\ FramesOK
  BY DEF MemInv
<1>1. child \in Task /\ Tail(freequeue) \in Seq(Task)
  BY <1>0 DEF Queues, Fork
<1>2. dir[t] \in Task
  BY <1>0 DEF Shape
<1>3. S \in SUBSET UserPages
  BY <1>0, Layout DEF Shape, Screen, UserPages
<1>4. PICK new \in [S -> Free] :
        /\ FirstFit(new)
        /\ phys_mem' = phys_mem \cup {new[p] : p \in S}
        /\ PT' = [PT EXCEPT ![child] =
                    [p \in Page |-> IF p \in S THEN new[p]
                                    ELSE IF p \in Kernel \cup Code THEN PT[dir[t]][p]
                                    ELSE PT[child][p]]]
  BY DEF Fork
<1> DEFINE table == [p \in Page |-> IF p \in S THEN new[p]
                                    ELSE IF p \in Kernel \cup Code THEN PT[dir[t]][p]
                                    ELSE PT[child][p]]
           pages == present[child] \cup Kernel \cup Code \cup Data \cup Screen(t)
<1>5. present' = [present EXCEPT ![child] = pages]
  BY DEF Fork
<1>6. MapsNew(child, S, new, table, pages)
  <2>1. pages \in SUBSET Page
    BY <1>0, <1>1, <1>3, Layout DEF Shape
  <2>2. table \in [Page -> Page]
    <3>1. \A p \in S : new[p] \in Page
      BY Layout DEF Free
    <3>2. PT[dir[t]] \in [Page -> Page] /\ PT[child] \in [Page -> Page]
      BY <1>0, <1>1, <1>2 DEF Shape
    <3> QED
      BY <3>1, <3>2
  <2>3. \A p \in S : table[p] = new[p]
    BY <1>3, Layout
  <2>4. \A p \in UserPages \ S : table[p] = PT[child][p]
    BY Layout
  <2>5. pages \cap UserPages = (present[child] \cap UserPages) \cup S
    BY <1>3, Layout
  <2>6. \A c \in Code : table[c] = PT[dir[t]][c]
    BY <1>2, <1>3, Layout
  <2>7. PT' = [PT EXCEPT ![child] = table]
    BY <1>4
  <2> HIDE DEF table, pages, S, child
  <2> QED
    BY <1>1, <1>2, <1>3, <1>4, <1>5, <2>1, <2>2, <2>3, <2>4, <2>5, <2>6, <2>7
    DEF MapsNew
<1> HIDE DEF table, pages, S
<1>8. /\ FramesOK' /\ phys_mem' \subseteq Frame
      /\ PT' \in [Task -> [Page -> Page]]
      /\ present' \in [Task -> SUBSET Page]
  BY <1>0, <1>6, MapKeeps
<1>9. Shape'
  BY <1>0, <1>1, <1>8 DEF Shape, Fork, CopyTo, allocate_DIR, init_dir_pages
<1>10. Queues'
  BY <1>0, <1>1 DEF Queues, Fork
<1> QED
  BY <1>8, <1>9, <1>10 DEF MemInv

(* What the failed clones leave: the struct back in freequeue. *)
LEMMA GiveBackKeeps ==
  ASSUME Queues, NEW t \in Task, freequeue # <<>>, GiveBack(t)
  PROVE  Queues' /\ Head(freequeue) \in Task
<1>1. Head(freequeue) \in Task /\ Tail(freequeue) \in Seq(Task)
  BY DEF Queues
<1> QED
  BY <1>1 DEF Queues, GiveBack

(* User pages of one page table are unmapped, no frame is freed. *)
LEMMA UnmapOnlyKeeps ==
  ASSUME Shape, FramesOK,
         NEW d \in Task, NEW pages \in SUBSET UserPages,
         Unmap(d, pages), phys_mem' = phys_mem
  PROVE  FramesOK' /\ phys_mem' \subseteq Frame
                   /\ PT' \in [Task -> [Page -> Page]]
                   /\ present' \in [Task -> SUBSET Page]
<1>1. \A e \in Task : \A p \in Page :
        /\ PT'[e][p] = IF e = d /\ p \in pages THEN 0 ELSE PT[e][p]
        /\ p \in present'[e] <=> p \in present[e] /\ ~(e = d /\ p \in pages)
  BY DEF Unmap, Shape
<1>2. \A e \in Task : \A p \in Page \cap present'[e] :
        PT'[e][p] = PT[e][p] /\ p \in present[e]
  BY <1>1
<1>3. PrivateFrames'
  <2>1. \A e \in Task : \A p \in (UserPages \cup Code) \cap present'[e] :
          PT'[e][p] = PT[e][p] /\ p \in present[e]
    BY <1>2, Layout
  <2>2. ASSUME NEW d1 \in Task, NEW e \in Task, NEW p \in UserPages \cap present'[d1],
               NEW q \in UserPages \cap present'[e], PT'[d1][p] = PT'[e][q]
        PROVE  d1 = e /\ p = q
    BY <2>1, <2>2 DEF FramesOK, PrivateFrames
  <2>3. ASSUME NEW d1 \in Task, NEW e \in Task, NEW p \in UserPages \cap present'[d1]
        PROVE  /\ PT'[d1][p] \in phys_mem'
               /\ \A c \in Code \cap present'[e] : PT'[d1][p] # PT'[e][c]
    BY <2>1 DEF FramesOK, PrivateFrames
  <2> QED
    BY <2>2, <2>3 DEF PrivateFrames
<1>4. EmptyEntries'
  BY <1>1, Layout DEF FramesOK, EmptyEntries
<1>5. CodeFrames'
  <2>1. \A d1 \in Task : \A c \in Code : PT'[d1][c] = PT[d1][c]
    BY <1>1, Layout
  <2>2. \A e \in Task : \A p \in UserPages \cap present'[e] :
          PT'[e][p] = PT[e][p] /\ p \in UserPages \cap present[e]
    BY <1>2, Layout
  <2>3. CodeFrames
    BY DEF FramesOK
  <2>4. ASSUME NEW d1 \in Task, NEW c \in Code
        PROVE  /\ PT'[d1][c] \in phys_mem' \cup {0}
               /\ \A e \in Task : \A p \in UserPages \cap present'[e] :
                    PT'[e][p] # PT'[d1][c]
    BY <2>1, <2>2, <2>3 DEF CodeFrames
  <2> QED
    BY <2>4 DEF CodeFrames
<1>6. /\ phys_mem' \subseteq Frame
      /\ PT' \in [Task -> [Page -> Page]]
      /\ present' \in [Task -> SUBSET Page]
  BY Layout DEF Unmap, Shape
<1> QED
  BY <1>3, <1>4, <1>5, <1>6 DEF FramesOK

(* New frames are mapped at user pages by alloc_frame and set_ss_pag. *)
LEMMA AllocateAtKeeps ==
  ASSUME Shape, FramesOK,
         NEW d \in Task, NEW S \in SUBSET UserPages, NEW new \in [S -> Free],
         AllocateAt(d, new)
  PROVE  FramesOK' /\ phys_mem' \subseteq Frame
                   /\ PT' \in [Task -> [Page -> Page]]
                   /\ present' \in [Task -> SUBSET Page]
<1> DEFINE table == [p \in Page |-> IF p \in S THEN new[p] ELSE PT[d][p]]
<1>1. table \in [Page -> Page]
  <2>1. \A p \in S : new[p] \in Page
    BY Layout DEF Free
  <2> QED
    BY <2>1 DEF Shape
<1>2. present[d] \cup S \in SUBSET Page
  BY Layout DEF Shape
<1>3. \A p \in S : table[p] = new[p]
  BY Layout
<1>4. \A p \in (UserPages \cup Code) \ S : table[p] = PT[d][p]
  BY Layout
<1>5. /\ PT' = [PT EXCEPT ![d] = table]
      /\ present' = [present EXCEPT ![d] = present[d] \cup S]
      /\ phys_mem' = phys_mem \cup {new[p] : p \in S}
      /\ FirstFit(new)
  <2>1. DOMAIN new = S
    OBVIOUS
  <2> QED
    BY <2>1 DEF AllocateAt
<1>6. S \cap Code = {}
  BY Layout
<1> HIDE DEF table
<1>7. MapsNew(d, S, new, table, present[d] \cup S)
  BY <1>1, <1>2, <1>3, <1>4, <1>5, <1>6 DEF MapsNew
<1> QED
  BY <1>7, MapKeeps

LEMMA FreeFinite == Cardinality(Free) \in Nat
<1>1. Free \subseteq NUM_PAG_KERNEL .. TOTAL_PAGES - 1
  BY DEF Free, Frame
<1>2. IsFiniteSet(NUM_PAG_KERNEL .. TOTAL_PAGES - 1)
  BY MemoryAssumption, FS_Interval
<1> QED
  BY <1>1, <1>2, FS_Subset, FS_CardinalityType

LEMMA ForkNoFramesKeeps ==
  ASSUME MemInv, NEW t \in Task, ForkNoFrames(t)
  PROVE  MemInv'
<1> DEFINE child == Head(freequeue)
           pages == PAG_LOG_INIT_DATA .. PAG_LOG_INIT_DATA + Cardinality(Free) - 1
<1>0. Shape /\ Queues /\ FramesOK
  BY DEF MemInv
<1>1. Queues' /\ child \in Task
  BY <1>0, GiveBackKeeps DEF ForkNoFrames
<1>2. pages \subseteq UserPages
  <2>1. Cardinality(Free) < NUM_PAG_DATA
    BY DEF ForkNoFrames
  <2>2. pages \subseteq Data
    BY <2>1, FreeFinite, MemoryAssumption
    DEF Data, PAG_LOG_INIT_DATA, PAG_LOG_INIT_CODE
  <2> QED
    BY <2>2, Layout
<1>3. Unmap(child, pages) /\ phys_mem' = phys_mem
  BY DEF ForkNoFrames
<1> HIDE DEF pages
<1>4. /\ FramesOK' /\ phys_mem' \subseteq Frame
      /\ PT' \in [Task -> [Page -> Page]]
      /\ present' \in [Task -> SUBSET Page]
  BY <1>0, <1>1, <1>2, <1>3, UnmapOnlyKeeps
<1>5. /\ dir' = [dir EXCEPT ![child] = child]
      /\ stack' = [stack EXCEPT ![child] = stack[t]]
      /\ screen_buffer' = [screen_buffer EXCEPT ![child] = screen_buffer[t]]
  BY <1>1 DEF ForkNoFrames, GiveBack, CopyTo, allocate_DIR, init_dir_pages
<1>6. Shape'
  BY <1>0, <1>1, <1>4, <1>5 DEF Shape
<1> QED
  BY <1>1, <1>4, <1>6 DEF MemInv

(* What clone_thread does to memory: pages behind the data get new frames. *)
LEMMA RunIsHigh ==
  ASSUME NEW d, NEW first, NEW n, FreeRun(d, first, n)
  PROVE  first .. first + n - 1 \in SUBSET High
BY DEF FreeRun

LEMMA CloneThreadKeeps ==
  ASSUME MemInv, NEW t \in Task, NEW n \in StackSizes, CloneThread(t, n)
  PROVE  MemInv'
<1> DEFINE child == Head(freequeue)
           d == dir[t]
<1>0. Shape /\ Queues /\ FramesOK
  BY DEF MemInv
<1>1. child \in Task /\ Tail(freequeue) \in Seq(Task) /\ d \in Task
  BY <1>0 DEF Shape, Queues, CloneThread, CreatesThread
<1>2. PICK first \in High :
        /\ FirstFreeRun(d, first, n)
        /\ \E new \in [first .. first + n - 1 -> Free] : AllocateAt(d, new)
        /\ stack' = [stack EXCEPT ![child] = first .. first + n - 1]
  BY DEF CloneThread
<1> DEFINE S == first .. first + n - 1
<1>3. S \in SUBSET High
  BY <1>2, RunIsHigh DEF FirstFreeRun
<1>4. PICK new \in [S -> Free] : AllocateAt(d, new)
  BY <1>2
<1>5. stack' = [stack EXCEPT ![child] = S]
  BY <1>2
<1> HIDE DEF S
<1>6. S \in SUBSET UserPages
  BY <1>3, Layout
<1>7. /\ FramesOK' /\ phys_mem' \subseteq Frame
      /\ PT' \in [Task -> [Page -> Page]]
      /\ present' \in [Task -> SUBSET Page]
  BY <1>0, <1>1, <1>4, <1>6, AllocateAtKeeps
<1>8. Shape'
  <2>1. /\ dir' = [dir EXCEPT ![child] = d]
        /\ screen_buffer' = [screen_buffer EXCEPT ![child] = screen_buffer[t]]
    BY DEF CloneThread
  <2> QED
    BY <1>0, <1>1, <1>3, <1>5, <1>7, <2>1 DEF Shape
<1>9. Queues'
  <2>1. /\ freequeue' = Tail(freequeue)
        /\ threads' = [threads EXCEPT ![child] = <<>>, ![t] = Append(@, child)]
    BY DEF CloneThread
  <2>2. /\ <<>> \in Seq(Task) /\ Append(<<>>, child) \in Seq(Task)
        /\ Append(threads[t], child) \in Seq(Task)
    BY <1>0, <1>1 DEF Queues
  <2>3. threads \in [Task -> Seq(Task)]
    BY <1>0 DEF Queues
  <2> HIDE DEF child
  <2>5. threads' \in [Task -> Seq(Task)]
    BY <2>1, <2>2, <2>3
  <2> QED
    BY <1>1, <2>1, <2>5 DEF Queues
<1> QED
  BY <1>7, <1>8, <1>9 DEF MemInv

LEMMA CloneThreadNoFramesKeeps ==
  ASSUME MemInv, NEW t \in Task, NEW n \in StackSizes, CloneThreadNoFrames(t, n)
  PROVE  MemInv'
<1> DEFINE child == Head(freequeue)
           d == dir[t]
<1>0. Shape /\ Queues /\ FramesOK
  BY DEF MemInv
<1>1. Queues' /\ child \in Task /\ d \in Task
  BY <1>0, GiveBackKeeps DEF Shape, CloneThreadNoFrames, CreatesThread
<1>2. PICK first \in High :
        /\ FirstFreeRun(d, first, n)
        /\ \E new \in [first .. first + Cardinality(Free) - 1 -> Free] :
             AllocateAt(d, new)
  BY DEF CloneThreadNoFrames
<1> DEFINE S == first .. first + Cardinality(Free) - 1
<1>3. S \in SUBSET High
  <2>1. first .. first + n - 1 \in SUBSET High
    BY <1>2, RunIsHigh DEF FirstFreeRun
  <2>2. Cardinality(Free) < n /\ n \in Nat
    BY MemoryAssumption DEF CloneThreadNoFrames
  <2>3. first \in Int
    BY Layout
  <2>4. S \subseteq first .. first + n - 1
    BY <2>2, <2>3, FreeFinite
  <2> QED
    BY <2>1, <2>4
<1>4. PICK new \in [S -> Free] : AllocateAt(d, new)
  BY <1>2
<1> HIDE DEF S
<1>5. S \in SUBSET UserPages
  BY <1>3, Layout
<1>6. /\ FramesOK' /\ phys_mem' \subseteq Frame
      /\ PT' \in [Task -> [Page -> Page]]
      /\ present' \in [Task -> SUBSET Page]
  BY <1>0, <1>1, <1>4, <1>5, AllocateAtKeeps
<1>7. Shape'
  <2>1. /\ dir' = [dir EXCEPT ![child] = d]
        /\ stack' = [stack EXCEPT ![child] = stack[t]]
        /\ screen_buffer' = [screen_buffer EXCEPT ![child] = screen_buffer[t]]
    BY DEF CloneThreadNoFrames, GiveBack, CopyTo
  <2> QED
    BY <1>0, <1>1, <1>6, <2>1 DEF Shape
<1> QED
  BY <1>1, <1>6, <1>7 DEF MemInv

LEMMA CloneThreadNoPagesKeeps ==
  ASSUME MemInv, NEW t \in Task, NEW n \in StackSizes, CloneThreadNoPages(t, n)
  PROVE  MemInv'
<1> DEFINE child == Head(freequeue)
<1>0. Shape /\ Queues /\ FramesOK
  BY DEF MemInv
<1>1. child \in Task /\ Tail(freequeue) \in Seq(Task) /\ dir[t] \in Task
  BY <1>0 DEF Shape, Queues, CloneThreadNoPages, CreatesThread
<1>2. FramesOK' /\ UNCHANGED memory
  BY MemoryUnchanged DEF CloneThreadNoPages
<1>3. Shape'
  <2>1. /\ dir' = [dir EXCEPT ![child] = dir[t]]
        /\ stack' = [stack EXCEPT ![child] = stack[t]]
        /\ screen_buffer' = [screen_buffer EXCEPT ![child] = screen_buffer[t]]
    BY DEF CloneThreadNoPages, CopyTo
  <2> QED
    BY <1>0, <1>1, <1>2, <2>1 DEF Shape, memory
<1>4. Queues'
  BY <1>0, <1>1 DEF Queues, CloneThreadNoPages
<1> QED
  BY <1>2, <1>3, <1>4 DEF MemInv

-----------------------------------------------------------------------------

(* list_del of any element leaves a list of tasks *)
LEMMA RemoveAtType ==
  ASSUME NEW S, NEW q \in Seq(S), NEW i \in DOMAIN q
  PROVE  RemoveAt(q, i) \in Seq(S)
<1>1. Len(q) \in Nat /\ i \in 1 .. Len(q) /\ \A j \in 1 .. Len(q) : q[j] \in S
  BY LenProperties, ElementOfSeq
<1>2. SubSeq(q, 1, i - 1) \in Seq(S)
  <2>1. \A j \in 1 .. i - 1 : q[j] \in S
    BY <1>1
  <2>2. 1 \in Int /\ i - 1 \in Int
    BY <1>1
  <2> QED
    BY <2>1, <2>2, SubSeqProperties
<1>3. SubSeq(q, i + 1, Len(q)) \in Seq(S)
  <2>1. \A j \in i + 1 .. Len(q) : q[j] \in S
    BY <1>1
  <2>2. i + 1 \in Int /\ Len(q) \in Int
    BY <1>1
  <2> QED
    BY <2>1, <2>2, SubSeqProperties
<1> QED
  BY <1>2, <1>3, ConcatProperties DEF RemoveAt

LEMMA PthreadExitKeeps ==
  ASSUME MemInv, NEW t \in Task, pthread_exit(t)
  PROVE  MemInv'
<1> DEFINE m == master[t]
<1>0. Shape /\ Queues /\ FramesOK
  BY DEF MemInv
<1>1. dir[t] \in Task /\ stack[t] \in SUBSET UserPages
  BY <1>0, Layout DEF Shape
<1>2. /\ phys_mem' = AfterFree(FramesOf(dir[t], stack[t]))
      /\ Unmap(dir[t], stack[t])
      /\ freequeue' = Append(freequeue, t)
      /\ UNCHANGED <<dir, stack, screen_buffer>>
  BY DEF pthread_exit
<1>3. /\ FramesOK' /\ phys_mem' \subseteq Frame
      /\ PT' \in [Task -> [Page -> Page]]
      /\ present' \in [Task -> SUBSET Page]
  BY <1>0, <1>1, <1>2, UnmapKeeps
<1>4. PICK i \in DOMAIN threads[m] : threads' = [threads EXCEPT ![m] = RemoveAt(@, i)]
  BY DEF pthread_exit
<1>5. threads' \in [Task -> Seq(Task)]
  <2>1. m \in Task => RemoveAt(threads[m], i) \in Seq(Task)
    BY <1>0, RemoveAtType DEF Queues
  <2> QED
    BY <1>0, <1>4, <2>1 DEF Queues
<1>6. Queues'
  BY <1>0, <1>2, <1>5 DEF Queues
<1>7. Shape'
  BY <1>0, <1>2, <1>3 DEF Shape
<1> QED
  BY <1>3, <1>6, <1>7 DEF MemInv

LEMMA ExitKeeps ==
  ASSUME MemInv, NEW t \in Task, exit(t)
  PROVE  MemInv'
<1> DEFINE killed == ToSet(Killed(t))
           pages  == (UNION {stack[k] : k \in killed}) \cup Data \cup Screen(t)
<1>0. Shape /\ Queues /\ FramesOK
  BY DEF MemInv
<1>1. Killed(t) \in Seq(Task)
  BY <1>0 DEF Queues, Killed
<1>2. killed \subseteq Task
  BY <1>1, ToSetIn
<1>3. pages \in SUBSET UserPages
  <2>1. \A k \in killed : stack[k] \subseteq High
    BY <1>0, <1>2 DEF Shape
  <2>2. Screen(t) \subseteq High
    BY <1>0 DEF Shape, Screen
  <2> HIDE DEF killed
  <2> QED
    BY <2>1, <2>2, Layout
<1>4. /\ phys_mem' = AfterFree(FramesOf(dir[t], pages))
      /\ Unmap(dir[t], pages)
      /\ screen_buffer' = [screen_buffer EXCEPT ![t] = NULL]
      /\ threads' = [threads EXCEPT ![t] = IF killed = {} THEN @ ELSE <<>>]
      /\ freequeue' = Append(freequeue \o Killed(t), t)
      /\ UNCHANGED <<dir, stack>>
  BY DEF exit
<1> HIDE DEF killed, pages
<1>5. dir[t] \in Task
  BY <1>0 DEF Shape
<1>6. /\ FramesOK' /\ phys_mem' \subseteq Frame
      /\ PT' \in [Task -> [Page -> Page]]
      /\ present' \in [Task -> SUBSET Page]
  BY <1>0, <1>3, <1>4, <1>5, UnmapKeeps
<1>7. Shape'
  BY <1>0, <1>4, <1>6 DEF Shape
<1>8. Queues'
  BY <1>0, <1>1, <1>4 DEF Queues
<1> QED
  BY <1>6, <1>7, <1>8 DEF MemInv

LEMMA StartScreenKeeps ==
  ASSUME MemInv, NEW t \in Task, StartScreen(t)
  PROVE  MemInv'
<1>0. Shape /\ Queues /\ FramesOK
  BY DEF MemInv
<1>1. PICK p \in High : \E new \in [{p} -> Free] :
        /\ AllocateAt(dir[t], new)
        /\ screen_buffer' = [screen_buffer EXCEPT ![t] = p]
  BY DEF StartScreen
<1>2. PICK new \in [{p} -> Free] : AllocateAt(dir[t], new)
  BY <1>1
<1>3. dir[t] \in Task /\ {p} \in SUBSET UserPages
  BY <1>0, Layout DEF Shape
<1>4. /\ FramesOK' /\ phys_mem' \subseteq Frame
      /\ PT' \in [Task -> [Page -> Page]]
      /\ present' \in [Task -> SUBSET Page]
  BY <1>0, <1>2, <1>3, AllocateAtKeeps
<1>5. Shape'
  <2>1. dir' = dir /\ stack' = stack
    BY DEF StartScreen
  <2>2. screen_buffer' \in [Task -> High \cup {NULL}]
    <3>1. screen_buffer' = [screen_buffer EXCEPT ![t] = p]
      BY <1>1
    <3> QED
      BY <1>0, <3>1 DEF Shape
  <2> QED
    BY <1>0, <1>4, <2>1, <2>2 DEF Shape
<1>6. Queues'
  BY <1>0 DEF Queues, StartScreen
<1> QED
  BY <1>4, <1>5, <1>6 DEF MemInv

LEMMA MemStep == MemInv /\ [Next]_vars => MemInv'
<1> SUFFICES ASSUME MemInv, [Next]_vars PROVE MemInv'
  OBVIOUS
<1>1. ASSUME UNCHANGED <<memory, tasks>>
      PROVE  MemInv'
  <2>1. Shape' /\ Queues'
    BY <1>1 DEF MemInv, Shape, Queues, memory, tasks
  <2>2. FramesOK'
    BY <1>1, MemoryUnchanged
  <2> QED
    BY <2>1, <2>2 DEF MemInv
<1>2. ASSUME NEW t \in Task, TaskStep(t)
      PROVE  MemInv'
  <2>1. CASE ForkNoScreen(t) \/ ForkFaults(t) \/ StrayUnlink(t) \/ ScreenFault(t)
    BY <2>1, <1>1 DEF ForkNoScreen, ForkFaults, StrayUnlink, ScreenFault
  <2>2. CASE \E n \in StackSizes :
               CloneThread(t, n) \/ CloneThreadNoFrames(t, n) \/ CloneThreadNoPages(t, n)
    BY <2>2, CloneThreadKeeps, CloneThreadNoFramesKeeps, CloneThreadNoPagesKeeps
  <2>3. CASE Fork(t)
    BY <2>3, ForkKeeps
  <2>4. CASE ForkNoFrames(t)
    BY <2>4, ForkNoFramesKeeps
  <2>5. CASE pthread_exit(t)
    BY <2>5, PthreadExitKeeps
  <2>6. CASE exit(t)
    BY <2>6, ExitKeeps
  <2>7. CASE StartScreen(t)
    BY <2>7, StartScreenKeeps
  <2> QED
    BY <1>2, <2>1, <2>2, <2>3, <2>4, <2>5, <2>6, <2>7 DEF TaskStep
<1>3. CASE UNCHANGED vars
  BY <1>3, <1>1 DEF vars
<1> QED
  BY <1>1, <1>2, <1>3 DEF Next, Stopped, vars

(***************************************************************************)
(* Whatever clones, exits, thread exits and screens a system goes through, *)
(* failed ones included, no frame of data, of a stack or of a screen is    *)
(* mapped twice, free or part of the code (alloc_frame, mm.c:214).         *)
(***************************************************************************)
THEOREM FramesArePrivate == Spec => []PrivateFrames
<1>1. Init => MemInv
  BY InitMem
<1>2. MemInv /\ [Next]_vars => MemInv'
  BY MemStep
<1>3. MemInv => PrivateFrames
  BY DEF MemInv, FramesOK
<1> QED
  BY <1>1, <1>2, <1>3, PTL DEF Spec

-----------------------------------------------------------------------------
(***************************************************************************)
(* The tasks: freequeue, the lists of threads and their counts.  These do not *)
(* depend on the memory.                                                   *)
(***************************************************************************)

(* a struct in use is not in freequeue, and none is there twice             *)
Structs ==
  /\ freequeue \in Seq(Task) /\ IsInjective(freequeue)
  /\ alive \subseteq Task \ ToSet(freequeue)

Fields ==
  /\ PID \in [Task -> -1 .. MaxPID]
  /\ global_PID \in 1 .. MaxPID
  /\ master \in [Task -> Task]
  /\ num_threads \in [Task -> 0 .. NR_TASKS]
  /\ threads \in [Task -> Seq(Task)]
  /\ crashed \in BOOLEAN

(* a list of threads holds live threads of its owner, once each, even when  *)
(* the owner has gone and its struct waits in freequeue                     *)
Lists ==
  \A m \in Task :
    /\ IsInjective(threads[m])
    /\ \A k \in ToSet(threads[m]) : k \in alive /\ master[k] = m /\ k # m

(* num_threads never falls short of the list, so it never gets negative,    *)
(* and a live master counts one more at most, so it stays below NR_TASKS    *)
Counts ==
  \A m \in Task :
    /\ Len(threads[m]) <= num_threads[m]
    /\ m \in alive /\ master[m] = m => num_threads[m] <= Len(threads[m]) + 1

TaskInv == Structs /\ Fields /\ Lists /\ Counts

LEMMA EmptyList ==
  /\ \A S : <<>> \in Seq(S)
  /\ IsInjective(<<>>)
  /\ ToSet(<<>>) = {}
  /\ Len(<<>>) = 0
BY DEF IsInjective, ToSet

(* list_first and list_del, and list_add_tail of what they took             *)
LEMMA TakesStruct ==
  ASSUME Structs, freequeue # <<>>
  PROVE  /\ Head(freequeue) \in Task /\ Head(freequeue) \notin alive
         /\ Tail(freequeue) \in Seq(Task) /\ IsInjective(Tail(freequeue))
         /\ ToSet(Tail(freequeue)) = ToSet(freequeue) \ {Head(freequeue)}
         /\ Append(Tail(freequeue), Head(freequeue)) \in Seq(Task)
         /\ IsInjective(Append(Tail(freequeue), Head(freequeue)))
         /\ ToSet(Append(Tail(freequeue), Head(freequeue))) = ToSet(freequeue)
<1>1. /\ Head(freequeue) \in Task /\ Head(freequeue) \in ToSet(freequeue)
      /\ Tail(freequeue) \in Seq(Task) /\ IsInjective(Tail(freequeue))
      /\ ToSet(Tail(freequeue)) = ToSet(freequeue) \ {Head(freequeue)}
  BY TailQueue DEF Structs
<1>2. /\ Append(Tail(freequeue), Head(freequeue)) \in Seq(Task)
      /\ IsInjective(Append(Tail(freequeue), Head(freequeue)))
      /\ ToSet(Append(Tail(freequeue), Head(freequeue))) =
           ToSet(Tail(freequeue)) \cup {Head(freequeue)}
  <2> DEFINE e == Head(freequeue)
             rest == Tail(freequeue)
  <2>1. e \in Task /\ rest \in Seq(Task) /\ IsInjective(rest) /\ e \notin ToSet(rest)
    BY <1>1
  <2> HIDE DEF e, rest
  <2>2. /\ Append(rest, e) \in Seq(Task) /\ IsInjective(Append(rest, e))
        /\ ToSet(Append(rest, e)) = ToSet(rest) \cup {e}
    BY <2>1, AppendQueue
  <2> QED
    BY <2>2 DEF e, rest
<1> QED
  BY <1>1, <1>2 DEF Structs

(***************************************************************************)
(* A struct that nobody uses gets new fields and an empty list of threads. *)
(* The other structs keep theirs.                                          *)
(***************************************************************************)
Resets(child, n, inUse) ==
  /\ child \in Task \ alive
  /\ alive' = IF inUse THEN alive \cup {child} ELSE alive
  /\ \A m \in Task \ {child} :
       /\ master'[m] = master[m]
       /\ num_threads'[m] = num_threads[m]
       /\ threads'[m] = threads[m]
  /\ num_threads'[child] = n
  /\ threads'[child] = <<>>
  /\ inUse => n = 1
  /\ n \in Nat

LEMMA ResetKeeps ==
  ASSUME TaskInv, NEW child, NEW n, NEW inUse \in BOOLEAN, Resets(child, n, inUse)
  PROVE  Lists' /\ Counts'
<1>1. Lists'
  <2> SUFFICES ASSUME NEW m \in Task
               PROVE  /\ IsInjective(threads'[m])
                      /\ \A k \in ToSet(threads'[m]) : k \in alive' /\ master'[k] = m /\ k # m
    BY DEF Lists
  <2>1. CASE m = child
    BY <2>1, EmptyList DEF Resets
  <2>2. CASE m # child
    <3>1. /\ threads'[m] = threads[m] /\ IsInjective(threads[m])
          /\ \A k \in ToSet(threads[m]) : k \in alive /\ master[k] = m /\ k # m
      BY <2>2 DEF Resets, TaskInv, Lists
    <3>2. \A k \in alive : k \in Task /\ k # child /\ k \in alive'
      BY DEF Resets, TaskInv, Structs
    <3> QED
      BY <3>1, <3>2 DEF Resets
  <2> QED
    BY <2>1, <2>2
<1>2. Counts'
  <2> SUFFICES ASSUME NEW m \in Task
               PROVE  /\ Len(threads'[m]) <= num_threads'[m]
                      /\ m \in alive' /\ master'[m] = m
                           => num_threads'[m] <= Len(threads'[m]) + 1
    BY DEF Counts
  <2>1. CASE m = child
    BY <2>1, EmptyList DEF Resets
  <2>2. CASE m # child
    BY <2>2 DEF Resets, TaskInv, Counts
  <2> QED
    BY <2>1, <2>2
<1> QED
  BY <1>1, <1>2

(* a struct in freequeue gets some of the fields of the caller              *)
CopiesFields(child, t) ==
  /\ PID' = [PID EXCEPT ![child] = PID[t]]
  /\ master' = [master EXCEPT ![child] = master[t]]
  /\ num_threads' = [num_threads EXCEPT ![child] = num_threads[t]]
  /\ threads' = [threads EXCEPT ![child] = <<>>]
  /\ UNCHANGED <<alive, global_PID, crashed>>

LEMMA CopyKeeps ==
  ASSUME TaskInv, NEW t \in Task, NEW child \in Task \ alive,
         CopiesFields(child, t)
  PROVE  Fields' /\ Lists' /\ Counts'
<1>1. /\ PID[t] \in -1 .. MaxPID /\ master[t] \in Task
      /\ num_threads[t] \in 0 .. NR_TASKS
  BY DEF TaskInv, Fields
<1>2. Fields'
  BY <1>1, EmptyList DEF TaskInv, Fields, CopiesFields
<1>3. Resets(child, num_threads[t], FALSE)
  BY <1>1 DEF Resets, CopiesFields, TaskInv, Fields
<1> QED
  BY <1>2, <1>3, ResetKeeps

LEMMA GiveBackTasks ==
  ASSUME TaskInv, NEW t \in Task, freequeue # <<>>, GiveBack(t), crashed' = crashed
  PROVE  TaskInv'
<1> DEFINE child == Head(freequeue)
<1>1. child \in Task \ alive
  BY TakesStruct DEF TaskInv
<1>2. Structs'
  BY TakesStruct DEF TaskInv, Structs, GiveBack
<1>3. CopiesFields(child, t)
  BY DEF GiveBack, CopiesFields
<1> QED
  BY <1>1, <1>2, <1>3, CopyKeeps DEF TaskInv

LEMMA NoPagesTasks ==
  ASSUME TaskInv, NEW t \in Task, NEW n, CloneThreadNoPages(t, n)
  PROVE  TaskInv'
<1> DEFINE child == Head(freequeue)
<1>1. child \in Task \ alive
  BY TakesStruct DEF TaskInv, CloneThreadNoPages, CreatesThread
<1>2. Structs'
  BY TakesStruct DEF TaskInv, Structs, CloneThreadNoPages, CreatesThread
<1>3. CopiesFields(child, t)
  BY DEF CloneThreadNoPages, CopiesFields
<1> QED
  BY <1>1, <1>2, <1>3, CopyKeeps DEF TaskInv

LEMMA ForkTasks ==
  ASSUME TaskInv, NEW t \in Task, Fork(t)
  PROVE  TaskInv'
<1> DEFINE child == Head(freequeue)
<1>1. child \in Task \ alive
  BY TakesStruct DEF TaskInv, Fork
<1>2. Structs'
  BY TakesStruct DEF TaskInv, Structs, Fork
<1>3. /\ global_PID' = global_PID + 1
      /\ PID' = [PID EXCEPT ![child] = global_PID + 1]
      /\ master' = [master EXCEPT ![child] = child]
      /\ num_threads' = [num_threads EXCEPT ![child] = 1]
      /\ threads' = [threads EXCEPT ![child] = <<>>]
      /\ alive' = alive \cup {child}
      /\ crashed' = crashed
      /\ global_PID < MaxPID
  BY DEF Fork
<1> HIDE DEF child
<1>4. Fields'
  <2>1. global_PID + 1 \in 1 .. MaxPID /\ 1 \in 0 .. NR_TASKS
    BY <1>3, MemoryAssumption DEF TaskInv, Fields
  <2> QED
    BY <1>1, <1>3, <2>1, EmptyList DEF TaskInv, Fields
<1>5. Resets(child, 1, TRUE)
  BY <1>1, <1>3 DEF Resets, TaskInv, Fields
<1> QED
  BY <1>2, <1>4, <1>5, ResetKeeps DEF TaskInv

(* a list without repetitions and without its owner is shorter than the task array *)
LEMMA FewThreads ==
  ASSUME NEW q \in Seq(Task), IsInjective(q), NEW m \in Task, m \notin ToSet(q)
  PROVE  Len(q) <= NR_TASKS - 1
<1> DEFINE T == Task \ {m}
<1>1. IsFiniteSet(Task) /\ Cardinality(Task) = NR_TASKS
  BY FS_Interval, MemoryAssumption DEF Task
<1>2. IsFiniteSet(T) /\ Cardinality(T) = NR_TASKS - 1
  BY <1>1, FS_RemoveElement
<1>3. Len(q) \in Nat /\ DOMAIN q = 1 .. Len(q) /\ \A i \in 1 .. Len(q) : q[i] \in T
  BY LenProperties, ElementOfSeq, ToSetIn
<1>4. q \in Injection(1 .. Len(q), T)
  <2>1. q \in [1 .. Len(q) -> T]
    <3>1. q = [i \in 1 .. Len(q) |-> q[i]]
      BY <1>3
    <3> QED
      BY <1>3, <3>1
  <2>2. \A i, j \in 1 .. Len(q) : q[i] = q[j] => i = j
    BY <1>3 DEF IsInjective
  <2> HIDE DEF T
  <2> QED
    BY <2>1, <2>2 DEF Injection, IsInjective
<1>5. Cardinality(1 .. Len(q)) <= Cardinality(T)
  BY <1>2, <1>4, FS_Injection
<1>6. Cardinality(1 .. Len(q)) = Len(q)
  BY <1>3, FS_Interval
<1> QED
  BY <1>2, <1>5, <1>6

LEMMA CloneThreadTasks ==
  ASSUME TaskInv, NEW t \in Task, NEW n, CloneThread(t, n)
  PROVE  TaskInv'
<1> DEFINE child == Head(freequeue)
           longer == Append(threads[t], child)
<1>1. child \in Task \ alive /\ t \in alive /\ master[t] = t
  BY TakesStruct DEF TaskInv, CloneThread, CreatesThread, Running
<1>2. Structs'
  BY TakesStruct DEF TaskInv, Structs, CloneThread, CreatesThread
<1>3. /\ UNCHANGED <<global_PID, crashed>>
      /\ PID' = [PID EXCEPT ![child] = PID[t]]
      /\ master' = [master EXCEPT ![child] = t]
      /\ num_threads' = [num_threads EXCEPT ![child] = num_threads[t],
                                            ![t] = num_threads[t] + 1]
      /\ threads' = [threads EXCEPT ![child] = <<>>, ![t] = longer]
      /\ alive' = alive \cup {child}
  BY <1>1 DEF CloneThread
<1>4. /\ threads[t] \in Seq(Task) /\ IsInjective(threads[t])
      /\ \A k \in ToSet(threads[t]) : k \in alive /\ master[k] = t /\ k # t
      /\ num_threads[t] \in 0 .. NR_TASKS
      /\ Len(threads[t]) <= num_threads[t]
      /\ num_threads[t] <= Len(threads[t]) + 1
  BY <1>1 DEF TaskInv, Fields, Lists, Counts
<1>5. /\ longer \in Seq(Task) /\ IsInjective(longer)
      /\ ToSet(longer) = ToSet(threads[t]) \cup {child}
      /\ Len(longer) = Len(threads[t]) + 1
      /\ Len(threads[t]) \in Nat
  <2>1. child \notin ToSet(threads[t])
    BY <1>1, <1>4
  <2>2. /\ longer \in Seq(Task) /\ IsInjective(longer)
        /\ ToSet(longer) = ToSet(threads[t]) \cup {child}
    BY <1>1, <1>4, <2>1, AppendQueue
  <2>3. Len(longer) = Len(threads[t]) + 1 /\ Len(threads[t]) \in Nat
    BY <1>1, <1>4, AppendProperties, LenProperties
  <2> QED
    BY <2>2, <2>3
<1>6. num_threads[t] + 1 \in 0 .. NR_TASKS
  <2>1. t \notin ToSet(longer)
    BY <1>1, <1>4, <1>5
  <2>2. Len(longer) <= NR_TASKS - 1
    BY <1>5, <2>1, FewThreads
  <2> QED
    BY <1>4, <1>5, <2>2, MemoryAssumption
<1> HIDE DEF child, longer
<1>7. Fields'
  <2>1. PID' \in [Task -> -1 .. MaxPID]
    BY <1>1, <1>3 DEF TaskInv, Fields
  <2>2. master' \in [Task -> Task]
    BY <1>1, <1>3 DEF TaskInv, Fields
  <2>3. num_threads' \in [Task -> 0 .. NR_TASKS]
    BY <1>1, <1>3, <1>4, <1>6 DEF TaskInv, Fields
  <2>4. threads' \in [Task -> Seq(Task)]
    BY <1>1, <1>3, <1>5, EmptyList DEF TaskInv, Fields
  <2> QED
    BY <1>3, <2>1, <2>2, <2>3, <2>4 DEF TaskInv, Fields
<1>8. \A m \in Task \ {child, t} :
        /\ master'[m] = master[m]
        /\ num_threads'[m] = num_threads[m]
        /\ threads'[m] = threads[m]
  BY <1>1, <1>3 DEF TaskInv, Fields
<1>9. /\ master'[child] = t /\ threads'[child] = <<>>
      /\ num_threads'[child] = num_threads[t]
      /\ master'[t] = t /\ threads'[t] = longer
      /\ num_threads'[t] = num_threads[t] + 1
  BY <1>1, <1>3 DEF TaskInv, Fields
<1>10. \A k \in alive : k \in Task /\ k # child /\ k \in alive' /\ master'[k] = master[k]
  BY <1>1, <1>3, <1>8, <1>9 DEF TaskInv, Structs
<1>11. Lists'
  <2> SUFFICES ASSUME NEW m \in Task
               PROVE  /\ IsInjective(threads'[m])
                      /\ \A k \in ToSet(threads'[m]) : k \in alive' /\ master'[k] = m /\ k # m
    BY DEF Lists
  <2>1. CASE m = child
    BY <2>1, <1>9, EmptyList
  <2>2. CASE m = t
    <3>1. threads'[m] = longer /\ IsInjective(longer)
      BY <2>2, <1>5, <1>9
    <3>2. child \in alive' /\ master'[child] = m /\ child # m
      BY <2>2, <1>1, <1>3, <1>9
    <3>3. \A k \in ToSet(threads[t]) : k \in alive' /\ master'[k] = m /\ k # m
      BY <2>2, <1>4, <1>10
    <3> QED
      BY <3>1, <3>2, <3>3, <1>5
  <2>3. CASE m # child /\ m # t
    <3>1. /\ IsInjective(threads[m])
          /\ \A k \in ToSet(threads[m]) : k \in alive /\ master[k] = m /\ k # m
      BY DEF TaskInv, Lists
    <3> QED
      BY <2>3, <3>1, <1>8, <1>10
  <2> QED
    BY <2>1, <2>2, <2>3
<1>12. Counts'
  <2> SUFFICES ASSUME NEW m \in Task
               PROVE  /\ Len(threads'[m]) <= num_threads'[m]
                      /\ m \in alive' /\ master'[m] = m
                           => num_threads'[m] <= Len(threads'[m]) + 1
    BY DEF Counts
  <2>1. CASE m = child
    BY <2>1, <1>1, <1>4, <1>9, EmptyList
  <2>2. CASE m = t
    BY <2>2, <1>4, <1>5, <1>9
  <2>3. CASE m # child /\ m # t
    BY <2>3, <1>3, <1>8 DEF TaskInv, Counts
  <2> QED
    BY <2>1, <2>2, <2>3
<1> QED
  BY <1>2, <1>7, <1>11, <1>12 DEF TaskInv

LEMMA PthreadExitTasks ==
  ASSUME TaskInv, NEW t \in Task, pthread_exit(t)
  PROVE  TaskInv'
<1> DEFINE m == master[t]
<1>1. t \in alive /\ m # t /\ m \in Task
  BY DEF pthread_exit, Running, TaskInv, Fields
<1>2. /\ UNCHANGED <<global_PID, master, crashed>>
      /\ num_threads' = [num_threads EXCEPT ![m] = @ - 1]
      /\ freequeue' = Append(freequeue, t)
      /\ alive' = alive \ {t}
      /\ PID' = [PID EXCEPT ![t] = -1]
  BY DEF pthread_exit
<1>3. PICK i \in DOMAIN threads[m] :
        /\ threads[m][i] = t
        /\ threads' = [threads EXCEPT ![m] = RemoveAt(@, i)]
  BY DEF pthread_exit
<1> DEFINE shorter == RemoveAt(threads[m], i)
<1>4. /\ threads[m] \in Seq(Task) /\ IsInjective(threads[m])
      /\ Len(threads[m]) \in Nat /\ num_threads[m] \in 0 .. NR_TASKS
      /\ Len(threads[m]) <= num_threads[m]
      /\ m \in alive /\ master[m] = m => num_threads[m] <= Len(threads[m]) + 1
  BY <1>1, LenProperties DEF TaskInv, Fields, Lists, Counts
<1>5. /\ shorter \in Seq(Task) /\ IsInjective(shorter)
      /\ ToSet(shorter) = ToSet(threads[m]) \ {t}
      /\ Len(shorter) = Len(threads[m]) - 1
  BY <1>3, <1>4, RemoveAtQueue
<1>6. Len(shorter) \in Nat
  BY <1>5, LenProperties
<1>7. threads' = [threads EXCEPT ![m] = shorter]
  BY <1>3
<1> HIDE DEF m, shorter
<1>8. num_threads[m] - 1 \in 0 .. NR_TASKS
  BY <1>4, <1>5, <1>6, MemoryAssumption
<1>9. Structs'
  <2>1. t \notin ToSet(freequeue)
    BY <1>1 DEF TaskInv, Structs
  <2>2. /\ freequeue' \in Seq(Task) /\ IsInjective(freequeue')
        /\ ToSet(freequeue') = ToSet(freequeue) \cup {t}
    BY <1>2, <2>1, AppendQueue DEF TaskInv, Structs
  <2> QED
    BY <1>2, <2>2 DEF TaskInv, Structs
<1>10. Fields'
  <2>1. -1 \in -1 .. MaxPID
    BY MemoryAssumption
  <2> QED
    BY <1>2, <1>5, <1>7, <1>8, <2>1 DEF TaskInv, Fields
<1>11. \A k \in Task \ {m} : num_threads'[k] = num_threads[k] /\ threads'[k] = threads[k]
  BY <1>2, <1>7 DEF TaskInv, Fields
<1>12. num_threads'[m] = num_threads[m] - 1 /\ threads'[m] = shorter
  BY <1>1, <1>2, <1>7 DEF TaskInv, Fields
<1>13. Lists'
  <2> SUFFICES ASSUME NEW e \in Task
               PROVE  /\ IsInjective(threads'[e])
                      /\ \A k \in ToSet(threads'[e]) : k \in alive' /\ master'[k] = e /\ k # e
    BY DEF Lists
  <2>1. /\ IsInjective(threads[e])
        /\ \A k \in ToSet(threads[e]) : k \in alive /\ master[k] = e /\ k # e
    BY DEF TaskInv, Lists
  <2>2. CASE e = m
    BY <2>1, <2>2, <1>2, <1>5, <1>12
  <2>3. CASE e # m
    BY <2>1, <2>3, <1>2, <1>11 DEF m
  <2> QED
    BY <2>2, <2>3
<1>14. Counts'
  <2> SUFFICES ASSUME NEW e \in Task
               PROVE  /\ Len(threads'[e]) <= num_threads'[e]
                      /\ e \in alive' /\ master'[e] = e
                           => num_threads'[e] <= Len(threads'[e]) + 1
    BY DEF Counts
  <2>1. CASE e = m
    BY <2>1, <1>2, <1>4, <1>5, <1>12
  <2>2. CASE e # m
    BY <2>2, <1>2, <1>11 DEF TaskInv, Counts
  <2> QED
    BY <2>1, <2>2
<1> QED
  BY <1>9, <1>10, <1>13, <1>14 DEF TaskInv

(* the threads that exit kills are in use, and no list but that of t has them *)
LEMMA KilledThreads ==
  ASSUME TaskInv, NEW t \in Task
  PROVE  /\ Killed(t) \in Seq(Task) /\ IsInjective(Killed(t))
         /\ ToSet(Killed(t)) \subseteq ToSet(threads[t])
         /\ \A k \in ToSet(Killed(t)) : k \in alive /\ master[k] = t /\ k # t
BY EmptyList DEF TaskInv, Fields, Lists, Killed

LEMMA ExitTasks ==
  ASSUME TaskInv, NEW t \in Task, exit(t)
  PROVE  TaskInv'
<1> DEFINE killed == ToSet(Killed(t))
<1>1. t \in alive /\ master[t] = t
  BY DEF exit, Running
<1>2. /\ UNCHANGED <<global_PID, master, num_threads, crashed>>
      /\ threads' = [threads EXCEPT ![t] = IF killed = {} THEN @ ELSE <<>>]
      /\ freequeue' = Append(freequeue \o Killed(t), t)
      /\ alive' = alive \ (killed \cup {t})
      /\ PID' = [k \in Task |-> IF k \in killed \cup {t} THEN -1 ELSE PID[k]]
  BY DEF exit
<1>3. /\ Killed(t) \in Seq(Task) /\ IsInjective(Killed(t))
      /\ \A k \in killed : k \in alive /\ master[k] = t /\ k # t
  BY KilledThreads
<1>4. Structs'
  <2> DEFINE longer == freequeue \o Killed(t)
  <2>1. ToSet(freequeue) \cap killed = {}
    BY <1>3 DEF TaskInv, Structs
  <2>2. /\ longer \in Seq(Task) /\ IsInjective(longer)
        /\ ToSet(longer) = ToSet(freequeue) \cup killed
    BY <1>3, <2>1, ConcatQueue DEF TaskInv, Structs
  <2>3. t \notin ToSet(longer)
    BY <1>1, <1>3, <2>2 DEF TaskInv, Structs
  <2>5. freequeue' = Append(longer, t)
    BY <1>2
  <2> HIDE DEF longer, killed
  <2>4. /\ freequeue' \in Seq(Task) /\ IsInjective(freequeue')
        /\ ToSet(freequeue') = ToSet(longer) \cup {t}
    BY <2>2, <2>3, <2>5, AppendQueue
  <2> QED
    BY <1>2, <2>2, <2>4 DEF TaskInv, Structs
<1> HIDE DEF killed
<1>5. threads'[t] = threads[t] \/ threads'[t] = <<>>
  BY <1>2 DEF TaskInv, Fields
<1>6. killed # {} => threads'[t] = <<>>
  BY <1>2 DEF TaskInv, Fields
<1>7. \A m \in Task \ {t} : threads'[m] = threads[m]
  BY <1>2 DEF TaskInv, Fields
<1>8. Fields'
  <2>1. threads' \in [Task -> Seq(Task)]
    BY <1>2, EmptyList DEF TaskInv, Fields
  <2>2. PID' \in [Task -> -1 .. MaxPID]
    BY <1>2, MemoryAssumption DEF TaskInv, Fields
  <2> QED
    BY <1>2, <2>1, <2>2 DEF TaskInv, Fields
<1>9. Lists'
  <2> SUFFICES ASSUME NEW m \in Task
               PROVE  /\ IsInjective(threads'[m])
                      /\ \A k \in ToSet(threads'[m]) : k \in alive' /\ master'[k] = m /\ k # m
    BY DEF Lists
  <2>1. /\ IsInjective(threads[m])
        /\ \A k \in ToSet(threads[m]) : k \in alive /\ master[k] = m /\ k # m
    BY DEF TaskInv, Lists
  <2>2. CASE m # t
    BY <2>1, <2>2, <1>1, <1>2, <1>3, <1>7
  <2>3. CASE m = t /\ killed = {}
    BY <2>1, <2>3, <1>2, <1>5, EmptyList
  <2>4. CASE m = t /\ killed # {}
    BY <2>4, <1>6, EmptyList
  <2> QED
    BY <2>2, <2>3, <2>4
<1>10. Counts'
  <2> SUFFICES ASSUME NEW m \in Task
               PROVE  /\ Len(threads'[m]) <= num_threads'[m]
                      /\ m \in alive' /\ master'[m] = m
                           => num_threads'[m] <= Len(threads'[m]) + 1
    BY DEF Counts
  <2>1. CASE m # t
    BY <2>1, <1>2, <1>7 DEF TaskInv, Counts
  <2>2. CASE m = t
    <3>1. num_threads[t] \in Nat /\ Len(threads[t]) <= num_threads[t]
      BY DEF TaskInv, Fields, Counts
    <3> QED
      BY <2>2, <3>1, <1>2, <1>5, EmptyList
  <2> QED
    BY <2>1, <2>2
<1> QED
  BY <1>4, <1>8, <1>9, <1>10 DEF TaskInv

LEMMA TasksUnchanged ==
  ASSUME TaskInv, UNCHANGED <<freequeue, alive, PID, global_PID, master,
                              num_threads, threads>>, crashed' \in BOOLEAN
  PROVE  TaskInv'
BY DEF TaskInv, Structs, Fields, Lists, Counts

LEMMA InitTasks == Init => TaskInv
<1> SUFFICES ASSUME Init PROVE TaskInv
  OBVIOUS
<1>1. Structs
  <2>1. freequeue = [i \in 1 .. NR_TASKS - 2 |-> i + 1] /\ alive = {Task1}
    BY DEF Init
  <2>2. freequeue \in Seq(Task)
    BY <2>1, MemoryAssumption DEF Task
  <2>3. IsInjective(freequeue) /\ Task1 \notin ToSet(freequeue)
    BY <2>1, MemoryAssumption DEF IsInjective, ToSet, Task1
  <2> QED
    BY <2>1, <2>2, <2>3, MemoryAssumption DEF Structs, Task1, Task
<1>2. Fields
  <2>1. PID \in [Task -> -1 .. MaxPID] /\ global_PID \in 1 .. MaxPID
    BY MemoryAssumption DEF Init, Task1, Task
  <2>2. /\ master \in [Task -> Task] /\ num_threads \in [Task -> 0 .. NR_TASKS]
        /\ crashed \in BOOLEAN
    <3>1. /\ master = [k \in Task |-> k] /\ num_threads = [k \in Task |-> 0]
          /\ crashed = FALSE
      BY DEF Init
    <3>2. 0 \in 0 .. NR_TASKS
      BY MemoryAssumption
    <3> QED
      BY <3>1, <3>2
  <2>3. threads \in [Task -> Seq(Task)]
    <3>1. threads = [t \in Task |-> <<>>] /\ <<>> \in Seq(Task)
      BY EmptyList DEF Init
    <3> QED
      BY <3>1
  <2> QED
    BY <2>1, <2>2, <2>3 DEF Fields
<1>3. Lists /\ Counts
  BY EmptyList DEF Init, Lists, Counts
<1> QED
  BY <1>1, <1>2, <1>3 DEF TaskInv

LEMMA TasksStep == TaskInv /\ [Next]_vars => TaskInv'
<1> SUFFICES ASSUME TaskInv, [Next]_vars PROVE TaskInv'
  OBVIOUS
<1>1. ASSUME NEW t \in Task, TaskStep(t)
      PROVE  TaskInv'
  <2>1. CASE ForkNoScreen(t) \/ ForkFaults(t) \/ StrayUnlink(t) \/ ScreenFault(t)
    <3>1. UNCHANGED tasks /\ crashed' = TRUE
      BY <2>1 DEF ForkNoScreen, ForkFaults, StrayUnlink, ScreenFault
    <3> QED
      BY <3>1, TasksUnchanged DEF tasks
  <2>2. CASE \E n \in StackSizes : CloneThread(t, n) \/ CloneThreadNoPages(t, n)
    BY <2>2, CloneThreadTasks, NoPagesTasks
  <2>3. CASE \E n \in StackSizes : CloneThreadNoFrames(t, n)
    <3>1. freequeue # <<>> /\ GiveBack(t) /\ crashed' = crashed
      BY <2>3 DEF CloneThreadNoFrames, CreatesThread
    <3> QED
      BY <3>1, GiveBackTasks
  <2>4. CASE Fork(t)
    BY <2>4, ForkTasks
  <2>5. CASE ForkNoFrames(t)
    <3>1. freequeue # <<>> /\ GiveBack(t) /\ crashed' = crashed
      BY <2>5 DEF ForkNoFrames
    <3> QED
      BY <3>1, GiveBackTasks
  <2>6. CASE pthread_exit(t)
    BY <2>6, PthreadExitTasks
  <2>7. CASE exit(t)
    BY <2>7, ExitTasks
  <2>8. CASE StartScreen(t)
    <3>1. /\ UNCHANGED <<freequeue, alive, PID, global_PID, master, num_threads, threads>>
          /\ crashed' = crashed
      BY <2>8 DEF StartScreen
    <3> QED
      BY <3>1, TasksUnchanged DEF TaskInv, Fields
  <2> QED
    BY <1>1, <2>1, <2>2, <2>3, <2>4, <2>5, <2>6, <2>7, <2>8 DEF TaskStep
<1>2. CASE UNCHANGED vars
  BY <1>2, TasksUnchanged DEF vars, tasks, TaskInv, Fields
<1> QED
  BY <1>1, <1>2 DEF Next, Stopped

(* Every run of the model keeps the types of the structs and page tables.  *)
THEOREM MemoryIsTyped == Spec => []MemTypeOK
<1>1. Init => MemInv /\ TaskInv
  BY InitMem, InitTasks
<1>2. MemInv /\ TaskInv /\ [Next]_vars => MemInv' /\ TaskInv'
  BY MemStep, TasksStep
<1>3. MemInv /\ TaskInv => MemTypeOK
  BY DEF MemInv, TaskInv, Shape, Structs, Fields, MemTypeOK, Page
<1> QED
  BY <1>1, <1>2, <1>3, PTL DEF Spec

-----------------------------------------------------------------------------
(***************************************************************************)
(* Nothing is lost as long as no program creates threads.                  *)
(***************************************************************************)

(* without threads every process has its struct and page table to itself,  *)
(* and all have the code of the first one, whose first frame is the one    *)
(* that free_frame ignores                                                  *)
Alone ==
  /\ \A t \in Task : threads[t] = <<>>
  /\ \A t \in alive : /\ master[t] = t /\ dir[t] = t
                      /\ Data \cup Screen(t) \subseteq present[t]
                      /\ \A c \in Code : PT[t][c] = PT[Task1][c]
  /\ PT[Task1][PAG_LOG_INIT_CODE] = NUM_PAG_KERNEL

LeakInv == MemInv /\ TaskInv /\ Alone /\ NoLeak

(* the frames that NoLeak accounts for *)
InUse(f) ==
  \/ \E c \in Code : f = PT[Task1][c]
  \/ \E t \in alive : \E p \in Data \cup Screen(t) : f = PT[dir[t]][p]

LEMMA InitAlone == Init => Alone /\ NoLeak
<1> SUFFICES ASSUME Init PROVE Alone /\ NoLeak
  OBVIOUS
<1>1. PICK user \in [Code \cup Data -> Frame] :
        /\ \A p \in DOMAIN user :
             user[p] = NUM_PAG_KERNEL + 2 * (p - PAG_LOG_INIT_CODE)
        /\ phys_mem = {user[p] : p \in DOMAIN user}
        /\ PT = [d \in Task |->
                   IF d = Task1
                   THEN [p \in Page |-> IF p \in DOMAIN user THEN user[p]
                                        ELSE KernelTable[p]]
                   ELSE KernelTable]
  BY DEF Init, init_frames, set_user_pages
<1>2. /\ alive = {Task1} /\ dir[Task1] = Task1 /\ master[Task1] = Task1
      /\ Screen(Task1) = {}
      /\ \A t \in Task : threads[t] = <<>>
      /\ Data \subseteq present[Task1]
      /\ Task1 \in Task
  <2>1. Task1 \in Task
    BY MemoryAssumption DEF Task1, Task
  <2> QED
    BY <2>1 DEF Init, Screen, allocate_DIR, init_dir_pages
<1>3. \A p \in Code \cup Data : PT[Task1][p] = user[p]
  BY <1>1, <1>2, Layout
<1>4. PAG_LOG_INIT_CODE \in Code
  BY MemoryAssumption DEF Code, PAG_LOG_INIT_CODE, PAG_LOG_INIT_DATA
<1>5. user[PAG_LOG_INIT_CODE] = NUM_PAG_KERNEL
  BY <1>1, <1>4, MemoryAssumption DEF PAG_LOG_INIT_CODE
<1>6. Alone
  BY <1>2, <1>3, <1>4, <1>5 DEF Alone
<1>7. NoLeak
  <2>1. phys_mem = {PT[Task1][p] : p \in Code \cup Data}
    BY <1>1, <1>3
  <2> QED
    BY <1>2, <2>1 DEF NoLeak, FramesOf
<1> QED
  BY <1>6, <1>7

(* NoLeak read as a property of each frame, before and after a step *)
LEMMA LeakMeans ==
  /\ NoLeak => \A f : f \in phys_mem <=> InUse(f)
  /\ (\A f : f \in phys_mem' <=> InUse(f)') => NoLeak'
<1>1. NoLeak => \A f : f \in phys_mem <=> InUse(f)
  BY DEF NoLeak, FramesOf, InUse
<1>2. ASSUME \A f : f \in phys_mem' <=> InUse(f)' PROVE NoLeak'
  BY <1>2 DEF NoLeak, FramesOf, InUse
<1> QED
  BY <1>1, <1>2

(***************************************************************************)
(* A step that leaves the processes in use as they are, with their pages,  *)
(* and the code of the first table.                                        *)
(***************************************************************************)
LEMMA OthersKeep ==
  ASSUME Alone, NoLeak, NEW d \in Task \ alive,
         UNCHANGED <<phys_mem, alive>>,
         \A u \in Task : threads'[u] = <<>>,
         \A u \in alive : /\ master'[u] = master[u] /\ dir'[u] = dir[u]
                          /\ screen_buffer'[u] = screen_buffer[u]
                          /\ present'[u] = present[u] /\ PT'[u] = PT[u],
         \A c \in Code : PT'[Task1][c] = PT[Task1][c]
  PROVE  Alone' /\ NoLeak'
<1>1. PAG_LOG_INIT_CODE \in Code
  BY MemoryAssumption DEF Code, PAG_LOG_INIT_CODE, PAG_LOG_INIT_DATA
<1>2. \A u \in alive : Screen(u)' = Screen(u)
  BY DEF Screen
<1>3. Alone'
  BY <1>1, <1>2 DEF Alone
<1>4. \A f : InUse(f)' <=> InUse(f)
  BY <1>2 DEF InUse, Alone
<1> QED
  BY <1>3, <1>4, LeakMeans

LEMMA ForkLeaksNothing ==
  ASSUME LeakInv, NEW t \in Task, Fork(t)
  PROVE  Alone' /\ NoLeak'
<1> DEFINE S == Data \cup Screen(t)
<1>0. PICK child : child = Head(freequeue)
  OBVIOUS
<1>1. child \in Task \ alive /\ t \in alive
  BY <1>0, TakesStruct DEF LeakInv, TaskInv, Fork, Running
<1>2. dir[t] = t /\ master[t] = t
  BY <1>1 DEF LeakInv, Alone
<1>3. S \in SUBSET UserPages
  BY Layout DEF LeakInv, MemInv, Shape, Screen, UserPages
<1>4. PICK new \in [S -> Free] :
        /\ phys_mem' = phys_mem \cup {new[p] : p \in S}
        /\ PT' = [PT EXCEPT ![child] =
                    [p \in Page |-> IF p \in S THEN new[p]
                                    ELSE IF p \in Kernel \cup Code THEN PT[dir[t]][p]
                                    ELSE PT[child][p]]]
  BY <1>0 DEF Fork
<1>5. /\ alive' = alive \cup {child}
      /\ threads' = [threads EXCEPT ![child] = <<>>]
      /\ master' = [master EXCEPT ![child] = child]
      /\ dir' = [dir EXCEPT ![child] = child]
      /\ screen_buffer' = [screen_buffer EXCEPT ![child] = screen_buffer[t]]
      /\ present' = [present EXCEPT ![child] = @ \cup Kernel \cup Code \cup Data \cup Screen(t)]
  BY <1>0, <1>1 DEF Fork, CopyTo, allocate_DIR, init_dir_pages
<1> HIDE DEF S
<1>6. \A u \in alive : /\ master'[u] = u /\ dir'[u] = u
                       /\ Screen(u)' = Screen(u)
                       /\ present'[u] = present[u] /\ PT'[u] = PT[u]
  BY <1>1, <1>4, <1>5
  DEF LeakInv, TaskInv, Structs, Fields, Alone, MemInv, Shape, Screen
<1>7. /\ master'[child] = child /\ dir'[child] = child
      /\ Screen(child)' = Screen(t)
      /\ Data \cup Screen(t) \subseteq present'[child]
      /\ \A p \in S : PT'[child][p] = new[p]
      /\ \A c \in Code : PT'[child][c] = PT[t][c]
  <2>1. /\ master'[child] = child /\ dir'[child] = child
        /\ Screen(child)' = Screen(t)
        /\ Data \cup Screen(t) \subseteq present'[child]
    BY <1>1, <1>5 DEF LeakInv, TaskInv, Fields, MemInv, Shape, Screen
  <2>2. PT'[child] = [p \in Page |-> IF p \in S THEN new[p]
                                    ELSE IF p \in Kernel \cup Code THEN PT[dir[t]][p]
                                    ELSE PT[child][p]]
    BY <1>1, <1>4 DEF LeakInv, MemInv, Shape
  <2> QED
    BY <1>2, <1>3, <2>1, <2>2, Layout
<1>8. \A c \in Code : PT'[Task1][c] = PT[Task1][c]
  <2>1. CASE child = Task1
    BY <2>1, <1>1, <1>7 DEF LeakInv, Alone
  <2>2. CASE child # Task1
    BY <2>2, <1>1, <1>4 DEF LeakInv, MemInv, Shape
  <2> QED
    BY <2>1, <2>2
<1>9. Alone'
  <2>1. PAG_LOG_INIT_CODE \in Code
    BY MemoryAssumption DEF Code, PAG_LOG_INIT_CODE, PAG_LOG_INIT_DATA
  <2>2. \A u \in Task : threads'[u] = <<>>
    BY <1>1, <1>5 DEF LeakInv, TaskInv, Fields, Alone
  <2>3. \A u \in alive' : /\ master'[u] = u /\ dir'[u] = u
                          /\ Data \cup Screen(u)' \subseteq present'[u]
                          /\ \A c \in Code : PT'[u][c] = PT'[Task1][c]
    BY <1>1, <1>5, <1>6, <1>7, <1>8 DEF LeakInv, Alone
  <2> QED
    BY <1>8, <2>1, <2>2, <2>3 DEF LeakInv, Alone
<1>10. \A f : InUse(f)' <=> InUse(f) \/ \E p \in S : f = new[p]
  <2> TAKE f
  <2>1. (\E c \in Code : f = PT'[Task1][c]) <=> (\E c \in Code : f = PT[Task1][c])
    BY <1>8
  <2>2. ASSUME NEW u \in alive
        PROVE  (\E p \in Data \cup Screen(u)' : f = PT'[dir'[u]][p])
                 <=> (\E p \in Data \cup Screen(u) : f = PT[dir[u]][p])
    BY <1>6 DEF LeakInv, Alone
  <2>3. (\E p \in Data \cup Screen(child)' : f = PT'[dir'[child]][p])
          <=> (\E p \in S : f = new[p])
    BY <1>7 DEF S
  <2>4. \A u \in alive' : u \in alive \/ u = child
    BY <1>5
  <2>5. child \in alive' /\ alive \subseteq alive'
    BY <1>5
  <2> QED
    BY <2>1, <2>2, <2>3, <2>4, <2>5 DEF InUse
<1> QED
  BY <1>4, <1>9, <1>10, LeakMeans DEF LeakInv

LEMMA ForkNoFramesLeaksNothing ==
  ASSUME LeakInv, NEW t \in Task, ForkNoFrames(t)
  PROVE  Alone' /\ NoLeak'
<1> DEFINE child == Head(freequeue)
           pages == PAG_LOG_INIT_DATA .. PAG_LOG_INIT_DATA + Cardinality(Free) - 1
<1>1. child \in Task \ alive
  BY TakesStruct DEF LeakInv, TaskInv, ForkNoFrames
<1>2. pages \cap Code = {}
  <2>1. Cardinality(Free) < NUM_PAG_DATA
    BY DEF ForkNoFrames
  <2>2. pages \subseteq Data
    BY <2>1, FreeFinite, MemoryAssumption
    DEF Data, PAG_LOG_INIT_DATA, PAG_LOG_INIT_CODE
  <2> QED
    BY <2>2, Layout
<1>3. Unmap(child, pages) /\ UNCHANGED <<phys_mem, alive>>
  BY DEF ForkNoFrames, GiveBack
<1>4. /\ threads' = [threads EXCEPT ![child] = <<>>]
      /\ master' = [master EXCEPT ![child] = master[t]]
      /\ dir' = [dir EXCEPT ![child] = child]
      /\ screen_buffer' = [screen_buffer EXCEPT ![child] = screen_buffer[t]]
  BY <1>1 DEF ForkNoFrames, GiveBack, CopyTo, allocate_DIR, init_dir_pages
<1> HIDE DEF child, pages
<1>5. \A u \in alive : /\ master'[u] = master[u] /\ dir'[u] = dir[u]
                       /\ screen_buffer'[u] = screen_buffer[u]
                       /\ present'[u] = present[u] /\ PT'[u] = PT[u]
  BY <1>1, <1>3, <1>4
  DEF LeakInv, TaskInv, Structs, Fields, MemInv, Shape, Unmap
<1>6. \A c \in Code : PT'[Task1][c] = PT[Task1][c]
  BY <1>1, <1>2, <1>3, Layout DEF LeakInv, MemInv, Shape, Unmap
<1>7. \A u \in Task : threads'[u] = <<>>
  BY <1>1, <1>4 DEF LeakInv, TaskInv, Fields, Alone
<1> QED
  BY <1>1, <1>3, <1>5, <1>6, <1>7, OthersKeep DEF LeakInv

(* What exit frees belongs to nobody else; free_frame ignores none of it.   *)
LEMMA ExitLeaksNothing ==
  ASSUME LeakInv, NEW t \in Task, exit(t)
  PROVE  Alone' /\ NoLeak'
<1> DEFINE pages == Data \cup Screen(t)
<1>1. t \in alive /\ dir[t] = t /\ master[t] = t
  BY DEF exit, Running, LeakInv, Alone
<1>2. Killed(t) = <<>> /\ ToSet(Killed(t)) = {}
  BY EmptyList DEF Killed, LeakInv, Alone
<1>3. /\ phys_mem' = AfterFree(FramesOf(t, pages))
      /\ Unmap(t, pages)
      /\ alive' = alive \ {t}
      /\ threads' = [threads EXCEPT ![t] = threads[t]]
      /\ screen_buffer' = [screen_buffer EXCEPT ![t] = NULL]
      /\ UNCHANGED <<master, dir>>
  <2>1. (UNION {stack[k] : k \in {}}) \cup Data \cup Screen(t) = pages
    OBVIOUS
  <2> QED
    BY <1>1, <1>2, <2>1 DEF exit
<1>4. pages \in SUBSET UserPages /\ pages \subseteq present[t]
  BY <1>1, Layout DEF LeakInv, MemInv, Shape, Screen, UserPages, Alone
<1>5. PAG_LOG_INIT_CODE \in Code
  BY MemoryAssumption DEF Code, PAG_LOG_INIT_CODE, PAG_LOG_INIT_DATA
<1> HIDE DEF pages
<1>6. \A p \in pages : /\ PT[t][p] \in phys_mem
                       /\ \A c \in Code : PT[t][p] # PT[Task1][c]
                       /\ \A u \in Task : \A q \in UserPages \cap present[u] :
                            PT[t][p] = PT[u][q] => u = t
  <2>1. Task1 \in Task
    BY MemoryAssumption DEF Task1, Task
  <2> QED
    BY <1>4, <2>1 DEF LeakInv, MemInv, FramesOK, PrivateFrames, CodeFrames
<1>7. phys_mem' = phys_mem \ {PT[t][p] : p \in pages}
  <2>1. \A p \in pages : PT[t][p] > NUM_PAG_KERNEL
    <3> TAKE p \in pages
    <3>1. PT[t][p] \in Frame
      BY <1>6 DEF LeakInv, MemInv, Shape
    <3>2. PT[t][p] # NUM_PAG_KERNEL
      BY <1>5, <1>6 DEF LeakInv, Alone
    <3> QED
      BY <3>1, <3>2, MemoryAssumption DEF Frame
  <2> QED
    BY <1>3, <2>1 DEF AfterFree, FramesOf
<1>8. \A u \in alive' : /\ u \in alive /\ u # t /\ u \in Task
                        /\ master'[u] = u /\ dir'[u] = u
                        /\ Screen(u)' = Screen(u)
                        /\ present'[u] = present[u] /\ PT'[u] = PT[u]
  BY <1>3 DEF LeakInv, TaskInv, Structs, Alone, MemInv, Shape, Screen, Unmap
<1>9. \A c \in Code : PT'[Task1][c] = PT[Task1][c]
  BY <1>3, <1>4, Layout DEF LeakInv, MemInv, Shape, Unmap
<1>10. Alone'
  <2>1. \A u \in Task : threads'[u] = <<>>
    BY <1>3 DEF LeakInv, TaskInv, Fields, Alone
  <2> QED
    BY <1>5, <1>8, <1>9, <2>1 DEF LeakInv, Alone
<1>11. \A f : InUse(f)' <=> InUse(f) /\ f \notin {PT[t][p] : p \in pages}
  <2> TAKE f
  <2>1. (\E c \in Code : f = PT'[Task1][c]) <=> (\E c \in Code : f = PT[Task1][c])
    BY <1>9
  <2>2. (\E c \in Code : f = PT[Task1][c]) => f \notin {PT[t][p] : p \in pages}
    BY <1>6
  <2>3. ASSUME NEW u \in alive'
        PROVE  /\ (\E p \in Data \cup Screen(u)' : f = PT'[dir'[u]][p])
                    <=> (\E p \in Data \cup Screen(u) : f = PT[dir[u]][p])
               /\ (\E p \in Data \cup Screen(u) : f = PT[dir[u]][p])
                    => f \notin {PT[t][p] : p \in pages}
    <3>1. dir[u] = u /\ Data \cup Screen(u) \subseteq UserPages \cap present[u]
      BY <1>8, Layout DEF LeakInv, Alone, MemInv, Shape, Screen, UserPages
    <3> QED
      BY <1>6, <1>8, <3>1
  <2>4. alive = alive' \cup {t}
    BY <1>1, <1>3
  <2>5. (\E p \in Data \cup Screen(t) : f = PT[dir[t]][p])
          <=> f \in {PT[t][p] : p \in pages}
    BY <1>1 DEF pages
  <2> QED
    BY <2>1, <2>2, <2>3, <2>4, <2>5 DEF InUse
<1> QED
  BY <1>7, <1>10, <1>11, LeakMeans DEF LeakInv

LEMMA StartScreenLeaksNothing ==
  ASSUME LeakInv, NEW t \in Task, StartScreen(t)
  PROVE  Alone' /\ NoLeak'
<1>1. /\ t \in alive /\ dir[t] = t /\ Screen(t) = {}
      /\ UNCHANGED <<alive, master, dir, threads>>
  BY DEF StartScreen, Running, LeakInv, Alone, Screen
<1>2. PICK p \in High : \E new \in [{p} -> Free] :
        /\ AllocateAt(dir[t], new)
        /\ screen_buffer' = [screen_buffer EXCEPT ![t] = p]
  BY DEF StartScreen
<1>3. PICK new \in [{p} -> Free] : AllocateAt(dir[t], new)
  BY <1>2
<1>4. /\ phys_mem' = phys_mem \cup {new[p]}
      /\ PT' = [PT EXCEPT ![t] = [q \in Page |-> IF q = p THEN new[p] ELSE PT[t][q]]]
      /\ present' = [present EXCEPT ![t] = @ \cup {p}]
  <2>1. DOMAIN new = {p}
    OBVIOUS
  <2>2. /\ phys_mem' = phys_mem \cup {new[q] : q \in {p}}
        /\ PT' = [PT EXCEPT ![t] = [q \in Page |-> IF q \in {p} THEN new[q] ELSE PT[t][q]]]
        /\ present' = [present EXCEPT ![t] = @ \cup {p}]
    BY <1>1, <1>3, <2>1 DEF AllocateAt
  <2>3. [q \in Page |-> IF q \in {p} THEN new[q] ELSE PT[t][q]]
          = [q \in Page |-> IF q = p THEN new[p] ELSE PT[t][q]]
    OBVIOUS
  <2> QED
    BY <2>2, <2>3
<1>5. p \in Page /\ p \notin Code /\ p # NULL /\ p \notin Data
  <2>1. p \notin Data
    BY MemoryAssumption DEF High, FirstHigh, Data, PAG_LOG_INIT_DATA, PAG_LOG_INIT_CODE
  <2> QED
    BY <2>1, Layout
<1>6. \A u \in alive : u \in Task /\ master'[u] = u /\ dir'[u] = u
  BY <1>1 DEF LeakInv, TaskInv, Structs, Alone
<1>7. \A u \in alive \ {t} : /\ Screen(u)' = Screen(u)
                             /\ present'[u] = present[u] /\ PT'[u] = PT[u]
  BY <1>2, <1>4, <1>6 DEF LeakInv, MemInv, Shape, Screen
<1>8. /\ Screen(t)' = {p}
      /\ present'[t] = present[t] \cup {p}
      /\ \A q \in Page \ {p} : PT'[t][q] = PT[t][q]
      /\ PT'[t][p] = new[p]
  BY <1>2, <1>4, <1>5 DEF LeakInv, MemInv, Shape, Screen
<1>9. \A u \in alive, c \in Code : PT'[u][c] = PT[u][c]
  BY <1>5, <1>7, <1>8, Layout
<1>10. \A c \in Code : PT'[Task1][c] = PT[Task1][c]
  <2>1. Task1 \in Task
    BY MemoryAssumption DEF Task1, Task
  <2> QED
    BY <1>4, <1>5, <2>1, Layout DEF LeakInv, MemInv, Shape
<1>11. Alone'
  <2>1. PAG_LOG_INIT_CODE \in Code
    BY MemoryAssumption DEF Code, PAG_LOG_INIT_CODE, PAG_LOG_INIT_DATA
  <2>2. \A u \in alive' : Data \cup Screen(u)' \subseteq present'[u]
    BY <1>1, <1>7, <1>8 DEF LeakInv, Alone
  <2>3. \A u \in alive', c \in Code : PT'[u][c] = PT'[Task1][c]
    BY <1>1, <1>9, <1>10 DEF LeakInv, Alone
  <2> QED
    BY <1>1, <1>6, <1>10, <2>1, <2>2, <2>3 DEF LeakInv, Alone
<1>12. \A f : InUse(f)' <=> InUse(f) \/ f = new[p]
  <2> TAKE f
  <2>1. (\E c \in Code : f = PT'[Task1][c]) <=> (\E c \in Code : f = PT[Task1][c])
    BY <1>10
  <2>2. ASSUME NEW u \in alive \ {t}
        PROVE  (\E q \in Data \cup Screen(u)' : f = PT'[dir'[u]][q])
                 <=> (\E q \in Data \cup Screen(u) : f = PT[dir[u]][q])
    BY <1>6, <1>7 DEF LeakInv, Alone
  <2>3. (\E q \in Data \cup Screen(t)' : f = PT'[dir'[t]][q])
          <=> (\E q \in Data \cup Screen(t) : f = PT[dir[t]][q]) \/ f = new[p]
    <3>1. \A q \in Data : PT'[t][q] = PT[t][q]
      BY <1>5, <1>8, Layout
    <3>2. dir'[t] = t
      BY <1>1, <1>6
    <3> QED
      BY <1>1, <1>8, <3>1, <3>2
  <2> QED
    BY <1>1, <2>1, <2>2, <2>3 DEF InUse
<1> QED
  BY <1>4, <1>11, <1>12, LeakMeans DEF LeakInv

LEMMA LeakStep ==
  ASSUME Threading = {}, LeakInv, [Next]_vars
  PROVE  LeakInv'
<1>1. MemInv' /\ TaskInv'
  BY MemStep, TasksStep DEF LeakInv
<1>2. ASSUME UNCHANGED <<memory, tasks>>
      PROVE  Alone' /\ NoLeak'
  BY <1>2 DEF LeakInv, Alone, NoLeak, FramesOf, Screen, memory, tasks
<1>3. ASSUME NEW t \in Task, TaskStep(t)
      PROVE  Alone' /\ NoLeak'
  <2>1. ~CreatesThread(t)
    BY DEF CreatesThread
  <2>2. ~pthread_exit(t)
    BY DEF pthread_exit, Running, LeakInv, Alone
  <2>3. CASE ForkNoScreen(t) \/ ForkFaults(t) \/ StrayUnlink(t) \/ ScreenFault(t)
    BY <2>3, <1>2 DEF ForkNoScreen, ForkFaults, StrayUnlink, ScreenFault
  <2>4. CASE Fork(t)
    BY <2>4, ForkLeaksNothing
  <2>5. CASE ForkNoFrames(t)
    BY <2>5, ForkNoFramesLeaksNothing
  <2>6. CASE exit(t)
    BY <2>6, ExitLeaksNothing
  <2>7. CASE StartScreen(t)
    BY <2>7, StartScreenLeaksNothing
  <2> QED
    BY <1>3, <2>1, <2>2, <2>3, <2>4, <2>5, <2>6, <2>7
    DEF TaskStep, CloneThread, CloneThreadNoFrames, CloneThreadNoPages
<1>4. ASSUME UNCHANGED vars
      PROVE  Alone' /\ NoLeak'
  BY <1>4, <1>2 DEF vars
<1>5. Alone' /\ NoLeak'
  BY <1>2, <1>3, <1>4 DEF Next, Stopped, vars
<1> QED
  BY <1>1, <1>5 DEF LeakInv

(***************************************************************************)
(* Programs that create no threads never lose a frame: a frame is marked   *)
(* used exactly when it holds the code, or the data or the screen of a     *)
(* live process, after any number of forks, failed ones included, exits    *)
(* and screens (free_frame and the clean-up loops of sys_clone and         *)
(* sys_exit).                                                              *)
(***************************************************************************)
THEOREM NothingLeaks ==
  ASSUME Threading = {}
  PROVE  Spec => []NoLeak
<1>1. Init => LeakInv
  BY InitMem, InitTasks, InitAlone DEF LeakInv
<1>2. LeakInv /\ [Next]_vars => LeakInv'
  BY LeakStep
<1>3. LeakInv => NoLeak
  BY DEF LeakInv
<1> QED
  BY <1>1, <1>2, <1>3, PTL DEF Spec

-----------------------------------------------------------------------------
(***************************************************************************)
(* The pages of the threads whose first thread lives.                      *)
(***************************************************************************)

(* a task uses the page table of its master, PIDs are not used again, and a *)
(* process has one first thread at most                                     *)
Families ==
  \A t \in alive :
    /\ dir[t] = master[t]
    /\ PID[t] \in 1 .. global_PID
    /\ Led(t) => master[master[t]] = master[t]
    /\ \A m \in alive : master[m] = m /\ PID[m] = PID[t] => master[t] = m
    /\ \A k \in ToSet(threads[t]) : PID[k] = PID[t]

(* no thread of the process of t has the screen page of t in its stack      *)
ScreenApart(t) ==
  \A u \in alive : PID[u] = PID[t] /\ master[u] # u => stack[u] \cap Screen(t) = {}

Mapped == \A t \in alive : Led(t) => Backed(t) /\ OwnStack(t) /\ ScreenApart(t)

LiveInv == MemInv /\ TaskInv /\ Families /\ Mapped

LEMMA AliveTasks ==
  ASSUME LiveInv, NEW t \in alive
  PROVE  /\ t \in Task /\ master[t] \in Task /\ dir[t] \in Task
         /\ ToSet(threads[t]) \subseteq alive
BY DEF LiveInv, TaskInv, Structs, Fields, Lists, MemInv, Shape

LEMMA InitLive == Init => Families /\ Mapped
<1> SUFFICES ASSUME Init PROVE Families /\ Mapped
  OBVIOUS
<1>1. Task1 \in Task
  BY MemoryAssumption DEF Task1, Task
<1>2. /\ alive = {Task1} /\ dir[Task1] = Task1 /\ master[Task1] = Task1
      /\ PID[Task1] = 1 /\ global_PID = 1
      /\ threads[Task1] = <<>> /\ Screen(Task1) = {}
      /\ Data \subseteq present[Task1]
  BY <1>1 DEF Init, Screen, Task1, allocate_DIR, init_dir_pages
<1>3. Families
  BY <1>2, EmptyList DEF Families
<1>4. Mapped
  BY <1>2 DEF Mapped, Backed, OwnStack, ScreenApart
<1> QED
  BY <1>3, <1>4

(***************************************************************************)
(* A step that changes nothing of the tasks in use and unmaps nothing that *)
(* a process with a first thread has mapped.                               *)
(***************************************************************************)
KeepsTasks ==
  /\ alive' = alive /\ global_PID' = global_PID
  /\ \A u \in alive :
       /\ PID'[u] = PID[u] /\ master'[u] = master[u] /\ dir'[u] = dir[u]
       /\ stack'[u] = stack[u] /\ screen_buffer'[u] = screen_buffer[u]
       /\ threads'[u] = threads[u]
       /\ Led(u) => present[dir[u]] \subseteq present'[dir[u]]

LEMMA KeepsLive ==
  ASSUME LiveInv, KeepsTasks
  PROVE  Families' /\ Mapped'
<1>1. \A u \in alive : /\ Led(u)' <=> Led(u)
                       /\ Screen(u)' = Screen(u)
                       /\ \A k \in ToSet(threads[u]) : k \in alive
  <2> SUFFICES ASSUME NEW u \in alive
               PROVE  /\ Led(u)' <=> Led(u)
                      /\ Screen(u)' = Screen(u)
                      /\ \A k \in ToSet(threads[u]) : k \in alive
    OBVIOUS
  <2>1. Led(u)' <=> Led(u)
    BY DEF KeepsTasks, Led
  <2>2. Screen(u)' = Screen(u)
    BY DEF KeepsTasks, Screen
  <2> QED
    BY <2>1, <2>2, AliveTasks
<1>2. Families'
  BY <1>1 DEF LiveInv, Families, KeepsTasks, Led
<1>3. ASSUME NEW u \in alive, Led(u)
      PROVE  Backed(u)' /\ OwnStack(u)' /\ ScreenApart(u)'
  <2>1. Backed(u) /\ OwnStack(u) /\ ScreenApart(u)
    BY <1>3 DEF LiveInv, Mapped
  <2>2. Backed(u)'
    BY <1>1, <1>3, <2>1 DEF Backed, KeepsTasks
  <2>3. OwnStack(u)'
    BY <2>1 DEF OwnStack, KeepsTasks
  <2>4. ScreenApart(u)'
    BY <1>1, <2>1 DEF ScreenApart, KeepsTasks
  <2> QED
    BY <2>2, <2>3, <2>4
<1> QED
  BY <1>1, <1>2, <1>3 DEF Mapped, KeepsTasks

LEMMA ForkNoFramesLive ==
  ASSUME LiveInv, NEW t \in Task, ForkNoFrames(t)
  PROVE  Families' /\ Mapped'
<1> DEFINE pages == PAG_LOG_INIT_DATA .. PAG_LOG_INIT_DATA + Cardinality(Free) - 1
<1>0. PICK child : child = Head(freequeue)
  OBVIOUS
<1>1. child \in Task \ alive
  BY <1>0, TakesStruct DEF LiveInv, TaskInv, ForkNoFrames
<1>2. /\ Unmap(child, pages) /\ UNCHANGED <<alive, global_PID>>
      /\ dir' = [dir EXCEPT ![child] = child]
      /\ PID' = [PID EXCEPT ![child] = PID[t]]
      /\ master' = [master EXCEPT ![child] = master[t]]
      /\ threads' = [threads EXCEPT ![child] = <<>>]
      /\ stack' = [stack EXCEPT ![child] = stack[t]]
      /\ screen_buffer' = [screen_buffer EXCEPT ![child] = screen_buffer[t]]
  BY <1>0, <1>1 DEF ForkNoFrames, GiveBack, CopyTo, allocate_DIR, init_dir_pages
<1> HIDE DEF pages
<1>3. ASSUME NEW u \in alive
      PROVE  /\ PID'[u] = PID[u] /\ master'[u] = master[u] /\ dir'[u] = dir[u]
             /\ stack'[u] = stack[u] /\ screen_buffer'[u] = screen_buffer[u]
             /\ threads'[u] = threads[u]
  BY <1>1, <1>2, AliveTasks DEF LiveInv, TaskInv, Fields, MemInv, Shape
<1>4. ASSUME NEW u \in alive, Led(u)
      PROVE  present[dir[u]] \subseteq present'[dir[u]]
  <2>1. dir[u] \in alive
    BY <1>4 DEF LiveInv, Families, Led
  <2> QED
    BY <2>1, <1>1, <1>2, AliveTasks DEF Unmap, LiveInv, MemInv, Shape
<1>5. KeepsTasks
  BY <1>2, <1>3, <1>4 DEF KeepsTasks
<1> QED
  BY <1>5, KeepsLive

LEMMA CloneThreadNoFramesLive ==
  ASSUME LiveInv, NEW t \in Task, NEW n \in StackSizes, CloneThreadNoFrames(t, n)
  PROVE  Families' /\ Mapped'
<1>0. PICK child : child = Head(freequeue)
  OBVIOUS
<1>1. child \in Task \ alive
  BY <1>0, TakesStruct DEF LiveInv, TaskInv, CloneThreadNoFrames, CreatesThread
<1>2. /\ UNCHANGED <<alive, global_PID>>
      /\ dir' = [dir EXCEPT ![child] = dir[t]]
      /\ PID' = [PID EXCEPT ![child] = PID[t]]
      /\ master' = [master EXCEPT ![child] = master[t]]
      /\ threads' = [threads EXCEPT ![child] = <<>>]
      /\ stack' = [stack EXCEPT ![child] = stack[t]]
      /\ screen_buffer' = [screen_buffer EXCEPT ![child] = screen_buffer[t]]
  BY <1>0, <1>1 DEF CloneThreadNoFrames, GiveBack, CopyTo
<1>3. ASSUME NEW u \in alive
      PROVE  /\ PID'[u] = PID[u] /\ master'[u] = master[u] /\ dir'[u] = dir[u]
             /\ stack'[u] = stack[u] /\ screen_buffer'[u] = screen_buffer[u]
             /\ threads'[u] = threads[u]
  BY <1>1, <1>2, AliveTasks DEF LiveInv, TaskInv, Fields, MemInv, Shape
<1>4. PICK new : AllocateAt(dir[t], new)
  BY DEF CloneThreadNoFrames
<1>5. \A d \in Task : present[d] \subseteq present'[d]
  BY <1>4 DEF AllocateAt, LiveInv, MemInv, Shape
<1>6. KeepsTasks
  BY <1>2, <1>3, <1>5, AliveTasks DEF KeepsTasks
<1> QED
  BY <1>6, KeepsLive

LEMMA CloneThreadNoPagesLive ==
  ASSUME LiveInv, NEW t \in Task, NEW n \in StackSizes, CloneThreadNoPages(t, n)
  PROVE  Families' /\ Mapped'
<1>0. PICK child : child = Head(freequeue)
  OBVIOUS
<1>1. child \in Task \ alive
  BY <1>0, TakesStruct DEF LiveInv, TaskInv, CloneThreadNoPages, CreatesThread
<1>2. /\ UNCHANGED <<alive, global_PID, present>>
      /\ dir' = [dir EXCEPT ![child] = dir[t]]
      /\ PID' = [PID EXCEPT ![child] = PID[t]]
      /\ master' = [master EXCEPT ![child] = master[t]]
      /\ threads' = [threads EXCEPT ![child] = <<>>]
      /\ stack' = [stack EXCEPT ![child] = stack[t]]
      /\ screen_buffer' = [screen_buffer EXCEPT ![child] = screen_buffer[t]]
  BY <1>0, <1>1 DEF CloneThreadNoPages, CopyTo, memory
<1>3. ASSUME NEW u \in alive
      PROVE  /\ PID'[u] = PID[u] /\ master'[u] = master[u] /\ dir'[u] = dir[u]
             /\ stack'[u] = stack[u] /\ screen_buffer'[u] = screen_buffer[u]
             /\ threads'[u] = threads[u]
  BY <1>1, <1>2, AliveTasks DEF LiveInv, TaskInv, Fields, MemInv, Shape
<1>4. KeepsTasks
  BY <1>2, <1>3 DEF KeepsTasks
<1> QED
  BY <1>4, KeepsLive

(***************************************************************************)
(* A child joins the tasks in use, in the process of a live first thread   *)
(* or with a PID of its own; nothing that was mapped is unmapped, but for  *)
(* the page table of a new process, which no first thread uses.            *)
(***************************************************************************)
Joins(child) ==
  /\ child \in Task \ alive
  /\ alive' = alive \cup {child}
  /\ global_PID' >= global_PID /\ global_PID' \in Nat
  /\ \A u \in alive :
       /\ PID'[u] = PID[u] /\ master'[u] = master[u] /\ dir'[u] = dir[u]
       /\ stack'[u] = stack[u] /\ screen_buffer'[u] = screen_buffer[u]
       /\ Led(u) => present[dir[u]] \subseteq present'[dir[u]]
       /\ PID'[child] = PID[u] => child \notin {master[u], master'[child]}

LEMMA StillLed ==
  ASSUME LiveInv, NEW child, Joins(child), NEW u \in alive
  PROVE  /\ Led(u)' <=> Led(u)
         /\ Led(u) => master[u] # child
         /\ Screen(u)' = Screen(u)
<1>1. master[u] = child => PID'[child] # PID[u]
  BY DEF Joins
<1>2. master[u] # child => (master[u] \in alive' <=> master[u] \in alive)
  BY DEF Joins
<1>3. master[u] \in alive => PID'[master[u]] = PID[master[u]]
  BY DEF Joins
<1>4. Led(u)' <=> Led(u)
  BY <1>1, <1>2, <1>3 DEF Joins, Led
<1> QED
  BY <1>4 DEF Joins, Led, Screen

LEMMA JoinKeeps ==
  ASSUME LiveInv, NEW child, Joins(child),
         NEW u \in alive, Led(u),
         PID'[child] = PID[u] =>
           /\ stack'[child] \cap Screen(u) = {}
           /\ master[u] # u => stack'[child] \cap stack[u] = {}
  PROVE  Backed(u)' /\ OwnStack(u)' /\ ScreenApart(u)'
<1>1. Backed(u) /\ OwnStack(u) /\ ScreenApart(u)
  BY DEF LiveInv, Mapped
<1>2. /\ PID'[u] = PID[u] /\ master'[u] = master[u] /\ dir'[u] = dir[u]
      /\ stack'[u] = stack[u] /\ Screen(u)' = Screen(u)
      /\ present[dir[u]] \subseteq present'[dir[u]]
  BY StillLed DEF Joins
<1>3. Backed(u)'
  BY <1>1, <1>2 DEF Backed
<1>4. PID'[child] = PID[u] => master[u] # child /\ master'[child] # child
  BY DEF Joins
<1>5. OwnStack(u)'
  <2> SUFFICES ASSUME NEW v \in alive', v # u, PID'[v] = PID'[u],
                      master'[u] \notin {u, v}
               PROVE  stack'[v] \cap stack'[u] = {}
    BY DEF OwnStack
  <2>1. CASE v = child
    BY <2>1, <1>2, <1>4
  <2>2. CASE v \in alive
    <3>1. PID'[v] = PID[v] /\ stack'[v] = stack[v]
      BY <2>2 DEF Joins
    <3> QED
      BY <2>2, <3>1, <1>1, <1>2 DEF OwnStack
  <2> QED
    BY <2>1, <2>2 DEF Joins
<1>6. ScreenApart(u)'
  <2> SUFFICES ASSUME NEW v \in alive', PID'[v] = PID'[u], master'[v] # v
               PROVE  stack'[v] \cap Screen(u)' = {}
    BY DEF ScreenApart
  <2>1. CASE v = child
    BY <2>1, <1>2, <1>4
  <2>2. CASE v \in alive
    <3>1. PID'[v] = PID[v] /\ stack'[v] = stack[v] /\ master'[v] = master[v]
      BY <2>2 DEF Joins
    <3> QED
      BY <2>2, <3>1, <1>1, <1>2 DEF ScreenApart
  <2> QED
    BY <2>1, <2>2 DEF Joins
<1> QED
  BY <1>3, <1>5, <1>6

LEMMA ForkLive ==
  ASSUME LiveInv, NEW t \in Task, Fork(t)
  PROVE  Families' /\ Mapped'
<1>0. PICK child : child = Head(freequeue)
  OBVIOUS
<1>1. child \in Task \ alive
  BY <1>0, TakesStruct DEF LiveInv, TaskInv, Fork
<1>2. /\ alive' = alive \cup {child} /\ global_PID' = global_PID + 1
      /\ dir' = [dir EXCEPT ![child] = child]
      /\ PID' = [PID EXCEPT ![child] = global_PID + 1]
      /\ master' = [master EXCEPT ![child] = child]
      /\ threads' = [threads EXCEPT ![child] = <<>>]
      /\ stack' = [stack EXCEPT ![child] = stack[t]]
      /\ screen_buffer' = [screen_buffer EXCEPT ![child] = screen_buffer[t]]
      /\ present' = [present EXCEPT ![child] = @ \cup Kernel \cup Code \cup Data \cup Screen(t)]
  BY <1>0, <1>1 DEF Fork, CopyTo, allocate_DIR, init_dir_pages
<1>3. /\ dir'[child] = child /\ PID'[child] = global_PID + 1 /\ master'[child] = child
      /\ threads'[child] = <<>> /\ Screen(child)' = Screen(t)
      /\ Data \cup Screen(t) \subseteq present'[child]
  BY <1>1, <1>2 DEF LiveInv, TaskInv, Fields, MemInv, Shape, Screen
<1>4. ASSUME NEW u \in alive
      PROVE  /\ PID'[u] = PID[u] /\ master'[u] = master[u] /\ dir'[u] = dir[u]
             /\ stack'[u] = stack[u] /\ screen_buffer'[u] = screen_buffer[u]
             /\ threads'[u] = threads[u]
             /\ present[dir[u]] \subseteq present'[dir[u]]
             /\ PID[u] # global_PID + 1
             /\ PID[u] \in 1 .. global_PID + 1
             /\ u # child
  <2>1. PID[u] \in 1 .. global_PID /\ global_PID \in Nat
    BY DEF LiveInv, Families, TaskInv, Fields
  <2>2. PID[u] # global_PID + 1 /\ PID[u] \in 1 .. global_PID + 1
    BY <2>1
  <2> QED
    BY <2>2, <1>1, <1>2, AliveTasks DEF LiveInv, TaskInv, Fields, MemInv, Shape
<1>5. Joins(child)
  <2>1. global_PID' >= global_PID /\ global_PID' \in Nat
    BY <1>2 DEF LiveInv, TaskInv, Fields
  <2> QED
    BY <1>1, <1>2, <1>3, <1>4, <2>1 DEF Joins
<1>6. Led(child)' /\ global_PID + 1 \in 1 .. global_PID + 1
  BY <1>2, <1>3 DEF Led, LiveInv, TaskInv, Fields
<1>7. Families'
  <2> SUFFICES ASSUME NEW u \in alive'
               PROVE  /\ dir'[u] = master'[u]
                      /\ PID'[u] \in 1 .. global_PID'
                      /\ Led(u)' => master'[master'[u]] = master'[u]
                      /\ \A m \in alive' : master'[m] = m /\ PID'[m] = PID'[u] => master'[u] = m
                      /\ \A k \in ToSet(threads'[u]) : PID'[k] = PID'[u]
    BY DEF Families
  <2>1. CASE u = child
    BY <2>1, <1>2, <1>3, <1>4, <1>6, EmptyList
  <2>2. CASE u \in alive
    <3>1. /\ dir[u] = master[u]
          /\ Led(u) => master[master[u]] = master[u] /\ master[u] \in alive
          /\ \A m \in alive : master[m] = m /\ PID[m] = PID[u] => master[u] = m
          /\ \A k \in ToSet(threads[u]) : PID[k] = PID[u] /\ k \in alive
      BY <2>2, AliveTasks DEF LiveInv, Families, Led
    <3>2. Led(u)' <=> Led(u)
      BY <2>2, <1>5, StillLed
    <3>3. \A m \in alive' : m \in alive \/ m = child
      BY <1>2
    <3> QED
      BY <2>2, <3>1, <3>2, <3>3, <1>2, <1>3, <1>4
  <2> QED
    BY <2>1, <2>2, <1>2
<1>8. Mapped'
  <2> SUFFICES ASSUME NEW u \in alive', Led(u)'
               PROVE  Backed(u)' /\ OwnStack(u)' /\ ScreenApart(u)'
    BY DEF Mapped
  <2>1. CASE u = child
    <3>1. \A v \in alive' : PID'[v] = PID'[child] => v = child
      BY <1>2, <1>3, <1>4
    <3>2. Backed(child)' /\ OwnStack(child)' /\ ScreenApart(child)'
      BY <3>1, <1>3 DEF Backed, OwnStack, ScreenApart
    <3> QED
      BY <2>1, <3>2
  <2>2. CASE u \in alive
    BY <2>2, <1>3, <1>4, <1>5, StillLed, JoinKeeps
  <2> QED
    BY <2>1, <2>2, <1>2
<1> QED
  BY <1>7, <1>8

LEMMA CloneThreadLive ==
  ASSUME LiveInv, NEW t \in Task, NEW n \in StackSizes, CloneThread(t, n)
  PROVE  Families' /\ Mapped'
<1>0. PICK child : child = Head(freequeue)
  OBVIOUS
<1>1. child \in Task \ alive /\ t \in alive /\ master[t] = t
  BY <1>0, TakesStruct DEF LiveInv, TaskInv, CloneThread, CreatesThread, Running
<1>2. dir[t] = t /\ Led(t) /\ t # child
  BY <1>1 DEF LiveInv, Families, Led
<1>3. PICK first \in High :
        /\ FirstFreeRun(t, first, n)
        /\ \E new \in [first .. first + n - 1 -> Free] : AllocateAt(t, new)
        /\ stack' = [stack EXCEPT ![child] = first .. first + n - 1]
  BY <1>0, <1>2 DEF CloneThread
<1>4. PICK S : S = first .. first + n - 1
  OBVIOUS
<1>5. S # {} /\ S \cap present[t] = {}
  <2>1. n > 0 /\ S \subseteq High \ present[t]
    BY <1>3, <1>4 DEF FirstFreeRun, FreeRun
  <2>2. n \in Nat /\ first \in Int
    BY MemoryAssumption, Layout
  <2>3. first \in S
    BY <1>4, <2>1, <2>2
  <2> QED
    BY <2>1, <2>3
<1>6. /\ \A d \in Task : present[d] \subseteq present'[d]
      /\ S \subseteq present'[t]
  <2>1. PICK new \in [S -> Free] : AllocateAt(t, new)
    BY <1>3, <1>4
  <2>2. present' = [present EXCEPT ![t] = @ \cup S]
    BY <2>1 DEF AllocateAt
  <2> QED
    BY <2>2 DEF LiveInv, MemInv, Shape
<1>7. /\ alive' = alive \cup {child} /\ global_PID' = global_PID
      /\ dir' = [dir EXCEPT ![child] = t]
      /\ PID' = [PID EXCEPT ![child] = PID[t]]
      /\ master' = [master EXCEPT ![child] = t]
      /\ threads' = [threads EXCEPT ![child] = <<>>, ![t] = Append(threads[t], child)]
      /\ screen_buffer' = [screen_buffer EXCEPT ![child] = screen_buffer[t]]
      /\ stack' = [stack EXCEPT ![child] = S]
  BY <1>0, <1>2, <1>3, <1>4 DEF CloneThread
<1>8. /\ dir'[child] = t /\ PID'[child] = PID[t] /\ master'[child] = t
      /\ threads'[child] = <<>> /\ Screen(child)' = Screen(t)
      /\ stack'[child] = S
      /\ threads'[t] = Append(threads[t], child)
  BY <1>1, <1>7, <1>2 DEF LiveInv, TaskInv, Fields, MemInv, Shape, Screen
<1>9. ASSUME NEW u \in alive
      PROVE  /\ PID'[u] = PID[u] /\ master'[u] = master[u] /\ dir'[u] = dir[u]
             /\ stack'[u] = stack[u] /\ screen_buffer'[u] = screen_buffer[u]
             /\ u # t => threads'[u] = threads[u]
             /\ present[dir[u]] \subseteq present'[dir[u]]
             /\ PID[u] = PID[t] => master[u] = t
             /\ u # child
  <2>1. PID[u] = PID[t] => master[u] = t
    BY <1>1 DEF LiveInv, Families
  <2>2. dir[u] \in Task
    BY AliveTasks
  <2> QED
    BY <2>1, <2>2, <1>1, <1>6, <1>7, AliveTasks DEF LiveInv, TaskInv, Fields, MemInv, Shape
<1>10. Joins(child)
  <2>1. global_PID' >= global_PID /\ global_PID' \in Nat
    BY <1>7 DEF LiveInv, TaskInv, Fields
  <2> QED
    BY <1>1, <1>2, <1>7, <1>8, <1>9, <2>1 DEF Joins
<1>11. ToSet(threads'[t]) = ToSet(threads[t]) \cup {child}
  <2>1. threads[t] \in Seq(Task)
    BY <1>1 DEF LiveInv, TaskInv, Fields
  <2> QED
    BY <1>1, <1>8, <2>1, AppendQueue
<1>12. Families'
  <2> SUFFICES ASSUME NEW u \in alive'
               PROVE  /\ dir'[u] = master'[u]
                      /\ PID'[u] \in 1 .. global_PID'
                      /\ Led(u)' => master'[master'[u]] = master'[u]
                      /\ \A m \in alive' : master'[m] = m /\ PID'[m] = PID'[u] => master'[u] = m
                      /\ \A k \in ToSet(threads'[u]) : PID'[k] = PID'[u]
    BY DEF Families
  <2>1. \A m \in alive' : m \in alive \/ m = child
    BY <1>7
  <2>2. CASE u = child
    <3>1. PID[t] \in 1 .. global_PID'
      BY <1>1, <1>7 DEF LiveInv, Families
    <3>2. \A m \in alive' : master'[m] = m /\ PID'[m] = PID[t] => m = t
      BY <2>1, <1>2, <1>8, <1>9
    <3>3. master'[t] = t
      BY <1>1, <1>9
    <3> QED
      BY <2>2, <3>1, <3>2, <3>3, <1>8, EmptyList
  <2>3. CASE u \in alive
    <3>1. /\ dir[u] = master[u]
          /\ PID[u] \in 1 .. global_PID
          /\ Led(u) => master[master[u]] = master[u] /\ master[u] \in alive
          /\ \A m \in alive : master[m] = m /\ PID[m] = PID[u] => master[u] = m
          /\ \A k \in ToSet(threads[u]) : PID[k] = PID[u] /\ k \in alive
      BY <2>3, AliveTasks DEF LiveInv, Families, Led
    <3>2. Led(u)' <=> Led(u)
      BY <2>3, <1>10, StillLed
    <3>3. \A k \in ToSet(threads'[u]) : PID'[k] = PID'[u]
      <4>1. CASE u = t
        BY <4>1, <3>1, <1>1, <1>8, <1>9, <1>11
      <4>2. CASE u # t
        BY <4>2, <2>3, <3>1, <1>9
      <4> QED
        BY <4>1, <4>2
    <3>4. \A m \in alive' : master'[m] = m /\ PID'[m] = PID'[u] => master'[u] = m
      BY <2>1, <2>3, <3>1, <1>2, <1>8, <1>9
    <3> QED
      BY <2>3, <3>1, <3>2, <3>3, <3>4, <1>7, <1>9
  <2> QED
    BY <2>1, <2>2, <2>3
<1>13. ASSUME NEW u \in alive, PID[u] = PID[t]
       PROVE  /\ Screen(u) \cap S = {}
              /\ master[u] # u => stack[u] \cap S = {}
  <2>1. master[u] = t /\ dir[u] = t
    BY <1>9, <1>13 DEF LiveInv, Families
  <2>2. Led(u)
    BY <1>1, <1>13, <2>1 DEF Led
  <2>3. Backed(u)
    BY <2>2 DEF LiveInv, Mapped
  <2> QED
    BY <2>1, <2>3, <1>5 DEF Backed
<1>14. Backed(child)' /\ OwnStack(child)' /\ ScreenApart(child)'
  <2>1. Backed(t) /\ ScreenApart(t)
    BY <1>1, <1>2 DEF LiveInv, Mapped
  <2>2. Backed(child)'
    BY <2>1, <1>1, <1>2, <1>5, <1>6, <1>8 DEF Backed
  <2>3. OwnStack(child)'
    <3> SUFFICES ASSUME NEW v \in alive', v # child, PID'[v] = PID'[child],
                        master'[child] \notin {child, v}
                 PROVE  stack'[v] \cap stack'[child] = {}
      BY DEF OwnStack
    <3>1. v \in alive
      BY <1>7
    <3>2. PID[v] = PID[t] /\ stack'[v] = stack[v] /\ master[v] = t
      BY <3>1, <1>8, <1>9
    <3> QED
      BY <3>1, <3>2, <1>8, <1>13
  <2>4. ScreenApart(child)'
    <3> SUFFICES ASSUME NEW v \in alive', PID'[v] = PID'[child], master'[v] # v
                 PROVE  stack'[v] \cap Screen(child)' = {}
      BY DEF ScreenApart
    <3>1. CASE v = child
      BY <3>1, <1>1, <1>8, <1>13
    <3>2. CASE v \in alive
      <4>1. PID[v] = PID[t] /\ stack'[v] = stack[v] /\ master[v] # v
        BY <3>2, <1>8, <1>9
      <4> QED
        BY <3>2, <4>1, <2>1, <1>8 DEF ScreenApart
    <3> QED
      BY <3>1, <3>2, <1>7
  <2> QED
    BY <2>2, <2>3, <2>4
<1>15. Mapped'
  <2> SUFFICES ASSUME NEW u \in alive', Led(u)'
               PROVE  Backed(u)' /\ OwnStack(u)' /\ ScreenApart(u)'
    BY DEF Mapped
  <2>1. CASE u \in alive
    <3>1. Led(u)
      BY <2>1, <1>10, StillLed
    <3> QED
      BY <2>1, <3>1, <1>8, <1>10, <1>13, JoinKeeps
  <2> QED
    BY <2>1, <1>7, <1>14
<1> QED
  BY <1>12, <1>15

LEMMA StartScreenLive ==
  ASSUME LiveInv, NEW t \in Task, StartScreen(t)
  PROVE  Families' /\ Mapped'
<1>1. /\ t \in alive
      /\ UNCHANGED <<alive, PID, global_PID, dir, master, threads, stack>>
  BY DEF StartScreen, Running
<1>2. PICK p \in High : \E new \in [{p} -> Free] :
        /\ FirstFreeRun(dir[t], p, 1)
        /\ AllocateAt(dir[t], new)
        /\ screen_buffer' = [screen_buffer EXCEPT ![t] = p]
  BY DEF StartScreen
<1>3. p \notin present[dir[t]]
  <2>1. p .. p + 1 - 1 \subseteq High \ present[dir[t]] /\ p \in Int
    BY <1>2, Layout DEF FirstFreeRun, FreeRun
  <2> QED
    BY <2>1
<1>4. /\ \A d \in Task : present[d] \subseteq present'[d]
      /\ p \in present'[dir[t]]
  <2>1. PICK new \in [{p} -> Free] : AllocateAt(dir[t], new)
    BY <1>2
  <2>2. present' = [present EXCEPT ![dir[t]] = @ \cup {p}]
    BY <2>1 DEF AllocateAt
  <2> QED
    BY <2>2, <1>1, AliveTasks DEF LiveInv, MemInv, Shape
<1>5. /\ Screen(t)' = {p}
      /\ \A u \in alive \ {t} : Screen(u)' = Screen(u)
  <2>1. p # NULL
    BY Layout
  <2> QED
    BY <2>1, <1>1, <1>2, AliveTasks DEF LiveInv, MemInv, Shape, Screen
<1>6. \A u \in alive : Led(u)' <=> Led(u)
  BY <1>1 DEF Led
<1>7. Families'
  BY <1>1, <1>6 DEF LiveInv, Families
<1>8. ASSUME NEW u \in alive, Led(u)
      PROVE  Backed(u)' /\ OwnStack(u)' /\ ScreenApart(u)'
  <2>1. Backed(u) /\ OwnStack(u) /\ ScreenApart(u)
    BY <1>8 DEF LiveInv, Mapped
  <2>2. present[dir[u]] \subseteq present'[dir[u]]
    BY <1>4, AliveTasks
  <2>3. OwnStack(u)'
    BY <2>1, <1>1 DEF OwnStack
  <2>4. CASE u # t
    BY <2>1, <2>2, <2>3, <2>4, <1>1, <1>5 DEF Backed, ScreenApart
  <2>5. CASE u = t
    <3>1. Backed(u)'
      BY <2>1, <2>2, <2>5, <1>1, <1>4, <1>5 DEF Backed
    <3>2. ASSUME NEW v \in alive, PID[v] = PID[t], master[v] # v
          PROVE  p \notin stack[v]
      <4>1. /\ master[t] \in alive /\ PID[master[t]] = PID[t]
            /\ master[master[t]] = master[t] /\ dir[t] = master[t]
        BY <1>1, <1>8, <2>5 DEF LiveInv, Families, Led
      <4>2. master[v] = master[t] /\ dir[v] = dir[t]
        BY <3>2, <4>1 DEF LiveInv, Families
      <4>3. Led(v)
        BY <3>2, <4>1, <4>2 DEF Led
      <4>4. stack[v] \subseteq present[dir[v]]
        BY <3>2, <4>3 DEF LiveInv, Mapped, Backed
      <4> QED
        BY <4>2, <4>4, <1>3
    <3>3. ScreenApart(u)'
      BY <3>2, <2>5, <1>1, <1>5 DEF ScreenApart
    <3> QED
      BY <3>1, <3>3, <2>3
  <2> QED
    BY <2>4, <2>5
<1> QED
  BY <1>1, <1>6, <1>7, <1>8 DEF Mapped

(***************************************************************************)
(* Tasks leave and pages of one page table are unmapped, none of which a   *)
(* task that stays, and whose first thread stays, has.                     *)
(***************************************************************************)
Leaves(d, pages) ==
  /\ d \in Task
  /\ alive' \subseteq alive
  /\ Unmap(d, pages)
  /\ UNCHANGED <<global_PID, master, dir, stack>>
  /\ \A u \in alive' :
       /\ PID'[u] = PID[u] /\ screen_buffer'[u] = screen_buffer[u]
       /\ ToSet(threads'[u]) \subseteq ToSet(threads[u]) \cap alive'
       /\ Led(u)' /\ dir[u] = d =>
            /\ pages \cap (Data \cup Screen(u)) = {}
            /\ master[u] # u => pages \cap stack[u] = {}

LEMMA LeavesKeeps ==
  ASSUME LiveInv, NEW d, NEW pages, Leaves(d, pages)
  PROVE  Families' /\ Mapped'
<1>1. \A u \in alive' : Led(u)' => Led(u) /\ master[u] \in alive
  BY DEF Leaves, Led
<1>2. Families'
  BY <1>1 DEF LiveInv, Families, Leaves
<1>3. ASSUME NEW u \in alive', Led(u)'
      PROVE  Backed(u)' /\ OwnStack(u)' /\ ScreenApart(u)'
  <2>1. Backed(u) /\ OwnStack(u) /\ ScreenApart(u)
    BY <1>1, <1>3 DEF LiveInv, Mapped, Leaves
  <2>2. /\ Screen(u)' = Screen(u) /\ PID'[u] = PID[u]
        /\ UNCHANGED <<master, dir, stack>>
    BY DEF Leaves, Screen
  <2>3. Backed(u)'
    <3>1. CASE dir[u] # d
      <4>1. present'[dir[u]] = present[dir[u]]
        BY <3>1, AliveTasks DEF Leaves, Unmap, LiveInv, MemInv, Shape
      <4> QED
        BY <4>1, <2>1, <2>2 DEF Backed
    <3>2. CASE dir[u] = d
      <4>1. present'[dir[u]] = present[dir[u]] \ pages
        BY <3>2 DEF Leaves, Unmap, LiveInv, MemInv, Shape
      <4>2. /\ pages \cap (Data \cup Screen(u)) = {}
            /\ master[u] # u => pages \cap stack[u] = {}
        BY <3>2, <1>3 DEF Leaves
      <4> QED
        BY <4>1, <4>2, <2>1, <2>2 DEF Backed
    <3> QED
      BY <3>1, <3>2
  <2>4. OwnStack(u)'
    BY <2>1, <2>2 DEF OwnStack, Leaves
  <2>5. ScreenApart(u)'
    BY <2>1, <2>2 DEF ScreenApart, Leaves
  <2> QED
    BY <2>3, <2>4, <2>5
<1> QED
  BY <1>2, <1>3 DEF Mapped

LEMMA PthreadExitLive ==
  ASSUME LiveInv, NEW t \in Task, pthread_exit(t)
  PROVE  Families' /\ Mapped'
<1>0. PICK m : m = master[t]
  OBVIOUS
<1>1. t \in alive /\ m # t /\ m \in Task /\ dir[t] = m
  BY <1>0 DEF pthread_exit, Running, LiveInv, Families, TaskInv, Fields
<1>2. /\ Unmap(m, stack[t])
      /\ UNCHANGED <<global_PID, master, dir, stack, screen_buffer>>
      /\ alive' = alive \ {t}
      /\ PID' = [PID EXCEPT ![t] = -1]
  BY <1>1 DEF pthread_exit
<1>3. PICK i \in DOMAIN threads[m] :
        /\ threads[m][i] = t
        /\ threads' = [threads EXCEPT ![m] = RemoveAt(@, i)]
  BY <1>0 DEF pthread_exit
<1>4. /\ threads[m] \in Seq(Task) /\ IsInjective(threads[m])
      /\ t \in ToSet(threads[m])
  BY <1>1, <1>3, ToSetIn DEF LiveInv, TaskInv, Fields, Lists
<1>5. ToSet(threads'[m]) = ToSet(threads[m]) \ {t}
  <2>1. ToSet(RemoveAt(threads[m], i)) = ToSet(threads[m]) \ {t}
    BY <1>3, <1>4, RemoveAtQueue
  <2>2. threads'[m] = RemoveAt(threads[m], i)
    BY <1>1, <1>3 DEF LiveInv, TaskInv, Fields
  <2> QED
    BY <2>1, <2>2
<1>6. ASSUME NEW u \in alive'
      PROVE  /\ PID'[u] = PID[u] /\ screen_buffer'[u] = screen_buffer[u]
             /\ ToSet(threads'[u]) \subseteq ToSet(threads[u]) \cap alive'
  <2>1. u \in alive /\ u # t /\ u \in Task
    BY <1>2, AliveTasks
  <2>2. CASE u = m
    BY <2>1, <2>2, <1>2, <1>5, AliveTasks DEF LiveInv, TaskInv, Fields
  <2>3. CASE u # m
    <3>1. threads'[u] = threads[u]
      BY <2>1, <2>3, <1>3 DEF LiveInv, TaskInv, Fields
    <3>2. \A k \in ToSet(threads[u]) : k \in alive /\ master[k] = u
      BY <2>1 DEF LiveInv, TaskInv, Lists
    <3> QED
      BY <2>1, <2>3, <3>1, <3>2, <1>0, <1>2 DEF LiveInv, TaskInv, Fields
  <2> QED
    BY <2>2, <2>3
<1>7. ASSUME NEW u \in alive', Led(u)', dir[u] = m
      PROVE  /\ stack[t] \cap (Data \cup Screen(u)) = {}
             /\ master[u] # u => stack[t] \cap stack[u] = {}
  <2>1. /\ u \in alive /\ u # t /\ master[u] = m /\ m \in alive
        /\ PID[m] = PID[u]
    <3>1. u \in alive /\ u # t /\ master[u] = m
      BY <1>2, <1>7 DEF LiveInv, Families
    <3>2. m \in alive' /\ PID'[m] = PID'[u]
      BY <3>1, <1>2, <1>7 DEF Led
    <3>3. PID'[m] = PID[m] /\ PID'[u] = PID[u] /\ m \in alive
      BY <3>2, <1>2, <1>6
    <3> QED
      BY <3>1, <3>2, <3>3
  <2>2. PID[t] = PID[u] /\ Led(u)
    BY <2>1, <1>4 DEF LiveInv, Families, Led
  <2>3. OwnStack(u) /\ ScreenApart(u)
    BY <2>1, <2>2 DEF LiveInv, Mapped
  <2>4. stack[t] \cap Data = {}
    <3>1. stack[t] \subseteq High
      BY DEF LiveInv, MemInv, Shape
    <3>2. High \cap Data = {}
      BY MemoryAssumption DEF High, FirstHigh, Data, PAG_LOG_INIT_DATA, PAG_LOG_INIT_CODE
    <3> QED
      BY <3>1, <3>2
  <2>5. stack[t] \cap Screen(u) = {}
    BY <1>0, <1>1, <2>2, <2>3 DEF ScreenApart
  <2>6. master[u] # u => stack[t] \cap stack[u] = {}
    BY <1>1, <2>1, <2>2, <2>3 DEF OwnStack
  <2> QED
    BY <2>4, <2>5, <2>6
<1>8. Leaves(m, stack[t])
  BY <1>1, <1>2, <1>6, <1>7 DEF Leaves
<1> QED
  BY <1>8, LeavesKeeps

LEMMA ExitLive ==
  ASSUME LiveInv, NEW t \in Task, exit(t)
  PROVE  Families' /\ Mapped'
<1>0. PICK killed, pages :
        /\ killed = ToSet(Killed(t))
        /\ pages = (UNION {stack[k] : k \in killed}) \cup Data \cup Screen(t)
  OBVIOUS
<1>1. t \in alive /\ master[t] = t /\ dir[t] = t
  BY DEF exit, Running, LiveInv, Families
<1>2. /\ Unmap(t, pages)
      /\ screen_buffer' = [screen_buffer EXCEPT ![t] = NULL]
      /\ threads' = [threads EXCEPT ![t] = IF killed = {} THEN @ ELSE <<>>]
      /\ alive' = alive \ (killed \cup {t})
      /\ PID' = [k \in Task |-> IF k \in killed \cup {t} THEN -1 ELSE PID[k]]
      /\ UNCHANGED <<global_PID, master, dir, stack>>
  BY <1>0, <1>1 DEF exit
<1>3. \A k \in killed : k \in alive /\ master[k] = t /\ k # t
  BY <1>0, KilledThreads DEF LiveInv
<1>4. ASSUME NEW u \in alive'
      PROVE  /\ PID'[u] = PID[u] /\ screen_buffer'[u] = screen_buffer[u]
             /\ ToSet(threads'[u]) \subseteq ToSet(threads[u]) \cap alive'
             /\ ~(Led(u)' /\ dir[u] = t)
  <2>1. u \in alive /\ u # t /\ u \in Task /\ u \notin killed
    BY <1>2, AliveTasks
  <2>2. PID'[u] = PID[u] /\ screen_buffer'[u] = screen_buffer[u]
        /\ threads'[u] = threads[u]
    BY <2>1, <1>2 DEF LiveInv, TaskInv, Fields, MemInv, Shape
  <2>3. \A k \in ToSet(threads[u]) : k \in alive /\ master[k] = u
    BY <2>1 DEF LiveInv, TaskInv, Lists
  <2>4. ToSet(threads[u]) \subseteq alive'
    BY <2>1, <2>3, <1>1, <1>2, <1>3
  <2>5. ~(Led(u)' /\ dir[u] = t)
    BY <2>1, <1>2 DEF Led, LiveInv, Families
  <2> QED
    BY <2>2, <2>4, <2>5
<1>5. Leaves(t, pages)
  BY <1>2, <1>4 DEF Leaves
<1> QED
  BY <1>5, LeavesKeeps

LEMMA LiveStep == LiveInv /\ [Next]_vars => LiveInv'
<1> SUFFICES ASSUME LiveInv, [Next]_vars PROVE LiveInv'
  OBVIOUS
<1>1. MemInv' /\ TaskInv'
  BY MemStep, TasksStep DEF LiveInv
<1>2. ASSUME UNCHANGED <<memory, tasks>>
      PROVE  Families' /\ Mapped'
  <2>1. KeepsTasks
    BY <1>2 DEF KeepsTasks, memory, tasks
  <2> QED
    BY <2>1, KeepsLive
<1>3. ASSUME NEW t \in Task, TaskStep(t)
      PROVE  Families' /\ Mapped'
  <2>1. CASE ForkNoScreen(t) \/ ForkFaults(t) \/ StrayUnlink(t) \/ ScreenFault(t)
    BY <2>1, <1>2 DEF ForkNoScreen, ForkFaults, StrayUnlink, ScreenFault
  <2>2. CASE \E n \in StackSizes :
               CloneThread(t, n) \/ CloneThreadNoFrames(t, n) \/ CloneThreadNoPages(t, n)
    BY <2>2, CloneThreadLive, CloneThreadNoFramesLive, CloneThreadNoPagesLive
  <2>3. CASE Fork(t)
    BY <2>3, ForkLive
  <2>4. CASE ForkNoFrames(t)
    BY <2>4, ForkNoFramesLive
  <2>5. CASE pthread_exit(t)
    BY <2>5, PthreadExitLive
  <2>6. CASE exit(t)
    BY <2>6, ExitLive
  <2>7. CASE StartScreen(t)
    BY <2>7, StartScreenLive
  <2> QED
    BY <1>3, <2>1, <2>2, <2>3, <2>4, <2>5, <2>6, <2>7 DEF TaskStep
<1>4. ASSUME UNCHANGED vars
      PROVE  Families' /\ Mapped'
  BY <1>4, <1>2 DEF vars
<1>5. Families' /\ Mapped'
  BY <1>2, <1>3, <1>4 DEF Next, Stopped, vars
<1> QED
  BY <1>1, <1>5 DEF LiveInv

(***************************************************************************)
(* A thread whose process still has its first thread never loses a page:   *)
(* the data, its screen and its own stack stay mapped, and its stack stays *)
(* its own, whatever the other threads and processes clone, unmap or free  *)
(* (sys_clone, sys_exit, sys_pthread_exit and sys_StartScreen).            *)
(***************************************************************************)
THEOREM ThreadsKeepTheirPages == Spec => []LiveMapped
<1>1. Init => LiveInv
  BY InitMem, InitTasks, InitLive DEF LiveInv
<1>2. LiveInv /\ [Next]_vars => LiveInv'
  BY LiveStep
<1>3. LiveInv => LiveMapped
  BY DEF LiveInv, Mapped, LiveMapped
<1> QED
  BY <1>1, <1>2, <1>3, PTL DEF Spec
=============================================================================
