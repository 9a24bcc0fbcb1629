---------------------------- MODULE SystemCalls ----------------------------
(***************************************************************************)
(* The way of a system call: the wrappers of project/Project/user-utils.S, *)
(* the dispatch of entry.S through sys_call_table.S, what the routines     *)
(* return, and the way back through nok to errno, a variable that all      *)
(* threads of the process share.  write is followed to the console, and    *)
(* perror to write.                                                        *)
(*                                                                         *)
(* Interrupts are off in the kernel, so Dispatch is one action; between    *)
(* two instructions of a wrapper other threads may run.                    *)
(***************************************************************************)
EXTENDS UserAccess, Console, FiniteSets

CONSTANTS
  Thread,        \* the threads the process may have; the first one is Main
  Main,
  Buffers,       \* addresses programs pass to the kernel
  Texts,         \* what programs write
  MaxClones      \* bounds global_TID

ASSUME SystemCallsAssumption ==
  /\ Main \in Thread
  /\ Thread \subseteq Nat
  /\ Buffers \subseteq Nat
  /\ Texts \subseteq Seq(Nat)
  /\ MaxClones \in Nat

VARIABLES
  alive,         \* the threads that exist
  pc,            \* of each thread: in its program, at sysenter, or back from it
  call,          \* the wrapper each thread is in, with the arguments
  eax,
  errno,         \* libc.c: int errno
  global_TID,    \* how many TIDs have been given out is what matters
  con,           \* the console
  writer,        \* the thread that has written last
  start,         \* the cell under the cursor before that
  routines,      \* kernel routines run for each thread's present call
  stopped        \* why nothing goes on: an exit, a page fault, a wild jump

vars == <<alive, pc, call, eax, errno, global_TID, con, writer, start, routines,
          stopped>>

ESRCH == 3
EBADF == 9
EAGAIN == 11
ENOMEM == 12
EFAULT == 14
EINVAL == 22
ENOSYS == 38

\* asked: the errno that perror has read; again: pthread_create enters the second time
Program == [fn |-> "none"]
Arguments(fn, fd, buffer, nbytes, text) ==
  [fn |-> fn, fd |-> fd, buffer |-> buffer, nbytes |-> nbytes, text |-> text,
   asked |-> 0, again |-> FALSE]

FirstTIDMutant == 0

FirstTID == 1000

Init ==
  /\ alive = {Main}
  /\ pc = [t \in Thread |-> "user"]
  /\ call = [t \in Thread |-> Program]
  /\ eax = [t \in Thread |-> 0]
  /\ errno = 0
  /\ global_TID = FirstTID
  /\ con = Booted /\ writer = Main /\ start = 0
  /\ routines = [t \in Thread |-> 0]
  /\ stopped = "no"

-----------------------------------------------------------------------------
(* Into a wrapper *)

\* the numbers the wrappers put in eax
Number ==
  [exit |-> 1, SetPriority |-> 2, GetKeyboardState |-> 3, write |-> 4, pause |-> 5,
   StartScreen |-> 6, fork |-> 7, pthread_create |-> 7, pthread_exit |-> 8,
   gettime |-> 10, yield |-> 13, getpid |-> 20, semCreate |-> 23, semWait |-> 24,
   semPost |-> 25, semDestroy |-> 26, get_stats |-> 35, perror |-> 4]

\* the wrappers that test eax; the others return it as it is
Tests == DOMAIN Number \ {"exit", "StartScreen", "pthread_exit", "gettime", "yield", "getpid"}

InProgram(t) == stopped = "no" /\ t \in alive /\ pc[t] = "user"

Enter(t, c) ==
  /\ InProgram(t)
  /\ pc' = [pc EXCEPT ![t] = "sysenter"]
  /\ call' = [call EXCEPT ![t] = c]
  /\ eax' = [eax EXCEPT ![t] = Number[c.fn]]
  /\ routines' = [routines EXCEPT ![t] = 0]
  /\ UNCHANGED <<alive, errno, global_TID, con, writer, start, stopped>>

\* a call whose arguments do not matter here
Simple(t, fn) ==
  fn \notin {"write", "perror", "GetKeyboardState", "get_stats"}
    /\ Enter(t, Arguments(fn, 0, 0, 0, << >>))

PassBuffer(t, fn, buffer) ==
  fn \in {"GetKeyboardState", "get_stats"} /\ Enter(t, Arguments(fn, 0, buffer, 0, << >>))

write(t, buffer, text) == Enter(t, Arguments("write", 1, buffer, Len(text), text))

\* another file, or a negative size
writeBadly(t) ==
  \E fd \in {0, 1} :
    Enter(t, Arguments("write", fd, FirstDataPage * PAGE_SIZE, -fd, << >>))

(***************************************************************************)
(* perror prints errno from a buffer on the stack of the caller.  The      *)
(* stack of the first thread ends the data section; clone puts those of    *)
(* the others in the pages from NUM_PAG_DATA behind it on.                 *)
(***************************************************************************)
StackPage(t) == IF t = Main THEN PastDataPage - 1 ELSE PastDataPage + NUM_PAG_DATA + t

perror(t) ==
  Enter(t, [Arguments("perror", 1, StackPage(t) * PAGE_SIZE, Len(itoa(errno)), itoa(errno))
              EXCEPT !.asked = errno])

-----------------------------------------------------------------------------
(* The routines of the kernel: what they return and what that needs *)

Returns(t, value) ==
  /\ eax' = [eax EXCEPT ![t] = value]
  /\ pc' = [pc EXCEPT ![t] = "back"]

Quiet == UNCHANGED <<alive, global_TID, con, writer, start, stopped>>

Stop(why) ==
  /\ stopped' = why
  /\ UNCHANGED <<alive, global_TID, con, writer, start, eax, pc>>

\* check_fd comes first, then the sign, then access_ok
RefusalOfWrite(c) ==
  IF c.fd # 1 THEN -EBADF
  ELSE IF c.nbytes < 0 THEN -EINVAL
  ELSE IF ~access_ok(VERIFY_READ, c.buffer, c.nbytes) THEN -EFAULT
  ELSE 0

Unmapped(addr, size) == ~(Touched(addr, size) \subseteq UserPages)

sys_write(t) ==
  LET c == call[t] IN
  \/ RefusalOfWrite(c) # 0 /\ Returns(t, RefusalOfWrite(c)) /\ Quiet
  \/ /\ RefusalOfWrite(c) = 0 /\ ~Unmapped(c.buffer, c.nbytes)
     /\ con' = WriteLoop([con EXCEPT !.shown = << >>, !.e9 = << >>], c.text)
     /\ writer' = t
     /\ start' = con.y * NUM_COLUMNS + con.x
     /\ Returns(t, c.nbytes)
     /\ UNCHANGED <<alive, global_TID, stopped>>
  \/ RefusalOfWrite(c) = 0 /\ Unmapped(c.buffer, c.nbytes) /\ Stop("page fault")

\* access_ok, then perhaps another refusal, then copy_to_user of size bytes
Fill(t, size, refusals) ==
  LET buffer == call[t].buffer
      values == IF access_ok(VERIFY_WRITE, buffer, size) THEN refusals \cup {0} ELSE {-EFAULT}
  IN \E value \in values :
       IF value = 0 /\ Unmapped(buffer, size)
       THEN Stop("page fault")
       ELSE Returns(t, value) /\ Quiet

sys_GetKeyboardState(t) == Fill(t, 256, {})
sys_get_stats(t) == Fill(t, 28, {-EINVAL, -ESRCH})

\* the PID of a child is not followed, its TID is the next one too
sys_clone(t) ==
  \/ \E e \in {ENOMEM, EAGAIN} : Returns(t, -e) /\ Quiet
  \/ /\ global_TID < FirstTID + MaxClones
     /\ global_TID' = global_TID + 1
     /\ Returns(t, global_TID + 1)
     /\ IF call[t].fn = "fork" THEN UNCHANGED alive
        ELSE \E child \in Thread \ alive : alive' = alive \cup {child}
     /\ UNCHANGED <<con, writer, start, stopped>>

\* exit frees the data of the process, so nothing in it goes on
sys_exit == Stop("exit")

sys_pthread_exit(t) ==
  \/ t = Main /\ sys_exit
  \/ /\ t # Main
     /\ alive' = alive \ {t}
     /\ pc' = [pc EXCEPT ![t] = "user"]
     /\ UNCHANGED <<global_TID, con, writer, start, stopped, eax>>

\* what the routines return that only look at scalars
Simply ==
  [sys_ni_syscall |-> {-ENOSYS}, sys_SetPriority |-> {-EINVAL, 0}, sys_pause |-> {-EINVAL, 0},
   sys_StartScreen |-> {-1, (PastDataPage + NUM_PAG_DATA) * PAGE_SIZE},
   sys_gettime |-> {0}, sys_yield |-> {0}, sys_getpid |-> {1},
   sys_semCreate |-> {-EINVAL, -ENOMEM, 0}, sys_semWait |-> {-EAGAIN, 0},
   sys_semPost |-> {-EINVAL, -EAGAIN, 0}, sys_semDestroy |-> {-EAGAIN, 0}]

-----------------------------------------------------------------------------
(* entry.S *)

sys_call_table ==
  [n \in 0 .. 35 |->
     CASE n = 1 -> "sys_exit"             [] n = 2 -> "sys_SetPriority"
       [] n = 3 -> "sys_GetKeyboardState" [] n = 4 -> "sys_write"
       [] n = 5 -> "sys_pause"            [] n = 6 -> "sys_StartScreen"
       [] n = 7 -> "sys_clone"            [] n = 8 -> "sys_pthread_exit"
       [] n = 10 -> "sys_gettime"         [] n = 13 -> "sys_yield"
       [] n = 20 -> "sys_getpid"          [] n = 23 -> "sys_semCreate"
       [] n = 24 -> "sys_semWait"         [] n = 25 -> "sys_semPost"
       [] n = 26 -> "sys_semDestroy"      [] n = 35 -> "sys_get_stats"
       [] OTHER -> "sys_ni_syscall"]

MAX_SYSCALL == Cardinality(DOMAIN sys_call_table)

\* what the jump through the table reaches
Entry(number) ==
  IF number \in DOMAIN sys_call_table THEN sys_call_table[number] ELSE "beyond the table"

Run(t, routine) ==
  \/ routine = "sys_write" /\ sys_write(t)
  \/ routine = "sys_GetKeyboardState" /\ sys_GetKeyboardState(t)
  \/ routine = "sys_get_stats" /\ sys_get_stats(t)
  \/ routine = "sys_clone" /\ sys_clone(t)
  \/ routine = "sys_exit" /\ sys_exit
  \/ routine = "sys_pthread_exit" /\ sys_pthread_exit(t)
  \/ /\ routine \in DOMAIN Simply
     /\ \E value \in Simply[routine] : Returns(t, value) /\ Quiet
  \/ routine = "beyond the table" /\ Stop("wild jump")

(***************************************************************************)
(* Refused are the numbers below 0 and, by jg, those above MAX_SYSCALL.    *)
(* The table ends before MAX_SYSCALL: that number jumps to what follows.   *)
(***************************************************************************)
Dispatch(t) ==
  /\ stopped = "no" /\ t \in alive /\ pc[t] = "sysenter"
  /\ \/ /\ eax[t] \in 0 .. MAX_SYSCALL
        /\ routines' = [routines EXCEPT ![t] = @ + 1]
        /\ Run(t, Entry(eax[t]))
     \/ /\ eax[t] \notin 0 .. MAX_SYSCALL
        /\ Returns(t, -ENOSYS) /\ Quiet /\ UNCHANGED routines
  /\ UNCHANGED <<call, errno>>

-----------------------------------------------------------------------------
(* Out of a wrapper *)

Back(t) == stopped = "no" /\ t \in alive /\ pc[t] = "back"

\* pthread_create does it twice, with what is in eax the second time
CallsTwice(t) == call[t].fn = "pthread_create" /\ ~call[t].again

CallAgain(t) ==
  /\ Back(t)
  /\ CallsTwice(t)
  /\ call' = [call EXCEPT ![t].again = TRUE]
  /\ pc' = [pc EXCEPT ![t] = "sysenter"]
  /\ UNCHANGED <<alive, eax, errno, global_TID, con, writer, start, routines, stopped>>

\* what is remembered of a write, not by the code, until its caller goes on
Forget(t) ==
  IF t = writer
  THEN con' = [con EXCEPT !.shown = << >>, !.e9 = << >>] /\ start' = 0
  ELSE UNCHANGED <<con, start>>

Leave(t) ==
  /\ pc' = [pc EXCEPT ![t] = "user"]
  /\ call' = [call EXCEPT ![t] = Program]
  /\ eax' = [eax EXCEPT ![t] = 0]
  /\ routines' = [routines EXCEPT ![t] = 0]
  /\ Forget(t)
  /\ UNCHANGED <<alive, global_TID, writer, stopped>>

Return(t) ==
  /\ Back(t)
  /\ ~CallsTwice(t)
  /\ eax[t] >= 0 \/ call[t].fn \notin Tests
  /\ Leave(t)
  /\ UNCHANGED errno

\* the sign is not changed
nokMutant(t) ==
  /\ Back(t)
  /\ ~CallsTwice(t)
  /\ eax[t] < 0 /\ call[t].fn \in Tests
  /\ errno' = eax[t]
  /\ Leave(t)

\* the thread's call has failed; its error goes where those of all threads go
nok(t) ==
  /\ Back(t)
  /\ ~CallsTwice(t)
  /\ eax[t] < 0 /\ call[t].fn \in Tests
  /\ errno' = -eax[t]
  /\ Leave(t)

Next ==
  \E t \in Thread :
    \/ \E fn \in DOMAIN Number : Simple(t, fn)
    \/ \E fn \in DOMAIN Number, buffer \in Buffers : PassBuffer(t, fn, buffer)
    \/ \E buffer \in Buffers, text \in Texts : write(t, buffer, text)
    \/ writeBadly(t)
    \/ perror(t)
    \/ Dispatch(t)
    \/ CallAgain(t)
    \/ Return(t)
    \/ nok(t)

Spec == Init /\ [][Next]_vars

-----------------------------------------------------------------------------
(* Properties *)

Errors == {ESRCH, EBADF, EAGAIN, ENOMEM, EFAULT, EINVAL, ENOSYS}

\* The cursor never leaves the screen, and errno is 0 or a code of a routine, never its
\* negation.
SysTypeOK ==
  /\ Main \in Thread /\ alive \subseteq Thread
  /\ pc \in [Thread -> {"user", "sysenter", "back"}]
  /\ \A t \in Thread : call[t].fn \in DOMAIN Number \cup {"none"}
  /\ eax \in [Thread -> Int]
  /\ errno \in Errors \cup {0}
  /\ global_TID \in FirstTID .. FirstTID + MaxClones
  /\ con.x \in 0 .. NUM_COLUMNS - 1 /\ con.y \in 0 .. NUM_ROWS - 1
  /\ writer \in Thread
  /\ stopped \in {"no", "exit", "page fault", "wild jump"}

(***************************************************************************)
(* A call of a wrapper runs at most one routine of the kernel, and none    *)
(* jumps off the table.  pthread_create enters the kernel twice, the       *)
(* second time with the first result as the number: neither an error nor   *)
(* a TID may look like a number of the table, or like MAX_SYSCALL, which   *)
(* jg lets through.                                                        *)
(***************************************************************************)
OneRoutinePerCall ==
  /\ \A t \in Thread : routines[t] <= 1
  /\ stopped # "wild jump"

\* The call a thread comes back from has written to the console, and nobody since.
HasWritten(t) ==
  writer = t /\ pc[t] = "back" /\ call[t].fn \in {"write", "perror"} /\ eax[t] >= 0

\* A write that succeeds has put out every byte, once and in order, however it
\* was cut into chunks, and says how many.
WriteInOrder ==
  \A t \in Thread : HasWritten(t) =>
    con.e9 = call[t].text /\ eax[t] = Len(call[t].text)

\* A text of one line, or of several that are cut by the edge of the screen, stands
\* in the cells from the cursor on, the rows taken cyclically.
ScreenShowsText ==
  \A t \in Thread : HasWritten(t) =>
    LET text == call[t].text
        cells == NUM_COLUMNS * NUM_ROWS
    IN NewLine \notin ToSet(text) /\ Len(text) <= cells =>
         con.shown = [cell \in {(start + i - 1) % cells : i \in DOMAIN text} |->
                        text[((cell - start) % cells) + 1]]

\* the number that a text of digits stands for
Value(text) ==
  LET value[i \in 0 .. Len(text)] ==
        IF i = 0 THEN 0 ELSE 10 * value[i - 1] + text[i] - Zero
  IN value[Len(text)]

\* The number perror prints is errno as it was when perror read it, whatever the
\* other threads have done to it since.
PerrorShowsErrno ==
  \A t \in Thread : HasWritten(t) /\ call[t].fn = "perror" =>
    Value(con.e9) = call[t].asked

=============================================================================
