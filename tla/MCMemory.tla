------------------------------ MODULE MCMemory ------------------------------
(***************************************************************************)
(* Small instances of Memory: a page for NULL and a guard page in the      *)
(* kernel, one page of code, one or two of data.                           *)
(***************************************************************************)
EXTENDS Memory

OneOrTwoPages == {1, 2}
TwoOrTooMany == {2, 9}     \* nine pages do not fit behind the data
GuardPage == {1}
InitOnly == {1}
InitAndChild == {1, 2}

VARIABLE threaded          \* history: whether a thread has been created yet

MCInit == Init /\ threaded = FALSE

MCNext == Next /\ threaded' = (threaded \/ \E t \in Task : dir'[t] # t)

MCSpec == MCInit /\ [][MCNext]_<<vars, threaded>>

(***************************************************************************)
(* Until a thread has been created nothing is lost: through failed forks,  *)
(* screens and exits each used frame is of the code or mapped by a live    *)
(* process.  An exit with threads does lose their stacks (README).         *)
(***************************************************************************)
NoLeakUnthreaded == ~threaded => NoLeak
=============================================================================
