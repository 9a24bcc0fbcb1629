---------------------------- MODULE MCSemaphores ----------------------------
(***************************************************************************)
(* Small instances of Semaphores: a process of up to two or three threads  *)
(* and one semaphore.                                                      *)
(***************************************************************************)
EXTENDS Semaphores

TwoPriorities == {0, 1}
Binary == {0, 1}
Everybody == Task \ {Idle}
=============================================================================
