---------------------------- MODULE MCLabKernel ----------------------------
(***************************************************************************)
(* Instances of LabKernel for TLC.                                         *)
(***************************************************************************)
EXTENDS LabKernel

\* The states in which a node is in two lists are checked, but not left.
NotTangled == ~tangled

=============================================================================
