------------------------------ MODULE MCKernel ------------------------------
(* Instances of Kernel for TLC. *)
EXTENDS Kernel

MCNoTask == -1
MCMinPrio == -9
MCPrios == {0, 1}
=============================================================================
