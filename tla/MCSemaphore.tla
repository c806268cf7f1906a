---------------------------- MODULE MCSemaphore ----------------------------
(* Three threads of two priorities, and a semaphore that starts at 1. *)
EXTENDS Semaphore, TLC

CONSTANTS a, b, c

MCThreads == {a, b, c}
MCPrio == (a :> 1) @@ (b :> 0) @@ (c :> 0)
=============================================================================
