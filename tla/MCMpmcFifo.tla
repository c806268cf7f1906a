----------------------------- MODULE MCMpmcFifo -----------------------------
(* Two threads or three, on a ring of two slots. *)
EXTENDS MpmcFifo, TLC

CONSTANTS p1, p2, c1, c2

MCProducers == {p1, p2}
MCConsumers == {c1, c2}
MCPrio == [t \in MCProducers \cup MCConsumers |-> 0]

Load(a, b, c, d) == (p1 :> a) @@ (p2 :> b) @@ (c1 :> c) @@ (c2 :> d)
MCLoads == {Load(3, 0, 3, 0), Load(2, 1, 2, 0), Load(2, 0, 1, 2)}
=============================================================================
