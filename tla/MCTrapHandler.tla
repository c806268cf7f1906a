--------------------------- MODULE MCTrapHandler ---------------------------
(* Programs that have one of two sets of values in their registers and make every call, *)
(* and others that share two words.                                                      *)
EXTENDS TrapHandler

Number == [r \in Registers |-> CASE r = "gp" -> 1 [] r = "s0" -> 2 [] r = "s1" -> 3 [] r = "a0" -> 4
                                [] r = "a1" -> 5 [] r = "ra" -> 6 [] r = "t0" -> 7]
Context(n) == [r \in Registers |-> 10 * n + Number[r]]

MCPrograms ==
  { [contexts |-> {Context(1), Context(2)}, depth |-> 1, calls |-> Calls, words |-> {}],
    [contexts |-> {Context(1)}, depth |-> 0, calls |-> {"Sleep", "Wait", "Spawn"}, words |-> {1, 2}] }
=============================================================================
