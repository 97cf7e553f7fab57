------------------------------ MODULE MCProxy ------------------------------
EXTENDS Proxy, TLC

Decide(body, signals) ==
  [allowed |-> TRUE, decide |-> TRUE, body |-> body, signals |-> signals]

\* A call with room for a signal, one with room for one more, one with none,
\* a truncated call, and a request of each way past the ask.
EveryRequest ==
  {Decide("call", 0), Decide("call", 1), Decide("call", 2), Decide("truncated", 0),
   Decide("too big", 0), Decide("unreadable", 0),
   [allowed |-> FALSE, decide |-> TRUE, body |-> "call", signals |-> 0],
   [allowed |-> TRUE, decide |-> FALSE, body |-> "call", signals |-> 0]}

Symmetry == Permutations(Handlers)
=============================================================================
