----------------------------- MODULE MCLifetime -----------------------------
EXTENDS Lifetime, TLC

AskOf(freeform, known, state, agent) ==
  [freeform |-> freeform, known |-> known, state |-> state, agent |-> agent]

\* Asks that may be trained on and that may not, one from a caller with no
\* agent identity, and one a gate refuses.
Paths ==
  {AskOf(FALSE, TRUE, "ok", TRUE), AskOf(TRUE, TRUE, "ok", TRUE),
   AskOf(FALSE, TRUE, "ok", FALSE), AskOf(TRUE, FALSE, "ok", TRUE)}

Symmetry == Permutations(Handlers)
=============================================================================
