----------------------------- MODULE MCService -----------------------------
EXTENDS Service, TLC

AskOf(freeform, known, state, agent) ==
  [freeform |-> freeform, known |-> known, state |-> state, agent |-> agent]

\* With free-form questions switched off, the second is refused at the gate.
Capped == {AskOf(FALSE, TRUE, "ok", TRUE), AskOf(TRUE, TRUE, "ok", TRUE)}
=============================================================================
