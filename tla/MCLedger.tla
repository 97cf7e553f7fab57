------------------------------ MODULE MCLedger ------------------------------
EXTENDS LedgerBook, TLC

\* Ids, truths and handlers are interchangeable: nothing in the ledger orders
\* them.  Used only by the runs that check no liveness property.
Symmetry == Permutations(Ids) \cup Permutations(Truths) \cup Permutations(Callers)
=============================================================================
