----------------------------- MODULE LedgerBook -----------------------------
(***************************************************************************)
(* The ledger implements the outcome book.  The entries of the book are    *)
(* the durable lines of the files: an entry is made when the line can no   *)
(* longer be lost, which is before the handler tells its client.           *)
(***************************************************************************)
EXTENDS Ledger

Settled(f) == SubSeq(file[f], 1, durable[f])

TruthFor(i) ==
  LET lines == Settled("outcomes")
      at == {k \in DOMAIN lines : lines[k].kind = "whole" /\ lines[k].id = i}
  IN IF at = {} THEN None ELSE lines[CHOOSE k \in at : TRUE].truth

Book == INSTANCE OutcomeBook
          WITH recorded <- WholeIds(Settled("answers")),
               truthOf <- [i \in Ids |-> TruthFor(i)]

\* Every behaviour of the ledger, crashes and restarts included, is one of
\* the outcome book: nothing recorded is lost or replaced, a truth has its
\* answer, and no client is told of an entry that is not there.
ImplementsBook == Book!BookSpec
=============================================================================
