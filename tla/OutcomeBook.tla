----------------------------- MODULE OutcomeBook -----------------------------
(***************************************************************************)
(* What internal/ledger promises, without files, locks or crashes: a book  *)
(* of answers and of at most one truth for each, which nothing is ever     *)
(* taken out of, and in which an entry is made before anyone is told of it.*)
(***************************************************************************)
CONSTANTS Ids, Truths, None

VARIABLES recorded,   \* the answers in the book
          truthOf,    \* truthOf[i]: the truth recorded for i, or None
          kept,       \* answers the book said it has
          confirmed   \* <<id, truth>> pairs the book said it has

bookVars == <<recorded, truthOf, kept, confirmed>>

BookInit ==
  /\ recorded = {}
  /\ truthOf = [i \in Ids |-> None]
  /\ kept = {} /\ confirmed = {}

\* Entries settle, several at once when they share an fsync; a truth only for
\* an answer in the book, and never in place of another.
Settle ==
  /\ \E more \in SUBSET Ids : recorded' = recorded \cup more
  /\ \E t \in [Ids -> Truths \cup {None}] :
       /\ \A i \in Ids : truthOf[i] # None => t[i] = truthOf[i]
       /\ \A i \in Ids : t[i] # None => i \in recorded'
       /\ truthOf' = t
  /\ UNCHANGED <<kept, confirmed>>

Keep(i) ==
  /\ i \in recorded
  /\ kept' = kept \cup {i}
  /\ UNCHANGED <<recorded, truthOf, confirmed>>

Confirm(i) ==
  /\ truthOf[i] # None
  /\ confirmed' = confirmed \cup {<<i, truthOf[i]>>}
  /\ UNCHANGED <<recorded, truthOf, kept>>

BookNext == Settle \/ \E i \in Ids : Keep(i) \/ Confirm(i)

BookSpec == BookInit /\ [][BookNext]_bookVars
=============================================================================
