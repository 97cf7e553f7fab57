------------------------------ MODULE MCBackend ------------------------------
EXTENDS Backend

Question(backend, type, n) == [backend |-> backend, type |-> type, n |-> n]

\* Each backend with each kind of question, and one of more options than letters.
EveryAsk ==
  {Question("openai", "choice", 2), Question("openai", "choice", 3),
   Question("openai", "score", 2), Question("openai", "noul", 2),
   Question("jev", "choice", 2), Question("jev", "choice", 3), Question("jev", "noul", 2)}

\* A not finite logprob, masses that fall short, add up, round over 1 and exceed it.
Masses == {-1, 0, 333, 600, 1000, 1001, 1002}

\* No header, an immediate retry, one wait within the cap and one past it; seven and thirteen seconds
\* wrap to a negative duration and to a short one.
SomeRetryAfters == {-1, 0, 1, 4, 7, 13}

\* At once, during the first wait, between or during the waits, and after them all.
SomeEnds == {0, 2, 12, 24}

\* The first letters, and 0 for a token that is no label.
Entries == [token : 0 .. 2, mass : Masses]

SomeOpenAIBodies == [cost : {0, 2}, top : SeqOf(Entries, 2)]

\* A key set with one too many, none, and the one of choice among two; a map that
\* sums to less than 1; a noul inside, at the edges and outside of 0 .. 1.
SomeJevBodies ==
  [cost : {0, 2}, type : QuestionTypes \cup {"absent"},
   probs : {<<>>, <<400, 600>>, <<400, 400>>, <<200, 300, 500>>},
   noul : {{}, {-1}, {0}, {300}, {1000}, {1001}}]
=============================================================================
