------------------------------- MODULE Backend -------------------------------
(***************************************************************************)
(* internal/backend: one Ask of the jev or the openai-logprobs backend,    *)
(* from the question to what internal/service is handed back.  The server  *)
(* and net/http are external: a request is sent only while the context is  *)
(* not done, and a done context ends a request or the reading of a reply.  *)
(*                                                                         *)
(* The clock, now, moves while Ask is blocked and not while it can run: on *)
(* the server, or in its select until the timer or the context is ready.   *)
(* ends is the moment the context is done (its deadline, or the caller     *)
(* left before), and any moment.                                           *)
(*                                                                         *)
(* Durations are in ticks of jevBaseBackoff and wrap at DurationBits, as   *)
(* an int64 does.  Probability masses are in units of 1/Unit, rounded down.*)
(***************************************************************************)
EXTENDS Answers, SequencesExt

CONSTANTS Asks,          \* questions: backend, type and number of options
          Ends,          \* when the context may be done, counted from the start of Ask
          RetryAfters,   \* what a Retry-After header parses to; -1 if it does not
          OpenAIBodies, JevBodies,  \* reply bodies that are JSON of the expected form
          MaxAttempts,   \* jevMaxAttempts
          RetryAfterCap, \* jevRetryAfterCap
          Second,        \* time.Second
          DurationBits,
          MaxLetterLabels, MinLabelMass,
          Rounding       \* maxLogprob and maxLabelMass allow this much over 1

Statuses == {"ok", "redirect", "slow", "refused"}  \* 2xx, 3xx, 429 and 529, 4xx and 5xx

\* One of top_logprobs: the letter's place or 0, and its mass, -1 if not finite.
Entry == [token : Nat, mass : Int]

OpenAIBody(b) == b.cost \in Nat /\ b.top \in Seq(Entry)
JevBody(b)    == b.cost \in Nat /\ b.type \in QuestionTypes \cup {"absent"} /\ b.noul \subseteq Int

ASSUME BackendAssumption ==
  /\ \A q \in Asks :
       q.backend \in {"jev", "openai"} /\ q.type \in QuestionTypes /\ ValidCriteria(q)
  /\ Ends \subseteq Nat /\ RetryAfters \subseteq Int
  /\ \A b \in OpenAIBodies : OpenAIBody(b)
  /\ \A b \in JevBodies : JevBody(b)
  /\ MaxAttempts \in Nat \ {0} /\ RetryAfterCap \in Nat /\ Second \in Nat \ {0}
  /\ DurationBits \in Nat \ {0} /\ MinLabelMass \in 1 .. Unit
  \* A unit so fine that rounding each label's down loses no more than Tolerance.
  /\ 1 <= Tolerance /\ MaxLetterLabels \in Nat /\ MaxLetterLabels - 1 <= Tolerance

VARIABLES
  ask,      \* the question
  step,     \* where Ask is
  attempt,  \* jev's loop counter; 1 for openai
  ends,     \* when ctx is done
  now,      \* the clock
  timer,    \* when the timer of the last wait fires
  replies,  \* the statuses received, oldest first
  after,    \* the Retry-After of the last reply, read when it is "slow"
  waited,   \* the sum of the waits between attempts
  billed,   \* the cost a reply read to its end and parsed has stated
  result    \* what Ask returned

vars == <<ask, step, attempt, ends, now, timer, replies, after, waited, billed, result>>

Steps == {"start", "sending", "sent", "reading", "waiting", "returned"}

Result(error, cost, probs) == [error |-> error, cost |-> cost, probs |-> probs]
Failure(error) == Result(error, 0, <<>>)

Init ==
  /\ ask \in Asks
  /\ step = "start" /\ attempt = 1
  /\ ends \in Ends /\ now = 0 /\ timer = 0
  /\ replies = <<>> /\ after = -1 /\ waited = 0 /\ billed = 0
  /\ result = Failure("none")

Done == now >= ends

Return(r) == step' = "returned" /\ result' = r

-----------------------------------------------------------------------------
(* openai-logprobs: from top_logprobs to a probability for each key.       *)

Finite(top) == {i \in DOMAIN top : top[i].mass >= 0}

Mass(top, letter) ==
  MapThenSumSet(LAMBDA i : top[i].mass, {i \in Finite(top) : top[i].token = letter})

LabelMass(q, top) == MapThenSumSet(LAMBDA l : Mass(top, l), DOMAIN Keys(q))

NotADistribution(q, top) ==
  \/ \E i \in Finite(top) : top[i].mass > Unit + Rounding
  \/ LabelMass(q, top) > Unit + Rounding

\* Mutant: the mass of a label is taken for its probability.
probabilitiesFor_raw(q, top) ==
  [k \in KeySet(q) |-> Mass(top, CHOOSE l \in DOMAIN Keys(q) : Keys(q)[l] = k)]

probabilitiesFor(q, top) ==
  LET total == LabelMass(q, top) IN
  [k \in KeySet(q) |->
     IF total = 0 THEN 0
     ELSE (Mass(top, CHOOSE l \in DOMAIN Keys(q) : Keys(q)[l] = k) * Unit) \div total]

\* Mutant: the reply is judged before its usage is read.
OpenAIAnswer_lateUsage(q, b) ==
  CASE b.top = <<>>                   -> Failure("no_logprobs")
    [] b.top # <<>> /\ NotADistribution(q, b.top) -> Failure("bad_logprobs")
    [] b.top # <<>> /\ ~NotADistribution(q, b.top) /\ LabelMass(q, b.top) < MinLabelMass
                                      -> Failure("label_mass_too_low")
    [] OTHER                          -> Result("ok", b.cost, probabilitiesFor(q, b.top))

OpenAIAnswer(q, b) ==
  CASE b.top = <<>>                   -> Result("no_logprobs", b.cost, <<>>)
    [] b.top # <<>> /\ NotADistribution(q, b.top) -> Result("bad_logprobs", b.cost, <<>>)
    [] b.top # <<>> /\ ~NotADistribution(q, b.top) /\ LabelMass(q, b.top) < MinLabelMass
                                      -> Result("label_mass_too_low", b.cost, <<>>)
    [] OTHER                          -> Result("ok", b.cost, probabilitiesFor(q, b.top))

-----------------------------------------------------------------------------
(* jev: answerFrom, and its usage, which only an answer carries.           *)

JevAnswer(q, b) ==
  LET noul == CHOOSE n \in b.noul : TRUE IN
  CASE b.type # q.type                              -> Failure("no_probabilities")
    [] b.type = q.type /\ q.type # "noul" ->
         IF DOMAIN b.probs = {} THEN Failure("no_probabilities")
         ELSE Result("ok", b.cost, b.probs)
    [] b.type = q.type /\ q.type = "noul" ->
         IF b.noul = {} THEN Failure("no_probabilities")
         ELSE IF noul \notin 0 .. Unit THEN Failure("bad_noul")
         ELSE Result("ok", b.cost, [k \in {0, 1} |-> IF k = 1 THEN noul ELSE Unit - noul])

Judged(q, b) == IF q.backend = "jev" THEN JevAnswer(q, b) ELSE OpenAIAnswer(q, b)

Unreadable(q) == Failure(IF q.backend = "jev" THEN "no_probabilities" ELSE "no_logprobs")

-----------------------------------------------------------------------------
(* jev: the wait before the next attempt.                                  *)

Doubled[n \in Nat] == IF n = 0 THEN 1 ELSE 2 * Doubled[n - 1]

Wrapped(x) ==
  LET range == Doubled[DurationBits] IN ((x + range \div 2) % range) - range \div 2

Backoff(n) == Doubled[n - 1]

Asked(n, secs) == IF secs >= 0 THEN Wrapped(secs * Second) ELSE Backoff(n)

\* Mutant: only the backoff is capped, not what the server asks for.
retryDelay_uncapped(n, secs) ==
  IF secs >= 0 THEN Wrapped(secs * Second)
  ELSE IF Backoff(n) > RetryAfterCap THEN RetryAfterCap ELSE Backoff(n)

retryDelay(n, secs) ==
  IF Asked(n, secs) > RetryAfterCap THEN RetryAfterCap ELSE Asked(n, secs)

-----------------------------------------------------------------------------
(* Ask. *)

TooManyOptions(q) == q.backend = "openai" /\ q.type # "noul" /\ q.n > MaxLetterLabels

Start ==
  /\ step = "start"
  /\ IF TooManyOptions(ask) THEN Return(Failure("too_many_options"))
     ELSE step' = "sending" /\ UNCHANGED result
  /\ UNCHANGED <<ask, attempt, ends, now, timer, replies, after, waited, billed>>

Send ==
  /\ step = "sending" /\ ~Done
  /\ step' = "sent"
  /\ UNCHANGED <<ask, attempt, ends, now, timer, replies, after, waited, billed, result>>

\* No connection, or the server is gone before it replied.
RequestFails ==
  /\ step \in {"sending", "sent"}
  /\ Return(Failure("request failed"))
  /\ UNCHANGED <<ask, attempt, ends, now, timer, replies, after, waited, billed>>

Reply(status, secs) ==
  /\ step = "sent"
  /\ step' = "reading"
  /\ replies' = Append(replies, status)
  /\ after' = secs
  /\ UNCHANGED <<ask, attempt, ends, now, timer, waited, billed, result>>

\* Mutant: an attempt too many.
TriesAgain_oneMore == ask.backend = "jev" /\ Last(replies) = "slow" /\ attempt <= MaxAttempts

TriesAgain == ask.backend = "jev" /\ Last(replies) = "slow" /\ attempt < MaxAttempts

\* A reply that is not 2xx: its body is read, whole or not, and is of no use.
ReadNoAnswer ==
  /\ step = "reading" /\ Last(replies) # "ok"
  /\ IF TriesAgain
     THEN /\ step' = "waiting"
          /\ LET delay == retryDelay(attempt, after)
                 wait  == IF delay > 0 THEN delay ELSE 0
             IN  waited' = waited + wait /\ timer' = now + wait
          /\ UNCHANGED result
     ELSE Return(Failure(Last(replies))) /\ UNCHANGED <<waited, timer>>
  /\ UNCHANGED <<ask, attempt, ends, now, replies, after, billed>>

ReadAnswer(b) ==
  /\ step = "reading" /\ Last(replies) = "ok"
  /\ billed' = b.cost
  /\ Return(Judged(ask, b))
  /\ UNCHANGED <<ask, attempt, ends, now, timer, replies, after, waited>>

\* Cut short, longer than maxResponseBytes, or not JSON of the expected form.
ReadGarbage ==
  /\ step = "reading" /\ Last(replies) = "ok"
  /\ Return(Unreadable(ask))
  /\ UNCHANGED <<ask, attempt, ends, now, timer, replies, after, waited, billed>>

\* Mutant: the wait is for the timer alone.
SelectReady_timerOnly == now >= timer

SelectReady == now >= timer \/ Done

\* Both enabled when both are ready: the select picks either.
Resume ==
  /\ step = "waiting" /\ now >= timer
  /\ step' = "sending" /\ attempt' = attempt + 1
  /\ UNCHANGED <<ask, ends, now, timer, replies, after, waited, billed, result>>

Abandon ==
  /\ step = "waiting" /\ SelectReady /\ Done
  /\ Return(Failure("ctx"))
  /\ UNCHANGED <<ask, attempt, ends, now, timer, replies, after, waited, billed>>

Tick ==
  /\ \/ step \in {"sending", "sent", "reading"} /\ ~Done
     \/ step = "waiting" /\ ~SelectReady
  /\ now' = now + 1
  /\ UNCHANGED <<ask, step, attempt, ends, timer, replies, after, waited, billed, result>>

\* Mutant: net/http is never told that the context is done.
Interrupted_never == FALSE /\ UNCHANGED vars

\* net/http, once the context is done: the request or the read in progress ends.
Interrupted == Done /\ (RequestFails \/ ReadNoAnswer \/ ReadGarbage)

Next ==
  \/ Start \/ Send \/ RequestFails
  \/ \E status \in Statuses \ {"slow"} : Reply(status, -1)
  \/ \E secs \in RetryAfters : Reply("slow", secs)
  \/ ReadNoAnswer \/ ReadGarbage
  \/ \E b \in IF ask.backend = "jev" THEN JevBodies ELSE OpenAIBodies : ReadAnswer(b)
  \/ Resume \/ Abandon
  \/ Tick

Spec == Init /\ [][Next]_vars

\* Go runs a goroutine that can run, time passes, and the context Ask is given has
\* a deadline (service.ask); the server owes nothing.
Fairness ==
  /\ WF_vars(Start) /\ WF_vars(Resume \/ Abandon)
  /\ WF_vars(Tick) /\ WF_vars(Interrupted)

FairSpec == Spec /\ Fairness

-----------------------------------------------------------------------------
\* The types of the state: an attempt is one of MaxAttempts, every reply but the
\* last asked to slow down ("retrying on 429 and 529 only"), a result has its
\* probabilities exactly when it is an answer.
TypeOK ==
  /\ ask \in Asks /\ step \in Steps /\ attempt \in 1 .. MaxAttempts
  /\ ends \in Ends /\ now \in Nat /\ timer \in Nat
  /\ replies \in Seq(Statuses) /\ after \in RetryAfters \cup {-1}
  /\ waited \in Nat /\ billed \in Nat
  /\ Len(replies) <= attempt
  /\ \A k \in 1 .. attempt - 1 : k \in DOMAIN replies /\ replies[k] = "slow"
  /\ (result.error = "ok") <=> (DOMAIN result.probs # {})
  /\ (step = "returned") <=> (result.error # "none")

\* "Neither an aggressive backoff schedule nor a server naming an absurd wait
\* can make this backend sit idle for long": one cap for each retry, in total.
IdleBounded == waited <= (MaxAttempts - 1) * RetryAfterCap

\* "The daily cap can only count what Ask hands back": nothing is reported that
\* was not billed, an answer reports what was billed for it, and openai-logprobs
\* reports it for an unusable reply as well.
UsageReported ==
  /\ result.cost <= billed
  /\ step = "returned" /\ (ask.backend = "openai" \/ result.error = "ok")
       => result.cost = billed

\* A distribution that a backend builds itself, from logprobs or from a noul
\* number, is one that service.validateProbabilities accepts, however little of
\* it the server meant: no reply is paid for and then refused for its form.
BuiltIsADistribution ==
  result.error = "ok" /\ (ask.backend = "openai" \/ ask.type = "noul")
    => validateProbabilities(result.probs, ask) = "ok"

\* "A retry is never made once it would cross ctx's own deadline": the waits before
\* an attempt that is made, however many and however long the server asked them to
\* be, fit in the life of the context; and a wait that does not fit ends with the
\* context, not with its timer.
NoRetryPastDeadline ==
  /\ step \in {"sending", "sent", "reading"} => waited <= ends
  /\ now <= ends

\* "Ask must respect ctx": it returns, whatever the server does or does not do.
BackendReturns == <>(step = "returned")
=============================================================================
