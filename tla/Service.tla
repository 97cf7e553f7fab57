------------------------------ MODULE Service ------------------------------
(***************************************************************************)
(* internal/service: one ask from the caller's request to its result, for  *)
(* as many handlers as the HTTP, MCP and proxy front ends run at once,     *)
(* with the hourly cap (Cap), the daily spend cap (UsdCap), the backend    *)
(* call under its timeout, the probability check, the ledger, the training *)
(* log and the journal.  Two handlers share only the caps and the failure  *)
(* counters, each under a lock of its own; a step of this model is what a  *)
(* handler does between two of those critical sections or blocking calls.  *)
(***************************************************************************)
EXTENDS Naturals, Sequences, FiniteSets

CONSTANTS Handlers,        \* asks in progress at the same time, at most
          AllowFreeform,   \* TYPRYX_ALLOW_FREEFORM
          HourLimit,       \* TYPRYX_MAX_CALLS_PER_HOUR; 0 disables the cap
          UsdLimit,        \* TYPRYX_MAX_USD_PER_DAY in cost units; 0: no cap
          Costs,           \* what one backend call may cost, 0 for unpriced
          MaxCost,         \* the most one call can cost
          Backend,         \* what a backend call may come back with, in Replies
          Requests,        \* the requests callers send, a subset of Request
          CallerDeadline,  \* whether callers may bring a deadline of their own
          MaxFaults        \* bound: no failure is chosen past this count

Request == [freeform : BOOLEAN,          \* AskRequest.Question # nil
            known : BOOLEAN,             \* template registered / question valid
            state : {"ok", "bad", "large"},
            agent : BOOLEAN]             \* the caller has an agent identity

BadReplies  == {"no_probabilities", "bad_probabilities"}
Replies     == BadReplies \cup {"good", "error", "named"}

ASSUME ServiceAssumption ==
  /\ IsFiniteSet(Handlers)
  /\ AllowFreeform \in BOOLEAN /\ CallerDeadline \in BOOLEAN
  /\ HourLimit \in Nat /\ UsdLimit \in Nat /\ MaxCost \in Nat /\ MaxFaults \in Nat
  /\ Costs \subseteq 0 .. MaxCost
  /\ Backend \subseteq Replies /\ Requests \subseteq Request

VARIABLES
  h,           \* h[a]: the ask handler a is serving
  used,        \* Cap.used
  windowOver,  \* an hour or more has passed since Cap.windowAt
  spent,       \* UsdCap.spent
  dayChanged,  \* the UTC day is not UsdCap.dayAt
  counters,    \* Service.ledgerFailures, trainingFailures, Journal.skipped, failed
  missing,     \* what finished asks lost: the lines and events never written
  windowCalls  \* backend calls begun since Cap.windowAt

caps == <<used, windowOver, windowCalls>>
usd  == <<spent, dayChanged>>
vars == <<h, caps, usd, counters, missing>>

Kinds == {"ledger", "training", "skipped", "failed"}

Steps == {"idle", "refusing", "take", "check", "calling", "charging", "settling",
          "ledger", "training", "journal", "return"}

GateReasons == {"freeform_disabled", "bad_question", "unknown_template",
                "bad_state", "state_too_large"}
CapReasons  == {"over_hourly_cap", "over_daily_spend_cap"}
Unanswered  == BadReplies \cup {"canceled", "timeout", "named", "backend_error"}
Reasons     == {"none"} \cup GateReasons \cup CapReasons \cup Unanswered
Types       == {"refused", "unanswered", "answer"}

Ask == [step : Steps, trainable : BOOLEAN, agent : BOOLEAN,
        gone : {"no", "hung up", "expired"}, late : BOOLEAN,
        reply : Replies \cup {"none"}, cost : 0 .. MaxCost, reason : Reasons,
        ledger : {"no", "yes", "lost"}, training : {"no", "yes", "lost"},
        events : Seq([type : Types, reason : Reasons,
                      fate : {"written", "skipped", "failed"}])]

NoAsk == [step |-> "idle", trainable |-> FALSE, agent |-> FALSE, gone |-> "no",
          late |-> FALSE, reply |-> "none", cost |-> 0, reason |-> "none",
          ledger |-> "no", training |-> "no", events |-> <<>>]

Init ==
  /\ h = [a \in Handlers |-> NoAsk]
  /\ used = 0 /\ windowOver = FALSE /\ windowCalls = 0
  /\ spent = 0 /\ dayChanged = FALSE
  /\ counters = [k \in Kinds |-> 0]
  /\ missing = [k \in Kinds |-> 0]

-----------------------------------------------------------------------------
(* askTemplate and askFreeform: everything that refuses before the caps. *)

FreeformRefused(r) == r.freeform /\ ~AllowFreeform

Passes(r) == ~FreeformRefused(r) /\ r.known /\ r.state = "ok"

\* The first check that fails; the order is the code's.
GateReason(r) ==
  CASE FreeformRefused(r)               -> "freeform_disabled"
    [] ~FreeformRefused(r) /\ ~r.known  ->
         IF r.freeform THEN "bad_question" ELSE "unknown_template"
    [] OTHER -> IF r.state = "bad" THEN "bad_state" ELSE "state_too_large"

Receive(a, r) ==
  /\ h[a].step = "idle"
  /\ r.agent \/ counters.skipped < MaxFaults
  /\ h' = [h EXCEPT ![a] =
       [NoAsk EXCEPT !.step = IF Passes(r) THEN "take" ELSE "refusing",
                     !.reason = IF Passes(r) THEN "none" ELSE GateReason(r),
                     !.trainable = ~r.freeform, !.agent = r.agent]]
  /\ UNCHANGED <<caps, usd, counters, missing>>

-----------------------------------------------------------------------------
(* Cap.take, then UsdCap.overLimit: two locks, so another handler may run  *)
(* between them.                                                           *)

Go(a, step)        == h' = [h EXCEPT ![a].step = step]
Refuse(a, reason)  == h' = [h EXCEPT ![a].step = "refusing", ![a].reason = reason]

\* Mutant: the window is full one call late.
Take_offByOne(a) ==
  LET now == IF windowOver THEN 0 ELSE used IN
  /\ h[a].step = "take"
  /\ windowOver' = FALSE /\ windowCalls' = IF windowOver THEN 0 ELSE windowCalls
  /\ IF now > HourLimit
     THEN used' = now /\ Refuse(a, "over_hourly_cap")
     ELSE used' = now + 1 /\ Go(a, "check")
  /\ UNCHANGED <<usd, counters, missing>>

Take(a) ==
  /\ h[a].step = "take"
  /\ \/ HourLimit = 0 /\ Go(a, "check") /\ UNCHANGED caps
     \/ /\ HourLimit > 0
        /\ windowOver' = FALSE
        /\ windowCalls' = IF windowOver THEN 0 ELSE windowCalls
        /\ LET now == IF windowOver THEN 0 ELSE used IN
           IF now >= HourLimit
           THEN used' = now /\ Refuse(a, "over_hourly_cap")
           ELSE used' = now + 1 /\ Go(a, "check")
  /\ UNCHANGED <<usd, counters, missing>>

\* rollLocked: the first touch on another UTC day starts from nothing spent.
SpentToday == IF dayChanged THEN 0 ELSE spent

CallBegins == windowCalls' = windowCalls + IF HourLimit > 0 THEN 1 ELSE 0

\* Mutant: refuses only once the limit is exceeded.
CheckSpend_exceeded(a) ==
  /\ h[a].step = "check"
  /\ spent' = SpentToday /\ dayChanged' = FALSE
  /\ IF SpentToday > UsdLimit
     THEN Refuse(a, "over_daily_spend_cap") /\ UNCHANGED windowCalls
     ELSE Go(a, "calling") /\ CallBegins
  /\ UNCHANGED <<used, windowOver, counters, missing>>

CheckSpend(a) ==
  /\ h[a].step = "check"
  /\ \/ UsdLimit = 0 /\ Go(a, "calling") /\ CallBegins /\ UNCHANGED usd
     \/ /\ UsdLimit > 0
        /\ spent' = SpentToday /\ dayChanged' = FALSE
        /\ IF SpentToday >= UsdLimit
           THEN Refuse(a, "over_daily_spend_cap") /\ UNCHANGED windowCalls
           ELSE Go(a, "calling") /\ CallBegins
  /\ UNCHANGED <<used, windowOver, counters, missing>>

-----------------------------------------------------------------------------
(* The backend call and what becomes of its reply. *)

BackendReplies(a, reply, cost) ==
  /\ h[a].step = "calling"
  /\ h' = [h EXCEPT ![a].step = "charging", ![a].reply = reply, ![a].cost = cost]
  /\ UNCHANGED <<caps, usd, counters, missing>>

\* UsdCap.add, after any reply, and a no-op for an unpriced one.
ChargeSpend(a) ==
  /\ h[a].step = "charging"
  /\ h' = [h EXCEPT ![a].step = "settling", ![a].cost = 0]
  /\ IF UsdLimit = 0 \/ h[a].cost = 0
     THEN UNCHANGED usd
     ELSE spent' = SpentToday + h[a].cost /\ dayChanged' = FALSE
  /\ UNCHANGED <<caps, counters, missing>>

\* Mutant: the backend's error is reported as it came.
ErrorReason_raw(ask) == ask.reply

\* The caller's own context first, then the service's deadline, then the
\* backend's own reason.
ErrorReason(ask) ==
  CASE ask.gone # "no"                                      -> "canceled"
    [] ask.gone = "no" /\ ask.late                          -> "timeout"
    [] ask.gone = "no" /\ ~ask.late /\ ask.reply = "named"  -> "named"
    [] OTHER                                                -> "backend_error"

Fates(a) == IF ~h[a].agent THEN {"skipped"}
            ELSE {"written"} \cup IF counters.failed < MaxFaults THEN {"failed"} ELSE {}

\* Journal.emit: an event with no agent is skipped, one that cannot be
\* written is dropped, and either is counted.
Emit(a, type, reason, then) ==
  \E fate \in Fates(a) :
    /\ h' = [h EXCEPT ![a].step = then, ![a].reason = reason, ![a].reply = "none",
         ![a].gone = "no", ![a].late = FALSE,
         ![a].events = Append(@, [type |-> type, reason |-> reason, fate |-> fate])]
    /\ counters' = [k \in Kinds |-> counters[k] + IF k = fate THEN 1 ELSE 0]

EmitRefused(a) ==
  /\ h[a].step = "refusing"
  /\ Emit(a, "refused", h[a].reason, "return")
  /\ UNCHANGED <<caps, usd, missing>>

UnansweredReason(ask) ==
  IF ask.reply \in BadReplies THEN ask.reply ELSE ErrorReason(ask)

\* Mutant: an unusable reply is recorded but goes on as an answer.
SettleUnanswered_goesOn(a) ==
  /\ h[a].step = "settling" /\ h[a].reply # "good"
  /\ Emit(a, "unanswered", UnansweredReason(h[a]), "ledger")
  /\ UNCHANGED <<caps, usd, missing>>

SettleUnanswered(a) ==
  /\ h[a].step = "settling" /\ h[a].reply # "good"
  /\ Emit(a, "unanswered", UnansweredReason(h[a]), "return")
  /\ UNCHANGED <<caps, usd, missing>>

SettleAnswer(a) ==
  /\ h[a].step = "settling" /\ h[a].reply = "good"
  /\ h' = [h EXCEPT ![a].step = "ledger", ![a].reply = "none",
                    ![a].gone = "no", ![a].late = FALSE]
  /\ UNCHANGED <<caps, usd, counters, missing>>

\* Mutant: the training line goes first.
PutAnswer_trainingFirst(a) ==
  /\ h[a].step = "ledger"
  /\ IF h[a].trainable /\ h[a].training = "no"
     THEN h' = [h EXCEPT ![a].training = "yes"]
     ELSE h' = [h EXCEPT ![a].step = "journal", ![a].ledger = "yes"]
  /\ UNCHANGED <<caps, usd, counters, missing>>

\* Ledger.PutAnswer; a failure is counted and the answer served all the same.
PutAnswer(a) ==
  /\ h[a].step = "ledger"
  /\ LET then == IF h[a].trainable THEN "training" ELSE "journal" IN
     \/ /\ h' = [h EXCEPT ![a].step = then, ![a].ledger = "yes"]
        /\ UNCHANGED counters
     \/ /\ counters.ledger < MaxFaults
        /\ h' = [h EXCEPT ![a].step = then, ![a].ledger = "lost"]
        /\ counters' = [counters EXCEPT !.ledger = @ + 1]
  /\ UNCHANGED <<caps, usd, missing>>

\* Mutant: the training log's error is dropped.
PutTraining_uncounted(a) ==
  /\ h[a].step = "training"
  /\ \E fate \in {"yes", "lost"} :
       h' = [h EXCEPT ![a].step = "journal", ![a].training = fate]
  /\ UNCHANGED <<caps, usd, counters, missing>>

PutTraining(a) ==
  /\ h[a].step = "training"
  /\ \/ /\ h' = [h EXCEPT ![a].step = "journal", ![a].training = "yes"]
        /\ UNCHANGED counters
     \/ /\ counters.training < MaxFaults
        /\ h' = [h EXCEPT ![a].step = "journal", ![a].training = "lost"]
        /\ counters' = [counters EXCEPT !.training = @ + 1]
  /\ UNCHANGED <<caps, usd, missing>>

EmitAnswer(a) ==
  /\ h[a].step = "journal"
  /\ Emit(a, "answer", "none", "return")
  /\ UNCHANGED <<caps, usd, missing>>

\* What a finished ask never put on record.
Lost(ask, k) ==
  CASE k = "ledger"   -> ask.ledger = "lost"
    [] k = "training" -> ask.training = "lost"
    [] OTHER          -> \E n \in DOMAIN ask.events : ask.events[n].fate = k

Return(a) ==
  /\ h[a].step = "return"
  /\ h' = [h EXCEPT ![a] = NoAsk]
  /\ missing' = [k \in Kinds |-> missing[k] + IF Lost(h[a], k) THEN 1 ELSE 0]
  /\ UNCHANGED <<caps, usd, counters>>

-----------------------------------------------------------------------------
(* The environment: callers hanging up, timers, and the clocks.            *)

\* The context is last read when the reply is settled.
CallerLeaves(a) ==
  /\ h[a].step \in {"take", "check", "calling", "charging", "settling"}
  /\ h[a].gone = "no"
  /\ \E how \in {"hung up"} \cup (IF CallerDeadline THEN {"expired"} ELSE {}) :
       h' = [h EXCEPT ![a].gone = how]
  /\ UNCHANGED <<caps, usd, counters, missing>>

\* Mutant: the backend is called under a context without a deadline.
DeadlineFires_never(a) == FALSE /\ UNCHANGED vars

DeadlineFires(a) ==
  /\ h[a].step \in {"calling", "charging", "settling"} /\ ~h[a].late
  /\ h' = [h EXCEPT ![a].late = TRUE]
  /\ UNCHANGED <<caps, usd, counters, missing>>

HourPasses ==
  /\ HourLimit > 0
  /\ windowOver' = TRUE
  /\ UNCHANGED <<h, used, windowCalls, usd, counters, missing>>

\* Midnight UTC, or a wall clock set back over one.
DayChanges ==
  /\ UsdLimit > 0
  /\ dayChanged' = ~dayChanged
  /\ UNCHANGED <<h, caps, spent, counters, missing>>

-----------------------------------------------------------------------------
Handler(a) ==
  \/ Take(a) \/ CheckSpend(a)
  \/ \E reply \in Backend, cost \in Costs : BackendReplies(a, reply, cost)
  \/ ChargeSpend(a) \/ SettleUnanswered(a) \/ SettleAnswer(a)
  \/ PutAnswer(a) \/ PutTraining(a) \/ EmitRefused(a) \/ EmitAnswer(a) \/ Return(a)

Next ==
  \/ \E a \in Handlers :
       \/ \E r \in Requests : Receive(a, r)
       \/ Handler(a)
       \/ CallerLeaves(a) \/ DeadlineFires(a)
  \/ HourPasses \/ DayChanges

Spec == Init /\ [][Next]_vars

\* Handlers run, timers fire, and a backend gives up once its context is done
\* (the http.Client of every backend is handed the context); nothing says it
\* answers before that.
FairSpec ==
  /\ Spec
  /\ \A a \in Handlers :
       /\ WF_vars(h[a].step # "calling" /\ Handler(a))
       /\ WF_vars((h[a].late \/ h[a].gone # "no") /\ Handler(a))
       /\ WF_vars(DeadlineFires(a))

-----------------------------------------------------------------------------
\* The types of the state: an ask carries one of the reasons the service can
\* give, whatever its backend said.
TypeOK ==
  /\ h \in [Handlers -> Ask]
  /\ used \in Nat /\ windowOver \in BOOLEAN /\ windowCalls \in Nat
  /\ spent \in Nat /\ dayChanged \in BOOLEAN
  /\ counters \in [Kinds -> Nat]
  /\ missing \in [Kinds -> Nat]

\* The daily cap, as the check-then-add code keeps it: whatever the handlers,
\* the days and the replies, spend stops below the limit plus one call's worth
\* for each handler that may have passed the check at the same time.
SpendBounded ==
  UsdLimit > 0 => spent <= UsdLimit - 1 + MaxCost * Cardinality(Handlers)

\* README, "Capped per day": "the day's actual spend can exceed the configured
\* limit by up to one call's worth".
OvershootAtMostOneCall == UsdLimit > 0 => spent <= UsdLimit + MaxCost

\* The hourly cap in backend calls rather than in take() calls: each of the
\* handlers other than the one that opens a window may carry a slot of the
\* last window into it, and no call more than that.
HourlyCallsBounded ==
  HourLimit > 0 => windowCalls <= HourLimit + Cardinality(Handlers) - 1

\* "Counted rather than silently dropped": the four counters an operator reads
\* at /healthz are, at every moment, exactly what finished asks failed to put
\* on record plus what the asks in progress already failed to.
CountersComplete ==
  \A k \in Kinds :
    counters[k] = missing[k] + Cardinality({a \in Handlers : Lost(h[a], k)})

ResultType(ask) == IF ask.reason = "none" THEN "answer"
                   ELSE IF ask.reason \in Unanswered THEN "unanswered" ELSE "refused"

\* Every ask emits exactly one event, of the kind and with the reason its
\* caller gets; only an answered one is on the ledger, and only an answered
\* templated one in the training log ("never a guess").
RecordMatchesResult ==
  \A a \in Handlers : h[a].step = "return" =>
    /\ Len(h[a].events) = 1
    /\ h[a].events[1].type = ResultType(h[a])
    /\ h[a].events[1].reason = h[a].reason
    /\ h[a].ledger # "no" <=> ResultType(h[a]) = "answer"
    /\ h[a].training # "no" <=> ResultType(h[a]) = "answer" /\ h[a].trainable

\* Every ask ends: TYPRYX_TIMEOUT bounds the backend and nothing else blocks.
AskReturns == \A a \in Handlers : h[a].step # "idle" ~> h[a].step = "idle"
=============================================================================
