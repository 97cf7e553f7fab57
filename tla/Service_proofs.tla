---------------------------- MODULE Service_proofs ----------------------------
(***************************************************************************)
(* Proofs about Service and the process it runs in (Lifetime): type        *)
(* correctness; what the daily spend cap and the hourly cap really promise *)
(* when several handlers are past a check; the record each ask leaves      *)
(* behind, and the counters of what it failed to leave; and that all of it *)
(* holds of a process that is stopped, killed and started again.           *)
(***************************************************************************)
EXTENDS Lifetime, FiniteSetTheorems, TLAPS

-----------------------------------------------------------------------------
(* Type correctness.                                                       *)

Event == [type : Types, reason : Reasons, fate : {"written", "skipped", "failed"}]

\* A handler that serves no ask has the type of one.
LEMMA NoAskType == NoAsk \in Ask
BY ServiceAssumption DEF NoAsk, Ask, Steps, Reasons

\* What rollLocked leaves as today's spend is a number.
LEMMA SpentTodayType == TypeOK => SpentToday \in Nat
BY DEF TypeOK, SpentToday

\* The service starts with idle handlers and nothing counted or spent.
LEMMA TypeInit == Init => TypeOK
<1> SUFFICES ASSUME Init PROVE TypeOK
  OBVIOUS
<1>1. h \in [Handlers -> Ask]
  BY NoAskType DEF Init
<1>2. windowOver \in BOOLEAN /\ dayChanged \in BOOLEAN
  BY Zenon DEF Init
<1>3. used \in Nat /\ windowCalls \in Nat /\ spent \in Nat
  BY DEF Init
<1>4. counters \in [Kinds -> Nat] /\ missing \in [Kinds -> Nat]
  BY DEF Init
<1> QED
  BY <1>1, <1>2, <1>3, <1>4 DEF TypeOK

\* An ask has a step: the field that every handler's guard reads.
LEMMA AskHasStep == ASSUME NEW ask \in Ask PROVE "step" \in DOMAIN ask
  BY Zenon DEF Ask

\* Emit appends one event and ends or continues the ask.
LEMMA EmitType ==
  ASSUME TypeOK, NEW a \in Handlers, NEW type \in Types, NEW reason \in Reasons,
         NEW then \in Steps, Emit(a, type, reason, then)
  PROVE  h' \in [Handlers -> Ask] /\ counters' \in [Kinds -> Nat]
<1>1. PICK fate \in Fates(a) :
        /\ h' = [h EXCEPT ![a].step = then, ![a].reason = reason, ![a].reply = "none",
             ![a].gone = "no", ![a].late = FALSE,
             ![a].events = Append(@, [type |-> type, reason |-> reason, fate |-> fate])]
        /\ counters' = [k \in Kinds |-> counters[k] + IF k = fate THEN 1 ELSE 0]
  BY DEF Emit
<1>2. h[a] \in Ask /\ h[a].events \in Seq(Event)
  BY DEF TypeOK, Ask, Event
<1>3. [type |-> type, reason |-> reason, fate |-> fate] \in Event
  BY DEF Fates, Event
<1>4. Append(h[a].events, [type |-> type, reason |-> reason, fate |-> fate]) \in Seq(Event)
  BY <1>2, <1>3
<1>5. h'[a] \in Ask
  <2>1. h'[a] = [h[a] EXCEPT !.step = then, !.reason = reason, !.reply = "none",
                   !.gone = "no", !.late = FALSE,
                   !.events = Append(@, [type |-> type, reason |-> reason, fate |-> fate])]
    BY <1>1 DEF TypeOK
  <2> QED
    BY <1>2, <1>4, <2>1, ZenonT(60) DEF Ask, Event
<1>6. h' \in [Handlers -> Ask]
  BY <1>1, <1>5 DEF TypeOK
<1>7. counters' \in [Kinds -> Nat]
  BY <1>1 DEF TypeOK
<1> QED
  BY <1>6, <1>7

\* The reasons errors and unusable replies get are among the service's own.
LEMMA ReasonTypes ==
  ASSUME NEW ask \in Ask
  PROVE  UnansweredReason(ask) \in Reasons
BY DEF UnansweredReason, ErrorReason, Reasons, Unanswered, BadReplies, Ask

\* Every step of a handler keeps the type invariant.
LEMMA TypeHandler ==
  ASSUME TypeOK, NEW a \in Handlers, Handler(a)
  PROVE  TypeOK'
<1> USE DEF caps, usd
<1>1. h[a] \in Ask /\ h \in [Handlers -> Ask]
  BY DEF TypeOK
<1>2. ASSUME NEW step \in Steps, Go(a, step) PROVE h' \in [Handlers -> Ask]
  BY <1>1, <1>2 DEF Go, Ask
<1>3. ASSUME NEW reason \in Reasons, Refuse(a, reason) PROVE h' \in [Handlers -> Ask]
  BY <1>1, <1>3 DEF Refuse, Ask, Steps
<1>4. CASE Take(a)
  <2>1. h' \in [Handlers -> Ask]
    BY <1>2, <1>3, <1>4 DEF Take, Steps, Reasons, CapReasons
  <2>2. windowOver' \in BOOLEAN
    <3>1. windowOver' = windowOver \/ windowOver' = FALSE
      BY <1>4, Zenon DEF Take
    <3> QED
      BY <3>1, Zenon DEF TypeOK
  <2>3. used' \in Nat /\ windowCalls' \in Nat
    BY <1>4 DEF Take, TypeOK
  <2>4. UNCHANGED <<spent, dayChanged, counters, missing>>
    BY <1>4 DEF Take
  <2> QED
    BY <2>1, <2>2, <2>3, <2>4 DEF TypeOK
<1>5. CASE CheckSpend(a)
  <2>1. h' \in [Handlers -> Ask]
    BY <1>2, <1>3, <1>5 DEF CheckSpend, Steps, Reasons, CapReasons
  <2>2. windowCalls' \in Nat
    BY <1>5 DEF CheckSpend, CallBegins, TypeOK
  <2> QED
    BY <1>5, <2>1, <2>2, SpentTodayType DEF CheckSpend, TypeOK
<1>6. ASSUME NEW reply \in Backend, NEW cost \in Costs, BackendReplies(a, reply, cost)
      PROVE  TypeOK'
  <2>1. reply \in Replies /\ cost \in 0 .. MaxCost
    BY ServiceAssumption
  <2>2. h' \in [Handlers -> Ask]
    BY <1>1, <1>6, <2>1 DEF BackendReplies, Ask, Steps
  <2> QED
    BY <1>6, <2>2 DEF BackendReplies, TypeOK
<1>7. CASE ChargeSpend(a)
  <2>1. 0 \in 0 .. MaxCost /\ "settling" \in Steps
    BY ServiceAssumption DEF Steps
  <2>2. h' \in [Handlers -> Ask]
    BY <1>1, <1>7, <2>1 DEF ChargeSpend, Ask
  <2>3. h[a].cost \in 0 .. MaxCost
    BY <1>1 DEF Ask
  <2>4. spent' \in Nat
    BY <1>7, <2>3, SpentTodayType, ServiceAssumption DEF ChargeSpend, TypeOK
  <2>5. dayChanged' \in BOOLEAN
    <3>1. dayChanged' = dayChanged \/ dayChanged' = FALSE
      BY <1>7, Zenon DEF ChargeSpend
    <3> QED
      BY <3>1, Zenon DEF TypeOK
  <2>6. UNCHANGED <<used, windowOver, windowCalls, counters, missing>>
    BY <1>7 DEF ChargeSpend
  <2> QED
    BY <2>2, <2>4, <2>5, <2>6 DEF TypeOK
<1>8. CASE SettleUnanswered(a)
  <2>1. h' \in [Handlers -> Ask] /\ counters' \in [Kinds -> Nat]
    BY <1>1, <1>8, ReasonTypes, EmitType DEF SettleUnanswered, Types, Steps
  <2> QED
    BY <1>8, <2>1 DEF SettleUnanswered, TypeOK
<1>9. CASE SettleAnswer(a)
  <2>1. h' \in [Handlers -> Ask]
    BY <1>1, <1>9 DEF SettleAnswer, Ask, Steps
  <2> QED
    BY <1>9, <2>1 DEF SettleAnswer, TypeOK
<1>10. CASE PutAnswer(a)
  <2>1. h' \in [Handlers -> Ask]
    <3>1. (IF h[a].trainable THEN "training" ELSE "journal") \in Steps
      BY DEF Steps
    <3>2. ASSUME NEW then \in Steps, NEW fate \in {"yes", "lost"},
                 h' = [h EXCEPT ![a].step = then, ![a].ledger = fate]
          PROVE  h' \in [Handlers -> Ask]
      BY <1>1, <3>2 DEF Ask
    <3> QED
      BY <1>10, <3>1, <3>2 DEF PutAnswer
  <2>2. counters' \in [Kinds -> Nat]
    BY <1>10 DEF PutAnswer, TypeOK, Kinds
  <2> QED
    BY <1>10, <2>1, <2>2 DEF PutAnswer, TypeOK
<1>11. CASE PutTraining(a)
  <2>1. h' \in [Handlers -> Ask]
    <3>1. "journal" \in Steps
      BY DEF Steps
    <3>2. ASSUME NEW fate \in {"yes", "lost"},
                 h' = [h EXCEPT ![a].step = "journal", ![a].training = fate]
          PROVE  h' \in [Handlers -> Ask]
      BY <1>1, <3>1, <3>2 DEF Ask
    <3> QED
      BY <1>11, <3>2 DEF PutTraining
  <2>2. counters' \in [Kinds -> Nat]
    BY <1>11 DEF PutTraining, TypeOK, Kinds
  <2> QED
    BY <1>11, <2>1, <2>2 DEF PutTraining, TypeOK
<1>12. CASE EmitRefused(a)
  <2>1. h' \in [Handlers -> Ask] /\ counters' \in [Kinds -> Nat]
    <3>1. h[a].reason \in Reasons
      BY <1>1 DEF Ask
    <3> QED
      BY <1>12, <3>1, EmitType DEF EmitRefused, Types, Steps
  <2> QED
    BY <1>12, <2>1 DEF EmitRefused, TypeOK
<1>13. CASE EmitAnswer(a)
  <2>1. h' \in [Handlers -> Ask] /\ counters' \in [Kinds -> Nat]
    BY <1>13, EmitType DEF EmitAnswer, Types, Steps, Reasons
  <2> QED
    BY <1>13, <2>1 DEF EmitAnswer, TypeOK
<1>14. CASE Return(a)
  <2>1. h' \in [Handlers -> Ask]
    BY <1>1, <1>14, NoAskType DEF Return
  <2>2. missing' \in [Kinds -> Nat]
    BY <1>14 DEF Return, TypeOK
  <2> QED
    BY <1>14, <2>1, <2>2 DEF Return, TypeOK
<1> QED
  BY <1>4, <1>5, <1>6, <1>7, <1>8, <1>9, <1>10, <1>11, <1>12, <1>13, <1>14 DEF Handler

\* Every step keeps the type invariant.
LEMMA TypeStep == TypeOK /\ [Next]_vars => TypeOK'
<1> SUFFICES ASSUME TypeOK, [Next]_vars PROVE TypeOK'
  OBVIOUS
<1> USE DEF caps, usd
<1>1. ASSUME NEW a \in Handlers, Handler(a) PROVE TypeOK'
  BY <1>1, TypeHandler
<1>2. ASSUME NEW a \in Handlers, NEW r \in Requests, Receive(a, r) PROVE TypeOK'
  <2>1. r \in Request /\ (IF Passes(r) THEN "take" ELSE "refusing") \in Steps
        /\ (IF Passes(r) THEN "none" ELSE GateReason(r)) \in Reasons
    BY ServiceAssumption DEF Steps, Reasons, GateReasons, GateReason
  <2>2. h' \in [Handlers -> Ask]
    BY <1>2, <2>1, NoAskType DEF Receive, TypeOK, Ask, Request, NoAsk
  <2> QED
    BY <1>2, <2>2 DEF Receive, TypeOK
<1>3. ASSUME NEW a \in Handlers, CallerLeaves(a) \/ DeadlineFires(a) PROVE TypeOK'
  <2>1. h' \in [Handlers -> Ask]
    <3>1. h \in [Handlers -> Ask]
      BY DEF TypeOK
    <3>2. ASSUME NEW how \in {"hung up", "expired"}, h' = [h EXCEPT ![a].gone = how]
          PROVE  h' \in [Handlers -> Ask]
      <4>1. how \in {"no", "hung up", "expired"} /\ h[a] \in Ask
        BY <3>1
      <4>2. [h[a] EXCEPT !.gone = how] \in Ask
        BY <4>1 DEF Ask
      <4>3. h' = [h EXCEPT ![a] = [h[a] EXCEPT !.gone = how]]
        BY <3>1, <3>2, <4>1
      <4> QED
        BY <3>1, <4>2, <4>3
    <3>3. ASSUME CallerLeaves(a)
          PROVE  \E how \in {"hung up", "expired"} : h' = [h EXCEPT ![a].gone = how]
      <4>1. PICK how \in {"hung up"} \cup (IF CallerDeadline THEN {"expired"} ELSE {}) :
              h' = [h EXCEPT ![a].gone = how]
        BY <3>3, Zenon DEF CallerLeaves
      <4> QED
        BY <4>1
    <3>4. ASSUME DeadlineFires(a) PROVE h' \in [Handlers -> Ask]
      <4>1. h' = [h EXCEPT ![a].late = TRUE] /\ TRUE \in BOOLEAN
        BY <3>4 DEF DeadlineFires
      <4>2. h[a] \in Ask
        BY <3>1
      <4>3. [h[a] EXCEPT !.late = TRUE] \in Ask
        BY <4>2 DEF Ask
      <4>4. h' = [h EXCEPT ![a] = [h[a] EXCEPT !.late = TRUE]]
        BY <3>1, <4>1, <4>2
      <4> QED
        BY <3>1, <4>3, <4>4
    <3> QED
      BY <1>3, <3>2, <3>3, <3>4
  <2> QED
    BY <1>3, <2>1 DEF CallerLeaves, DeadlineFires, TypeOK
<1>4. CASE HourPasses \/ DayChanges \/ UNCHANGED vars
  BY <1>4 DEF HourPasses, DayChanges, vars, TypeOK
<1> QED
  BY <1>1, <1>2, <1>3, <1>4 DEF Next

\* Every handler, cap and counter keeps its type under any number of handlers.
THEOREM TypeCorrect == Spec => []TypeOK
BY TypeInit, TypeStep, PTL DEF Spec

-----------------------------------------------------------------------------
(* The daily spend cap.  SpendBounded is not inductive: it forgets the      *)
(* calls under way.  SpendInv reserves MaxCost for each of them.            *)

InFlight == {a \in Handlers : h[a].step \in {"calling", "charging"}}

SpendInv ==
  UsdLimit > 0 =>
    spent + MaxCost * Cardinality(InFlight)
      <= UsdLimit - 1 + MaxCost * Cardinality(Handlers)

\* The handlers between the spend check and the charge are finitely many, and no
\* more than there are handlers.
LEMMA InFlightFinite ==
  /\ IsFiniteSet(InFlight)
  /\ Cardinality(InFlight) \in Nat
  /\ Cardinality(InFlight) <= Cardinality(Handlers)
  /\ Cardinality(Handlers) \in Nat
<1>1. IsFiniteSet(Handlers) /\ InFlight \subseteq Handlers
  BY ServiceAssumption DEF InFlight
<1> QED
  BY <1>1, FS_Subset, FS_CardinalityType

\* The product is monotone: what the arithmetic of the bound rests on.
LEMMA CostOfCalls ==
  ASSUME NEW m \in Nat, NEW n \in Nat, m <= n
  PROVE  /\ MaxCost * m \in Nat /\ MaxCost * m <= MaxCost * n
         /\ MaxCost * (m + 1) = MaxCost * m + MaxCost
BY ServiceAssumption

\* Nothing is spent and nothing is in flight at the start.
LEMMA SpendInit == Init => SpendInv
<1> SUFFICES ASSUME Init, UsdLimit > 0
             PROVE  spent + MaxCost * Cardinality(InFlight)
                      <= UsdLimit - 1 + MaxCost * Cardinality(Handlers)
  BY DEF SpendInv
<1>1. spent = 0 /\ UsdLimit - 1 \in Nat
  BY ServiceAssumption DEF Init
<1>2. MaxCost * Cardinality(InFlight) <= MaxCost * Cardinality(Handlers)
      /\ MaxCost * Cardinality(InFlight) \in Nat /\ MaxCost * Cardinality(Handlers) \in Nat
  BY InFlightFinite, CostOfCalls
<1> QED
  BY <1>1, <1>2

\* A step that begins no call and adds nothing to the day's spend.
LEMMA SpendKept ==
  ASSUME TypeOK, TypeOK', SpendInv, spent' <= spent, InFlight' \subseteq InFlight
  PROVE  SpendInv'
<1> SUFFICES ASSUME UsdLimit > 0
             PROVE  spent' + MaxCost * Cardinality(InFlight')
                      <= UsdLimit - 1 + MaxCost * Cardinality(Handlers)
  BY DEF SpendInv
<1> DEFINE m == Cardinality(InFlight')
           n == Cardinality(InFlight)
<1>1. IsFiniteSet(InFlight') /\ m \in Nat /\ n \in Nat /\ m <= n
  BY InFlightFinite, FS_Subset, FS_CardinalityType
<1>2. spent \in Nat /\ spent' \in Nat
  BY DEF TypeOK
<1>3. spent + MaxCost * n <= UsdLimit - 1 + MaxCost * Cardinality(Handlers)
  BY DEF SpendInv
<1> HIDE DEF m, n
<1>4. MaxCost * m \in Nat /\ MaxCost * n \in Nat /\ MaxCost * m <= MaxCost * n
  BY <1>1, CostOfCalls, ServiceAssumption
<1>5. UsdLimit \in Nat /\ MaxCost * Cardinality(Handlers) \in Nat
  BY InFlightFinite, CostOfCalls, ServiceAssumption
<1>6. spent' + MaxCost * m <= UsdLimit - 1 + MaxCost * Cardinality(Handlers)
  BY <1>2, <1>3, <1>4, <1>5
<1> QED
  BY <1>6 DEF m

\* The check: below the limit, whatever else is under way.
LEMMA SpendCheck ==
  ASSUME TypeOK, TypeOK', SpendInv, NEW a \in Handlers, CheckSpend(a)
  PROVE  SpendInv'
<1> SUFFICES ASSUME UsdLimit > 0
             PROVE  SpendInv'
  BY DEF SpendInv
<1>1. spent' = SpentToday
  BY ServiceAssumption DEF CheckSpend
<1>2. SpentToday \in Nat /\ SpentToday <= spent
  BY DEF SpentToday, TypeOK
<1>3. CASE SpentToday >= UsdLimit
  <2>1. h' = [h EXCEPT ![a].step = "refusing", ![a].reason = "over_daily_spend_cap"]
    BY <1>3, ServiceAssumption DEF CheckSpend, Refuse
  <2>2. InFlight' \subseteq InFlight
    BY <2>1 DEF InFlight, TypeOK, Ask
  <2> QED
    BY <1>1, <1>2, <2>2, SpendKept
<1>4. CASE ~(SpentToday >= UsdLimit)
  <2>1. spent' <= UsdLimit - 1 /\ spent' \in Nat /\ UsdLimit \in Nat
    BY <1>1, <1>2, <1>4, ServiceAssumption
  <2> DEFINE m == Cardinality(InFlight')
  <2>2. InFlight' \subseteq Handlers
    BY DEF InFlight
  <2>3. m \in Nat /\ m <= Cardinality(Handlers) /\ Cardinality(Handlers) \in Nat
    BY <2>2, FS_Subset, FS_CardinalityType, ServiceAssumption
  <2> HIDE DEF m
  <2>4. MaxCost * m \in Nat /\ MaxCost * Cardinality(Handlers) \in Nat
        /\ MaxCost * m <= MaxCost * Cardinality(Handlers)
    BY <2>3, CostOfCalls, ServiceAssumption
  <2>5. spent' + MaxCost * m <= UsdLimit - 1 + MaxCost * Cardinality(Handlers)
    BY <2>1, <2>4
  <2> QED
    BY <2>5 DEF SpendInv, m
<1> QED
  BY <1>3, <1>4

\* The charge: a call leaves InFlight and its cost joins the spend.
LEMMA SpendCharge ==
  ASSUME TypeOK, TypeOK', SpendInv, NEW a \in Handlers, ChargeSpend(a)
  PROVE  SpendInv'
<1> SUFFICES ASSUME UsdLimit > 0 PROVE SpendInv'
  BY DEF SpendInv
<1>1. h[a].step = "charging" /\ h' = [h EXCEPT ![a].step = "settling", ![a].cost = 0]
  BY DEF ChargeSpend
<1>2. InFlight' = InFlight \ {a} /\ a \in InFlight
  <2>1. h'[a].step = "settling"
    <3>1. "step" \in DOMAIN h[a]
      BY AskHasStep DEF TypeOK
    <3>2. h'[a] = [h[a] EXCEPT !.step = "settling", !.cost = 0]
      BY <1>1 DEF TypeOK
    <3> QED
      BY <3>1, <3>2
  <2>2. \A b \in Handlers \ {a} : h'[b] = h[b]
    BY <1>1 DEF TypeOK
  <2> QED
    BY <1>1, <2>1, <2>2 DEF InFlight
<1> DEFINE m == Cardinality(InFlight')
           n == Cardinality(InFlight)
<1>3. m \in Nat /\ n = m + 1
  <2>1. IsFiniteSet(InFlight) /\ IsFiniteSet(InFlight \ {a})
    BY InFlightFinite, FS_RemoveElement
  <2>2. Cardinality(InFlight \ {a}) = Cardinality(InFlight) - 1
    BY <1>2, <2>1, FS_RemoveElement
  <2>3. Cardinality(InFlight) \in Nat /\ Cardinality(InFlight \ {a}) \in Nat
    BY <2>1, FS_CardinalityType
  <2>4. m = Cardinality(InFlight \ {a})
    BY <1>2
  <2> QED
    BY <2>2, <2>3, <2>4
<1>4. h[a].cost \in 0 .. MaxCost
  BY DEF TypeOK, Ask
<1>5. SpentToday \in Nat /\ SpentToday <= spent /\ spent \in Nat
  BY DEF SpentToday, TypeOK
<1>6. spent' <= spent + MaxCost /\ spent' \in Nat
  <2>1. spent' = spent \/ spent' = SpentToday + h[a].cost
    BY DEF ChargeSpend, usd
  <2>2. MaxCost \in Nat /\ h[a].cost \in Nat /\ h[a].cost <= MaxCost
    BY <1>4, ServiceAssumption
  <2> QED
    BY <1>5, <2>1, <2>2
<1>7. spent + MaxCost * n <= UsdLimit - 1 + MaxCost * Cardinality(Handlers)
  BY DEF SpendInv
<1> HIDE DEF m, n
<1>8. MaxCost * m \in Nat /\ MaxCost * n = MaxCost * m + MaxCost /\ MaxCost \in Nat
  BY <1>3, CostOfCalls, ServiceAssumption
<1>9. UsdLimit \in Nat /\ MaxCost * Cardinality(Handlers) \in Nat
  BY InFlightFinite, CostOfCalls, ServiceAssumption
<1>10. spent' + MaxCost * m <= UsdLimit - 1 + MaxCost * Cardinality(Handlers)
  BY <1>5, <1>6, <1>7, <1>8, <1>9
<1> QED
  BY <1>10 DEF SpendInv, m

\* A step of a handler that neither checks nor charges.
LEMMA SpendOther ==
  ASSUME TypeOK, NEW a \in Handlers, Handler(a), ~CheckSpend(a), ~ChargeSpend(a)
  PROVE  spent' = spent /\ InFlight' \subseteq InFlight
<1> USE DEF caps, usd
<1>1. h \in [Handlers -> Ask] /\ h[a] \in Ask
  BY DEF TypeOK
<1>2. ASSUME NEW step, step \notin {"calling", "charging"}, h'[a].step = step,
             \A b \in Handlers \ {a} : h'[b] = h[b]
      PROVE  InFlight' \subseteq InFlight
  BY <1>2 DEF InFlight
<1>3. CASE Take(a)
  <2>1. spent' = spent
    BY <1>3 DEF Take
  <2>2. Go(a, "check") \/ Refuse(a, "over_hourly_cap")
    BY <1>3 DEF Take
  <2>3. CASE Go(a, "check")
    <3>1. h'[a].step = "check" /\ \A b \in Handlers \ {a} : h'[b] = h[b]
      BY <1>1, <2>3 DEF Go, Ask
    <3> QED
      BY <1>2, <2>1, <3>1
  <2>4. CASE Refuse(a, "over_hourly_cap")
    <3>1. h'[a].step = "refusing" /\ \A b \in Handlers \ {a} : h'[b] = h[b]
      BY <1>1, <2>4 DEF Refuse, Ask
    <3> QED
      BY <1>2, <2>1, <3>1
  <2> QED
    BY <2>2, <2>3, <2>4
<1>4. ASSUME NEW reply \in Backend, NEW cost \in Costs, BackendReplies(a, reply, cost)
      PROVE  spent' = spent /\ InFlight' \subseteq InFlight
  <2>1. h[a].step = "calling" /\ \A b \in Handlers \ {a} : h'[b] = h[b]
    BY <1>1, <1>4 DEF BackendReplies
  <2> QED
    BY <1>4, <2>1 DEF BackendReplies, InFlight
<1>5. ASSUME NEW type, NEW reason, NEW then \in {"return", "ledger"},
             Emit(a, type, reason, then)
      PROVE  InFlight' \subseteq InFlight
  <2>1. h'[a].step = then /\ \A b \in Handlers \ {a} : h'[b] = h[b]
    <3>1. PICK fate \in Fates(a) :
            h' = [h EXCEPT ![a].step = then, ![a].reason = reason, ![a].reply = "none",
              ![a].gone = "no", ![a].late = FALSE,
              ![a].events = Append(@, [type |-> type, reason |-> reason, fate |-> fate])]
      BY <1>5 DEF Emit
    <3> QED
      BY <1>1, <3>1 DEF Ask
  <2> QED
    BY <1>2, <2>1
<1>6. CASE SettleUnanswered(a) \/ EmitRefused(a) \/ EmitAnswer(a)
  BY <1>5, <1>6 DEF SettleUnanswered, EmitRefused, EmitAnswer
<1>7. CASE SettleAnswer(a)
  <2>1. h'[a].step = "ledger" /\ \A b \in Handlers \ {a} : h'[b] = h[b]
    BY <1>1, <1>7 DEF SettleAnswer, Ask
  <2> QED
    BY <1>2, <1>7, <2>1 DEF SettleAnswer
<1>8. CASE PutAnswer(a)
  <2> DEFINE then == IF h[a].trainable THEN "training" ELSE "journal"
  <2>1. then \in {"training", "journal"}
    OBVIOUS
  <2>2. PICK fate \in {"yes", "lost"} :
          h' = [h EXCEPT ![a].step = then, ![a].ledger = fate]
    BY <1>8 DEF PutAnswer
  <2> HIDE DEF then
  <2>3. h'[a].step = then /\ \A b \in Handlers \ {a} : h'[b] = h[b]
    BY <1>1, <2>2 DEF Ask
  <2> QED
    BY <1>2, <1>8, <2>1, <2>3 DEF PutAnswer
<1>9. CASE PutTraining(a)
  <2>1. h'[a].step = "journal" /\ \A b \in Handlers \ {a} : h'[b] = h[b]
    <3>1. PICK fate \in {"yes", "lost"} :
            h' = [h EXCEPT ![a].step = "journal", ![a].training = fate]
      BY <1>9 DEF PutTraining
    <3> QED
      BY <1>1, <3>1 DEF Ask
  <2> QED
    BY <1>2, <1>9, <2>1 DEF PutTraining
<1>10. CASE Return(a)
  <2>1. h'[a].step = "idle" /\ \A b \in Handlers \ {a} : h'[b] = h[b]
    BY <1>1, <1>10 DEF Return, NoAsk
  <2> QED
    BY <1>2, <1>10, <2>1 DEF Return
<1> QED
  BY <1>3, <1>4, <1>6, <1>7, <1>8, <1>9, <1>10 DEF Handler

\* Every step keeps the spend invariant: a charge of at most MaxCost takes its
\* handler out of flight, and a handler goes in flight only below the limit.
LEMMA SpendStep == TypeOK /\ TypeOK' /\ SpendInv /\ [Next]_vars => SpendInv'
<1> SUFFICES ASSUME TypeOK, TypeOK', SpendInv, [Next]_vars PROVE SpendInv'
  OBVIOUS
<1> USE DEF caps, usd
<1>1. h \in [Handlers -> Ask] /\ spent \in Nat
  BY DEF TypeOK
<1>2. ASSUME spent' = spent /\ InFlight' \subseteq InFlight PROVE SpendInv'
  BY <1>1, <1>2, SpendKept
<1>3. ASSUME NEW a \in Handlers, Handler(a) PROVE SpendInv'
  BY <1>2, <1>3, SpendCheck, SpendCharge, SpendOther
<1>4. ASSUME NEW a \in Handlers, NEW r \in Requests, Receive(a, r) PROVE SpendInv'
  <2>1. h'[a].step \in {"take", "refusing"} /\ \A b \in Handlers \ {a} : h'[b] = h[b]
    <3>1. /\ h'[a] = [NoAsk EXCEPT !.step = IF Passes(r) THEN "take" ELSE "refusing",
                          !.reason = IF Passes(r) THEN "none" ELSE GateReason(r),
                          !.trainable = ~r.freeform, !.agent = r.agent]
          /\ \A b \in Handlers \ {a} : h'[b] = h[b]
      BY <1>1, <1>4 DEF Receive
    <3>2. h'[a].step = IF Passes(r) THEN "take" ELSE "refusing"
      BY <3>1 DEF NoAsk
    <3> QED
      BY <3>1, <3>2
  <2>2. InFlight' \subseteq InFlight
    BY <2>1 DEF InFlight
  <2> QED
    BY <1>2, <1>4, <2>2 DEF Receive
<1>5. ASSUME NEW a \in Handlers, CallerLeaves(a) \/ DeadlineFires(a) PROVE SpendInv'
  <2>1. \A b \in Handlers : h'[b].step = h[b].step
    BY <1>1, <1>5, ZenonT(60) DEF CallerLeaves, DeadlineFires, Ask
  <2>2. InFlight' \subseteq InFlight
    BY <2>1 DEF InFlight
  <2> QED
    BY <1>2, <1>5, <2>2 DEF CallerLeaves, DeadlineFires
<1>6. CASE HourPasses \/ DayChanges \/ UNCHANGED vars
  <2>1. spent' = spent /\ h' = h
    BY <1>6 DEF HourPasses, DayChanges, vars
  <2> QED
    BY <1>2, <2>1 DEF InFlight
<1> QED
  BY <1>3, <1>4, <1>5, <1>6 DEF Next

\* The spend invariant bounds the spend as SpendBounded says.
LEMMA SpendInvBounds == TypeOK /\ SpendInv => SpendBounded
<1> SUFFICES ASSUME TypeOK, SpendInv, UsdLimit > 0
             PROVE  spent <= UsdLimit - 1 + MaxCost * Cardinality(Handlers)
  BY DEF SpendBounded
<1> DEFINE n == Cardinality(InFlight)
<1>1. spent + MaxCost * n <= UsdLimit - 1 + MaxCost * Cardinality(Handlers)
  BY DEF SpendInv
<1>2. MaxCost * n \in Nat /\ MaxCost * Cardinality(Handlers) \in Nat
  BY InFlightFinite, CostOfCalls
<1> HIDE DEF n
<1>3. spent \in Nat /\ UsdLimit \in Nat
  BY ServiceAssumption DEF TypeOK
<1> QED
  BY <1>1, <1>2, <1>3

\* The day's spend stays below the limit plus one call's worth per handler,
\* for any number of handlers, any limit and any costs up to MaxCost.
THEOREM DailySpend == Spec => []SpendBounded
<1>1. Spec => []TypeOK
  BY TypeCorrect
<1>2. Init => SpendInv
  BY SpendInit
<1>3. TypeOK /\ TypeOK' /\ SpendInv /\ [Next]_vars => SpendInv'
  BY SpendStep
<1>4. TypeOK /\ SpendInv => SpendBounded
  BY SpendInvBounds
<1> QED
  BY <1>1, <1>2, <1>3, <1>4, PTL DEF Spec

-----------------------------------------------------------------------------
(* What a step of a handler does, field by field.                          *)

Others(a) == \A b \in Handlers \ {a} : h'[b] = h[b]

Kept(new, old) ==
  /\ new.trainable = old.trainable
  /\ new.ledger = old.ledger /\ new.training = old.training /\ new.events = old.events

\* On towards an answer, with nothing recorded yet.
Moves(a) ==
  /\ <<h[a].step, h'[a].step>> \in
       {<<"take", "check">>, <<"check", "calling">>, <<"calling", "charging">>,
        <<"charging", "settling">>, <<"settling", "ledger">>}
  /\ h'[a].reason = h[a].reason /\ Kept(h'[a], h[a])
  /\ UNCHANGED <<counters, missing>>

IsRefused(a) ==
  /\ h[a].step \in {"take", "check"} /\ h'[a].step = "refusing"
  /\ h'[a].reason \in CapReasons /\ Kept(h'[a], h[a])
  /\ UNCHANGED <<counters, missing>>

Records(a) ==
  /\ h[a].step \in {"ledger", "training"}
  /\ h'[a].reason = h[a].reason /\ h'[a].trainable = h[a].trainable
  /\ h'[a].events = h[a].events
  /\ IF h[a].step = "ledger"
     THEN /\ h'[a].step = IF h[a].trainable THEN "training" ELSE "journal"
          /\ h'[a].ledger \in {"yes", "lost"} /\ h'[a].training = h[a].training
     ELSE /\ h'[a].step = "journal"
          /\ h'[a].training \in {"yes", "lost"} /\ h'[a].ledger = h[a].ledger
  /\ counters' = [k \in Kinds |-> counters[k] +
       IF \/ k = "ledger" /\ h[a].step = "ledger" /\ h'[a].ledger = "lost"
          \/ k = "training" /\ h[a].step = "training" /\ h'[a].training = "lost"
       THEN 1 ELSE 0]
  /\ missing' = missing

Emits(a, type) ==
  /\ h'[a].step = "return"
  /\ h'[a].trainable = h[a].trainable
  /\ h'[a].ledger = h[a].ledger /\ h'[a].training = h[a].training
  /\ \E fate \in {"written", "skipped", "failed"} :
       /\ h'[a].events =
            Append(h[a].events, [type |-> type, reason |-> h'[a].reason, fate |-> fate])
       /\ counters' = [k \in Kinds |-> counters[k] + IF k = fate THEN 1 ELSE 0]
  /\ missing' = missing

Finishes(a) ==
  \/ h[a].step = "refusing" /\ Emits(a, "refused") /\ h'[a].reason = h[a].reason
  \/ h[a].step = "settling" /\ Emits(a, "unanswered") /\ h'[a].reason \in Unanswered
  \/ h[a].step = "journal" /\ Emits(a, "answer") /\ h'[a].reason = "none"

Effect(a) ==
  Moves(a) \/ IsRefused(a) \/ Records(a) \/ Finishes(a) \/ Return(a)

\* Whatever the backend sent, an ask it did not answer has a reason that says so.
LEMMA UnansweredReasons ==
  ASSUME NEW ask \in Ask
  PROVE  UnansweredReason(ask) \in Unanswered
BY DEF UnansweredReason, ErrorReason, Unanswered, BadReplies, Ask

\* Emit, field by field.
LEMMA EmitEffect ==
  ASSUME TypeOK, NEW a \in Handlers, NEW type, NEW reason,
         Emit(a, type, reason, "return"), missing' = missing
  PROVE  Others(a) /\ Emits(a, type) /\ h'[a].reason = reason
<1>1. h \in [Handlers -> Ask] /\ h[a] \in Ask
  BY DEF TypeOK
<1>2. PICK fate \in Fates(a) :
        /\ h' = [h EXCEPT ![a].step = "return", ![a].reason = reason, ![a].reply = "none",
             ![a].gone = "no", ![a].late = FALSE,
             ![a].events = Append(@, [type |-> type, reason |-> reason, fate |-> fate])]
        /\ counters' = [k \in Kinds |-> counters[k] + IF k = fate THEN 1 ELSE 0]
  BY DEF Emit
<1>3. fate \in {"written", "skipped", "failed"}
  BY DEF Fates
<1>4. Others(a)
  BY <1>1, <1>2 DEF Others
<1>5. /\ h'[a].step = "return" /\ h'[a].reason = reason
      /\ h'[a].trainable = h[a].trainable
      /\ h'[a].ledger = h[a].ledger /\ h'[a].training = h[a].training
  BY <1>1, <1>2 DEF Ask
<1>6. h'[a].events = Append(h[a].events, [type |-> type, reason |-> reason, fate |-> fate])
  BY <1>1, <1>2 DEF Ask
<1> QED
  BY <1>2, <1>3, <1>4, <1>5, <1>6 DEF Emits

\* Every step of a handler is one of the five, and touches no other's ask.
LEMMA HandlerEffect ==
  ASSUME TypeOK, NEW a \in Handlers, Handler(a)
  PROVE  Others(a) /\ Effect(a)
<1> USE DEF caps, usd
<1>1. h \in [Handlers -> Ask] /\ h[a] \in Ask
  BY DEF TypeOK
<1>2. ASSUME NEW step, Go(a, step)
      PROVE  /\ Others(a) /\ h'[a].step = step
             /\ h'[a].reason = h[a].reason /\ Kept(h'[a], h[a])
  BY <1>1, <1>2 DEF Go, Ask, Others, Kept
<1>3. ASSUME NEW reason, Refuse(a, reason)
      PROVE  /\ Others(a) /\ h'[a].step = "refusing"
             /\ h'[a].reason = reason /\ Kept(h'[a], h[a])
  BY <1>1, <1>3 DEF Refuse, Ask, Others, Kept
<1>4. CASE Take(a)
  <2>1. Go(a, "check") \/ Refuse(a, "over_hourly_cap")
    BY <1>4 DEF Take
  <2>2. h[a].step = "take" /\ UNCHANGED <<counters, missing>>
    BY <1>4 DEF Take
  <2>3. CASE Go(a, "check")
    BY <1>2, <2>2, <2>3 DEF Effect, Moves
  <2>4. CASE Refuse(a, "over_hourly_cap")
    BY <1>3, <2>2, <2>4 DEF Effect, IsRefused, CapReasons
  <2> QED
    BY <2>1, <2>3, <2>4
<1>5. CASE CheckSpend(a)
  <2>1. Go(a, "calling") \/ Refuse(a, "over_daily_spend_cap")
    BY <1>5 DEF CheckSpend
  <2>2. h[a].step = "check" /\ UNCHANGED <<counters, missing>>
    BY <1>5 DEF CheckSpend
  <2>3. CASE Go(a, "calling")
    BY <1>2, <2>2, <2>3 DEF Effect, Moves
  <2>4. CASE Refuse(a, "over_daily_spend_cap")
    BY <1>3, <2>2, <2>4 DEF Effect, IsRefused, CapReasons
  <2> QED
    BY <2>1, <2>3, <2>4
<1>6. ASSUME NEW reply \in Backend, NEW cost \in Costs, BackendReplies(a, reply, cost)
      PROVE  Others(a) /\ Effect(a)
  <2>1. /\ Others(a) /\ h'[a].step = "charging"
        /\ h'[a].reason = h[a].reason /\ Kept(h'[a], h[a])
    BY <1>1, <1>6 DEF BackendReplies, Ask, Others, Kept
  <2> QED
    BY <1>6, <2>1 DEF BackendReplies, Effect, Moves
<1>7. CASE ChargeSpend(a)
  <2>1. /\ Others(a) /\ h'[a].step = "settling"
        /\ h'[a].reason = h[a].reason /\ Kept(h'[a], h[a])
    BY <1>1, <1>7 DEF ChargeSpend, Ask, Others, Kept
  <2> QED
    BY <1>7, <2>1 DEF ChargeSpend, Effect, Moves
<1>8. CASE SettleUnanswered(a)
  BY <1>1, <1>8, EmitEffect, UnansweredReasons
  DEF SettleUnanswered, Effect, Finishes
<1>9. CASE SettleAnswer(a)
  <2>1. /\ Others(a) /\ h'[a].step = "ledger"
        /\ h'[a].reason = h[a].reason /\ Kept(h'[a], h[a])
    BY <1>1, <1>9 DEF SettleAnswer, Ask, Others, Kept
  <2> QED
    BY <1>9, <2>1 DEF SettleAnswer, Effect, Moves
<1>10. CASE PutAnswer(a)
  <2> DEFINE then == IF h[a].trainable THEN "training" ELSE "journal"
  <2>1. h[a].step = "ledger" /\ missing' = missing
    BY <1>10 DEF PutAnswer
  <2>2. PICK fate \in {"yes", "lost"} :
          /\ h' = [h EXCEPT ![a].step = then, ![a].ledger = fate]
          /\ \/ fate = "yes" /\ counters' = counters
             \/ fate = "lost" /\ counters' = [counters EXCEPT !.ledger = @ + 1]
    BY <1>10 DEF PutAnswer
  <2>3. counters' = [k \in Kinds |-> counters[k] +
          IF \/ k = "ledger" /\ h[a].step = "ledger" /\ fate = "lost"
             \/ k = "training" /\ h[a].step = "training" /\ h'[a].training = "lost"
          THEN 1 ELSE 0]
    BY <2>1, <2>2 DEF TypeOK, Kinds
  <2> HIDE DEF then
  <2>4. /\ Others(a) /\ h'[a].step = then /\ h'[a].ledger = fate
        /\ h'[a].reason = h[a].reason /\ h'[a].trainable = h[a].trainable
        /\ h'[a].events = h[a].events /\ h'[a].training = h[a].training
    BY <1>1, <2>2 DEF Ask, Others
  <2> QED
    BY <2>1, <2>3, <2>4 DEF Effect, Records, then
<1>11. CASE PutTraining(a)
  <2>1. h[a].step = "training" /\ missing' = missing
    BY <1>11 DEF PutTraining
  <2>2. PICK fate \in {"yes", "lost"} :
          /\ h' = [h EXCEPT ![a].step = "journal", ![a].training = fate]
          /\ \/ fate = "yes" /\ counters' = counters
             \/ fate = "lost" /\ counters' = [counters EXCEPT !.training = @ + 1]
    BY <1>11 DEF PutTraining
  <2>3. counters' = [k \in Kinds |-> counters[k] +
          IF \/ k = "ledger" /\ h[a].step = "ledger" /\ h'[a].ledger = "lost"
             \/ k = "training" /\ h[a].step = "training" /\ fate = "lost"
          THEN 1 ELSE 0]
    BY <2>1, <2>2 DEF TypeOK, Kinds
  <2>4. /\ Others(a) /\ h'[a].step = "journal" /\ h'[a].training = fate
        /\ h'[a].reason = h[a].reason /\ h'[a].trainable = h[a].trainable
        /\ h'[a].events = h[a].events /\ h'[a].ledger = h[a].ledger
    BY <1>1, <2>2 DEF Ask, Others
  <2> QED
    BY <2>1, <2>3, <2>4 DEF Effect, Records
<1>12. CASE EmitRefused(a)
  BY <1>12, EmitEffect DEF EmitRefused, Effect, Finishes
<1>13. CASE EmitAnswer(a)
  BY <1>13, EmitEffect DEF EmitAnswer, Effect, Finishes
<1>14. CASE Return(a)
  BY <1>1, <1>14 DEF Return, Effect, Others
<1> QED
  BY <1>4, <1>5, <1>6, <1>7, <1>8, <1>9, <1>10, <1>11, <1>12, <1>13, <1>14 DEF Handler

\* The caller's and the timer's steps touch one ask, and neither its step nor
\* its record.
LEMMA EnvironmentEffect ==
  ASSUME TypeOK, NEW a \in Handlers, CallerLeaves(a) \/ DeadlineFires(a)
  PROVE  /\ Others(a) /\ h'[a].step = h[a].step /\ h'[a].reason = h[a].reason
         /\ Kept(h'[a], h[a]) /\ UNCHANGED <<caps, usd, counters, missing>>
<1>1. h \in [Handlers -> Ask] /\ h[a] \in Ask
  BY DEF TypeOK
<1> DEFINE Same == /\ Others(a) /\ h'[a].step = h[a].step
                   /\ h'[a].reason = h[a].reason /\ Kept(h'[a], h[a])
<1>2. ASSUME NEW how, h' = [h EXCEPT ![a].gone = how] PROVE Same
  BY <1>1, <1>2 DEF Ask, Others, Kept
<1>3. ASSUME NEW late, h' = [h EXCEPT ![a].late = late] PROVE Same
  BY <1>1, <1>3 DEF Ask, Others, Kept
<1>4. (\E how : h' = [h EXCEPT ![a].gone = how]) \/ h' = [h EXCEPT ![a].late = TRUE]
  BY Zenon DEF CallerLeaves, DeadlineFires
<1>5. Same
  <2> HIDE DEF Same
  <2> QED
    BY <1>2, <1>3, <1>4, Zenon
<1> QED
  BY <1>5 DEF CallerLeaves, DeadlineFires

\* A request arrives at an idle handler and waits for a slot or is refused.
LEMMA ReceiveEffect ==
  ASSUME TypeOK, NEW a \in Handlers, NEW r \in Requests, Receive(a, r)
  PROVE  /\ Others(a) /\ h[a].step = "idle"
         /\ \/ h'[a].step = "take" /\ h'[a].reason = "none"
            \/ h'[a].step = "refusing" /\ h'[a].reason \in GateReasons
         /\ h'[a].events = <<>> /\ h'[a].ledger = "no" /\ h'[a].training = "no"
         /\ UNCHANGED <<caps, usd, counters, missing>>
<1>1. h \in [Handlers -> Ask]
  BY DEF TypeOK
<1>2. r \in Request
  BY ServiceAssumption
<1>3. GateReason(r) \in GateReasons
  BY <1>2 DEF GateReason, GateReasons
<1>4. /\ h'[a].step = (IF Passes(r) THEN "take" ELSE "refusing")
      /\ h'[a].reason = (IF Passes(r) THEN "none" ELSE GateReason(r))
      /\ h'[a].events = <<>> /\ h'[a].ledger = "no" /\ h'[a].training = "no"
      /\ Others(a)
  BY <1>1 DEF Receive, NoAsk, Others
<1> QED
  BY <1>3, <1>4 DEF Receive

-----------------------------------------------------------------------------
(* The hourly cap.  HourlyCallsBounded is not inductive: it forgets the    *)
(* handlers that hold a slot and have not called yet.  They may carry it   *)
(* past the end of their window, so the calls of this window and the slots *)
(* still held are at most the slots taken in it, plus one for every        *)
(* handler but the one that opened it.                                     *)

AtCheck == {a \in Handlers : h[a].step = "check"}

HourInv ==
  HourLimit > 0 =>
    /\ used <= HourLimit
    /\ used = 0 => windowCalls = 0 /\ AtCheck = {}
    /\ used > 0 => windowCalls + Cardinality(AtCheck) <= used + Cardinality(Handlers) - 1

\* The handlers holding a slot are finitely many, no more than there are
\* handlers, and at least one when there is one.
LEMMA AtCheckFinite ==
  /\ IsFiniteSet(AtCheck) /\ Cardinality(AtCheck) \in Nat
  /\ Cardinality(AtCheck) <= Cardinality(Handlers) /\ Cardinality(Handlers) \in Nat
  /\ Handlers # {} => Cardinality(Handlers) > 0
<1>1. IsFiniteSet(Handlers) /\ AtCheck \subseteq Handlers
  BY ServiceAssumption DEF AtCheck
<1>2. IsFiniteSet(AtCheck) /\ Cardinality(AtCheck) \in Nat /\ Cardinality(Handlers) \in Nat
      /\ Cardinality(AtCheck) <= Cardinality(Handlers)
  BY <1>1, FS_Subset, FS_CardinalityType
<1>3. Handlers # {} => Cardinality(Handlers) # 0
  BY <1>1, FS_EmptySet
<1> QED
  BY <1>2, <1>3

\* A step that takes no slot and begins no call.
LEMMA HourKept ==
  ASSUME TypeOK, HourInv, used' = used, windowCalls' = windowCalls,
         AtCheck' \subseteq AtCheck
  PROVE  HourInv'
<1> DEFINE m == Cardinality(AtCheck')
           n == Cardinality(AtCheck)
<1>1. m \in Nat /\ n \in Nat /\ m <= n
  BY AtCheckFinite, FS_Subset, FS_CardinalityType
<1>2. used \in Nat /\ windowCalls \in Nat /\ Cardinality(Handlers) \in Nat
  BY AtCheckFinite DEF TypeOK
<1>3. HourLimit > 0 /\ used > 0 => windowCalls + n <= used + Cardinality(Handlers) - 1
  BY DEF HourInv
<1> HIDE DEF m, n
<1>4. HourLimit > 0 /\ used > 0 => windowCalls + m <= used + Cardinality(Handlers) - 1
  BY <1>1, <1>2, <1>3
<1> QED
  BY <1>4 DEF HourInv, m

\* Cap.take: a slot of this window, the first of a new one, or none.
LEMMA HourTake ==
  ASSUME TypeOK, TypeOK', HourInv, NEW a \in Handlers, Take(a)
  PROVE  HourInv'
<1> SUFFICES ASSUME HourLimit > 0 PROVE HourInv'
  BY DEF HourInv
<1> DEFINE now == IF windowOver THEN 0 ELSE used
           N == Cardinality(Handlers)
<1>1. h \in [Handlers -> Ask] /\ h[a].step = "take"
  BY DEF TypeOK, Take
<1>2. used \in Nat /\ windowCalls \in Nat /\ HourLimit \in Nat /\ N \in Nat /\ N > 0
  BY AtCheckFinite, ServiceAssumption DEF TypeOK
<1>3. windowCalls' = IF windowOver THEN 0 ELSE windowCalls
  BY DEF Take
<1>4. CASE now >= HourLimit
  <2>1. ~windowOver
    BY <1>2, <1>4
  <2>2. used' = used /\ windowCalls' = windowCalls /\ Refuse(a, "over_hourly_cap")
    BY <1>3, <1>4, <2>1 DEF Take
  <2>3. h'[a].step = "refusing" /\ Others(a)
    <3>1. h'[a] = [h[a] EXCEPT !.step = "refusing", !.reason = "over_hourly_cap"]
      BY <1>1, <2>2 DEF Refuse
    <3>2. h'[a].step = "refusing"
      BY <1>1, <3>1, AskHasStep
    <3>3. Others(a)
      BY <1>1, <2>2 DEF Refuse, Others
    <3> QED
      BY <3>2, <3>3
  <2>4. AtCheck' \subseteq AtCheck
    BY <2>3 DEF AtCheck, Others
  <2> QED
    BY <2>2, <2>4, HourKept
<1>5. CASE ~(now >= HourLimit)
  <2>1. used' = now + 1 /\ Go(a, "check")
    BY <1>5 DEF Take
  <2>2. used' > 0 /\ used' <= HourLimit /\ used' \in Nat
    BY <1>2, <1>5, <2>1
  <2>3. windowCalls' + Cardinality(AtCheck') <= used' + N - 1
    <3> DEFINE m == Cardinality(AtCheck')
    <3>1. CASE windowOver
      <4>1. AtCheck' \subseteq Handlers
        BY DEF AtCheck
      <4>2. m \in Nat /\ m <= N
        BY <4>1, FS_Subset, FS_CardinalityType, ServiceAssumption
      <4>3. windowCalls' = 0 /\ used' = 1
        BY <1>3, <2>1, <3>1
      <4> HIDE DEF m, N
      <4>4. windowCalls' + m <= used' + N - 1
        BY <1>2, <4>2, <4>3
      <4> QED
        BY <4>4 DEF m
    <3>2. CASE ~windowOver
      <4>1. AtCheck' = AtCheck \cup {a} /\ a \notin AtCheck
        BY <1>1, <2>1 DEF Go, AtCheck, Ask
      <4>2. m = Cardinality(AtCheck) + 1
        <5>1. Cardinality(AtCheck \cup {a}) = Cardinality(AtCheck) + 1
          BY <4>1, AtCheckFinite, FS_AddElement
        <5> QED
          BY <4>1, <5>1
      <4>3. windowCalls' = windowCalls /\ used' = used + 1
        BY <1>3, <2>1, <3>2
      <4>4. used = 0 => windowCalls = 0 /\ Cardinality(AtCheck) = 0
        BY FS_EmptySet DEF HourInv
      <4>5. used > 0 => windowCalls + Cardinality(AtCheck) <= used + N - 1
        BY DEF HourInv
      <4>6. Cardinality(AtCheck) \in Nat
        BY AtCheckFinite
      <4> DEFINE n == Cardinality(AtCheck)
      <4> HIDE DEF m, n, N
      <4>7. windowCalls' + m <= used' + N - 1
        BY <1>2, <4>2, <4>3, <4>4, <4>5, <4>6 DEF n
      <4> QED
        BY <4>7 DEF m
    <3> QED
      BY <3>1, <3>2
  <2> QED
    BY <2>2, <2>3 DEF HourInv
<1> QED
  BY <1>4, <1>5

\* UsdCap.overLimit: the slot becomes a call, or is given up.
LEMMA HourCheck ==
  ASSUME TypeOK, TypeOK', HourInv, NEW a \in Handlers, CheckSpend(a)
  PROVE  HourInv'
<1> SUFFICES ASSUME HourLimit > 0 PROVE HourInv'
  BY DEF HourInv
<1>1. h \in [Handlers -> Ask] /\ h[a].step = "check" /\ used' = used
  BY DEF TypeOK, CheckSpend
<1>2. used \in Nat /\ windowCalls \in Nat /\ Cardinality(Handlers) \in Nat
  BY AtCheckFinite DEF TypeOK
<1>3. CASE Refuse(a, "over_daily_spend_cap") /\ UNCHANGED windowCalls
  <2>1. AtCheck' \subseteq AtCheck
    BY <1>1, <1>3 DEF Refuse, AtCheck, Ask
  <2> QED
    BY <1>1, <1>3, <2>1, HourKept
<1>4. CASE Go(a, "calling") /\ CallBegins
  <2>1. AtCheck' = AtCheck \ {a} /\ a \in AtCheck
    BY <1>1, <1>4 DEF Go, AtCheck, Ask
  <2>2. used # 0 /\ used <= HourLimit
    BY <2>1 DEF HourInv
  <2>3. windowCalls' = windowCalls + 1
    BY <1>4 DEF CallBegins
  <2> DEFINE m == Cardinality(AtCheck')
             n == Cardinality(AtCheck)
             N == Cardinality(Handlers)
  <2>4. n \in Nat /\ m = n - 1
    BY <2>1, AtCheckFinite, FS_RemoveElement
  <2>5. windowCalls + n <= used + N - 1
    BY <1>2, <2>2 DEF HourInv
  <2> HIDE DEF m, n, N
  <2>6. windowCalls' + m <= used' + N - 1
    BY <1>1, <1>2, <2>3, <2>4, <2>5 DEF N
  <2> QED
    BY <1>1, <2>2, <2>6 DEF HourInv, m, N
<1> QED
  BY <1>3, <1>4 DEF CheckSpend

\* No other step of a handler touches the hourly cap.
LEMMA HourOther ==
  ASSUME TypeOK, HourInv, NEW a \in Handlers, Handler(a), ~Take(a), ~CheckSpend(a)
  PROVE  HourInv'
<1>1. Others(a) /\ Effect(a)
  BY HandlerEffect
<1>2. UNCHANGED caps /\ h[a].step # "take"
  <2>1. UNCHANGED caps /\ h[a].step \in Steps \ {"idle", "take", "check"}
    BY DEF Handler, BackendReplies, ChargeSpend, SettleUnanswered, SettleAnswer, PutAnswer,
           PutTraining, EmitRefused, EmitAnswer, Return, Steps
  <2> QED
    BY <2>1
<1>3. h'[a].step = "check" => h[a].step = "take"
  BY <1>1 DEF Effect, Moves, IsRefused, Records, Finishes, Emits, Return, NoAsk, TypeOK
<1>4. AtCheck' \subseteq AtCheck
  BY <1>1, <1>2, <1>3 DEF AtCheck, Others
<1> QED
  BY <1>2, <1>4, HourKept DEF caps

\* Every step keeps the hourly invariant.
LEMMA HourStep == TypeOK /\ TypeOK' /\ HourInv /\ [Next]_vars => HourInv'
<1> SUFFICES ASSUME TypeOK, TypeOK', HourInv, [Next]_vars PROVE HourInv'
  OBVIOUS
<1>1. ASSUME NEW a \in Handlers, Handler(a) PROVE HourInv'
  BY <1>1, HourTake, HourCheck, HourOther
<1>2. ASSUME NEW a \in Handlers, NEW r \in Requests, Receive(a, r) PROVE HourInv'
  <2>1. AtCheck' \subseteq AtCheck /\ UNCHANGED caps
    BY <1>2, ReceiveEffect DEF AtCheck, Others
  <2> QED
    BY <2>1, HourKept DEF caps
<1>3. ASSUME NEW a \in Handlers, CallerLeaves(a) \/ DeadlineFires(a) PROVE HourInv'
  <2>1. AtCheck' \subseteq AtCheck /\ UNCHANGED caps
    BY <1>3, EnvironmentEffect DEF AtCheck, Others
  <2> QED
    BY <2>1, HourKept DEF caps
<1>4. CASE HourPasses \/ DayChanges \/ UNCHANGED vars
  <2>1. used' = used /\ windowCalls' = windowCalls /\ h' = h
    BY <1>4 DEF HourPasses, DayChanges, vars, caps
  <2> QED
    BY <2>1, HourKept DEF AtCheck
<1> QED
  BY <1>1, <1>2, <1>3, <1>4 DEF Next

\* In any hour-long window the backend is called at most HourLimit times plus
\* once for every handler but one, for any limit and any number of handlers.
THEOREM HourlyCalls == Spec => []HourlyCallsBounded
<1>1. Init => HourInv
  <2> SUFFICES ASSUME Init PROVE HourInv
    OBVIOUS
  <2>1. AtCheck = {}
    BY DEF Init, AtCheck, NoAsk
  <2> QED
    BY <2>1, ServiceAssumption DEF Init, HourInv
<1>2. TypeOK /\ HourInv => HourlyCallsBounded
  <2> SUFFICES ASSUME TypeOK, HourInv, HourLimit > 0
               PROVE  windowCalls <= HourLimit + Cardinality(Handlers) - 1
    BY DEF HourlyCallsBounded
  <2> DEFINE n == Cardinality(AtCheck)
             N == Cardinality(Handlers)
  <2>1. n \in Nat /\ N \in Nat /\ used \in Nat /\ windowCalls \in Nat /\ HourLimit \in Nat
    BY AtCheckFinite, ServiceAssumption DEF TypeOK
  <2>2. /\ used <= HourLimit /\ (used = 0 => windowCalls = 0)
        /\ used > 0 => windowCalls + n <= used + N - 1
    BY DEF HourInv
  <2> HIDE DEF n, N
  <2>3. windowCalls <= HourLimit + N - 1
    BY <2>1, <2>2
  <2> QED
    BY <2>3 DEF N
<1>3. Spec => []TypeOK
  BY TypeCorrect
<1> QED
  BY <1>1, <1>2, <1>3, HourStep, PTL DEF Spec

-----------------------------------------------------------------------------
(* The record of an ask.  RecordMatchesResult speaks of the moment before   *)
(* the ask returns; Recorded says what is on record at every step there.    *)

Blank(ask) == ask.events = <<>> /\ ask.ledger = "no" /\ ask.training = "no"

Final(ask) ==
  /\ Len(ask.events) = 1
  /\ ask.events[1].type = ResultType(ask)
  /\ ask.events[1].reason = ask.reason
  /\ ask.ledger # "no" <=> ResultType(ask) = "answer"
  /\ ask.training # "no" <=> ResultType(ask) = "answer" /\ ask.trainable

Recorded(ask) ==
  /\ ask.step \in {"idle", "take", "check", "calling", "charging", "settling", "ledger"} =>
       Blank(ask) /\ ask.reason = "none"
  /\ ask.step = "refusing" => Blank(ask) /\ ask.reason \in GateReasons \cup CapReasons
  /\ ask.step \in {"training", "journal"} =>
       ask.events = <<>> /\ ask.ledger # "no" /\ ask.reason = "none"
  /\ ask.step = "training" => ask.training = "no" /\ ask.trainable
  /\ ask.step = "journal" => (ask.training # "no" <=> ask.trainable)
  /\ ask.step = "return" => Final(ask)

RecordInv == \A a \in Handlers : Recorded(h[a])

\* One event appended to none is the only event.
LEMMA FirstEvent ==
  ASSUME NEW e
  PROVE  Len(Append(<<>>, e)) = 1 /\ Append(<<>>, e)[1] = e
OBVIOUS

\* A handler's step leaves its ask recorded as its new step says.
LEMMA RecordHandler ==
  ASSUME TypeOK, NEW a \in Handlers, Effect(a), Recorded(h[a])
  PROVE  Recorded(h'[a])
<1>1. h[a] \in Ask /\ h \in [Handlers -> Ask]
  BY DEF TypeOK
<1>2. CASE Moves(a)
  BY <1>2 DEF Moves, Kept, Recorded, Blank
<1>3. CASE IsRefused(a)
  BY <1>3 DEF IsRefused, Kept, Recorded, Blank
<1>4. CASE Records(a)
  <2>1. CASE h[a].step = "ledger"
    <3>1. CASE h[a].trainable = TRUE
      BY <1>4, <2>1, <3>1 DEF Records, Recorded, Blank
    <3>2. CASE h[a].trainable = FALSE
      BY <1>4, <2>1, <3>2 DEF Records, Recorded, Blank
    <3> QED
      BY <1>1, <3>1, <3>2 DEF Ask
  <2>2. CASE h[a].step = "training"
    BY <1>4, <2>2 DEF Records, Recorded
  <2> QED
    BY <1>4, <2>1, <2>2 DEF Records
<1>5. CASE Finishes(a)
  <2>1. ASSUME NEW type, Emits(a, type), h[a].events = <<>>
        PROVE  /\ Len(h'[a].events) = 1 /\ h'[a].events[1].type = type
               /\ h'[a].events[1].reason = h'[a].reason
    BY <2>1, FirstEvent DEF Emits
  <2>2. CASE h[a].step = "refusing" /\ Emits(a, "refused") /\ h'[a].reason = h[a].reason
    <3>1. Blank(h[a]) /\ h'[a].reason \in GateReasons \cup CapReasons
      BY <2>2 DEF Recorded
    <3>2. h'[a].step = "return" /\ h'[a].ledger = "no" /\ h'[a].training = "no"
      BY <2>2, <3>1 DEF Emits, Blank
    <3>3. ResultType(h'[a]) = "refused"
      BY <3>1 DEF ResultType, GateReasons, CapReasons, Unanswered, BadReplies
    <3>4. Final(h'[a])
      BY <2>1, <2>2, <3>1, <3>2, <3>3 DEF Final, Blank
    <3> QED
      BY <3>2, <3>4 DEF Recorded
  <2>3. CASE h[a].step = "settling" /\ Emits(a, "unanswered") /\ h'[a].reason \in Unanswered
    <3>1. Blank(h[a])
      BY <2>3 DEF Recorded
    <3>2. h'[a].step = "return" /\ h'[a].ledger = "no" /\ h'[a].training = "no"
      BY <2>3, <3>1 DEF Emits, Blank
    <3>3. ResultType(h'[a]) = "unanswered"
      BY <2>3 DEF ResultType, Unanswered, BadReplies
    <3>4. Final(h'[a])
      BY <2>1, <2>3, <3>1, <3>2, <3>3 DEF Final, Blank
    <3> QED
      BY <3>2, <3>4 DEF Recorded
  <2>4. CASE h[a].step = "journal" /\ Emits(a, "answer") /\ h'[a].reason = "none"
    <3>1. /\ h[a].events = <<>> /\ h[a].ledger # "no"
          /\ h[a].training # "no" <=> h[a].trainable
      BY <2>4 DEF Recorded
    <3>2. /\ h'[a].step = "return" /\ h'[a].ledger # "no"
          /\ h'[a].training # "no" <=> h'[a].trainable
      BY <2>4, <3>1 DEF Emits
    <3>3. ResultType(h'[a]) = "answer"
      BY <2>4 DEF ResultType
    <3>4. Final(h'[a])
      BY <2>1, <2>4, <3>1, <3>2, <3>3 DEF Final
    <3> QED
      BY <3>2, <3>4 DEF Recorded
  <2> QED
    BY <1>5, <2>2, <2>3, <2>4 DEF Finishes
<1>6. CASE Return(a)
  BY <1>1, <1>6 DEF Return, NoAsk, Recorded, Blank
<1> QED
  BY <1>2, <1>3, <1>4, <1>5, <1>6 DEF Effect

\* Every step keeps every ask recorded as its step says.
LEMMA RecordStep == TypeOK /\ RecordInv /\ [Next]_vars => RecordInv'
<1> SUFFICES ASSUME TypeOK, RecordInv, [Next]_vars PROVE RecordInv'
  OBVIOUS
<1>1. ASSUME NEW a \in Handlers, Others(a), Recorded(h'[a]) PROVE RecordInv'
  BY <1>1 DEF RecordInv, Others
<1>2. ASSUME NEW a \in Handlers, Handler(a) PROVE RecordInv'
  BY <1>1, <1>2, HandlerEffect, RecordHandler DEF RecordInv
<1>3. ASSUME NEW a \in Handlers, NEW r \in Requests, Receive(a, r) PROVE RecordInv'
  <2>1. Others(a) /\ Recorded(h'[a])
    BY <1>3, ReceiveEffect DEF Recorded, Blank
  <2> QED
    BY <1>1, <2>1
<1>4. ASSUME NEW a \in Handlers, CallerLeaves(a) \/ DeadlineFires(a) PROVE RecordInv'
  <2>1. /\ Others(a) /\ h'[a].step = h[a].step /\ h'[a].reason = h[a].reason
        /\ Kept(h'[a], h[a]) /\ Recorded(h[a])
    BY <1>4, EnvironmentEffect DEF RecordInv
  <2>2. Recorded(h'[a])
    BY <2>1 DEF Kept, Recorded, Blank, Final, ResultType
  <2> QED
    BY <1>1, <2>1, <2>2
<1>5. CASE HourPasses \/ DayChanges \/ UNCHANGED vars
  <2>1. h' = h
    BY <1>5 DEF HourPasses, DayChanges, vars
  <2> QED
    BY <2>1 DEF RecordInv
<1> QED
  BY <1>2, <1>3, <1>4, <1>5 DEF Next

\* Nothing is recorded before the first ask.
LEMMA RecordInit == Init => RecordInv
BY DEF Init, RecordInv, Recorded, Blank, NoAsk

\* The event, the ledger line, the training line and the result of a finished
\* ask agree, for any number of handlers and whatever fails in between.
THEOREM RecordsMatch == Spec => []RecordMatchesResult
<1>1. RecordInv => RecordMatchesResult
  BY DEF RecordInv, Recorded, Final, RecordMatchesResult
<1> QED
  BY <1>1, RecordInit, RecordStep, TypeCorrect, PTL DEF Spec

-----------------------------------------------------------------------------
(* The counters.  CountersComplete is inductive once the record of every    *)
(* ask is known: nothing is lost twice, so each loss is one count.          *)

One(b) == IF b THEN 1 ELSE 0

Losing(k) == {a \in Handlers : Lost(h[a], k)}

\* What a step of handler a loses is what it counts, and what it stops holding
\* is what it leaves behind.
Accounted(a) ==
  \A k \in Kinds :
    counters'[k] + One(Lost(h[a], k)) + missing[k]
      = counters[k] + One(Lost(h'[a], k)) + missing'[k]

\* Of the handlers, only a can have started or stopped losing something.
LEMMA LosingChange ==
  ASSUME NEW a \in Handlers, Others(a), NEW k \in Kinds
  PROVE  /\ Cardinality(Losing(k)) \in Nat /\ Cardinality(Losing(k)') \in Nat
         /\ Cardinality(Losing(k)') + One(Lost(h[a], k))
              = Cardinality(Losing(k)) + One(Lost(h'[a], k))
<1> DEFINE rest == {b \in Handlers \ {a} : Lost(h[b], k)}
<1>1. IsFiniteSet(rest) /\ Cardinality(rest) \in Nat
      /\ Cardinality(rest \cup {a}) = Cardinality(rest) + 1
  <2>1. IsFiniteSet(rest)
    BY ServiceAssumption, FS_Subset
  <2>2. a \notin rest
    OBVIOUS
  <2> QED
    BY <2>1, <2>2, FS_CardinalityType, FS_AddElement
<1>2. Losing(k) = IF Lost(h[a], k) THEN rest \cup {a} ELSE rest
  BY DEF Losing
<1>3. Losing(k)' = IF Lost(h'[a], k) THEN rest \cup {a} ELSE rest
  BY DEF Losing, Others
<1> HIDE DEF rest
<1>4. Cardinality(Losing(k)) = Cardinality(rest) + One(Lost(h[a], k))
  BY <1>1, <1>2 DEF One
<1>5. Cardinality(Losing(k)') = Cardinality(rest) + One(Lost(h'[a], k))
  BY <1>1, <1>3 DEF One
<1> QED
  BY <1>1, <1>4, <1>5 DEF One

\* What is accounted for at each step keeps the counters complete.
LEMMA CountersKept ==
  ASSUME TypeOK, TypeOK', CountersComplete, NEW a \in Handlers, Others(a), Accounted(a)
  PROVE  CountersComplete'
<1> SUFFICES ASSUME NEW k \in Kinds
             PROVE  counters'[k] = missing'[k] + Cardinality(Losing(k)')
  BY DEF CountersComplete, Losing
<1>1. counters[k] = missing[k] + Cardinality(Losing(k))
  BY DEF CountersComplete, Losing
<1>2. /\ counters[k] \in Nat /\ counters'[k] \in Nat
      /\ missing[k] \in Nat /\ missing'[k] \in Nat
  BY DEF TypeOK
<1>3. /\ Cardinality(Losing(k)) \in Nat /\ Cardinality(Losing(k)') \in Nat
      /\ Cardinality(Losing(k)') + One(Lost(h[a], k))
           = Cardinality(Losing(k)) + One(Lost(h'[a], k))
  BY LosingChange
<1>4. counters'[k] + One(Lost(h[a], k)) + missing[k]
        = counters[k] + One(Lost(h'[a], k)) + missing'[k]
  BY DEF Accounted
<1>5. One(Lost(h[a], k)) \in Nat /\ One(Lost(h'[a], k)) \in Nat
  BY DEF One
<1> QED
  BY <1>1, <1>2, <1>3, <1>4, <1>5

\* A loss depends on what is on record and on nothing else.
LEMMA LostOfRecord ==
  ASSUME NEW x, NEW y, NEW k,
         x.events = y.events, x.ledger = y.ledger, x.training = y.training
  PROVE  Lost(x, k) <=> Lost(y, k)
BY DEF Lost

\* An ask with nothing on record has lost nothing.
LEMMA LostOfBlank ==
  ASSUME NEW x, NEW k, Blank(x)
  PROVE  ~Lost(x, k)
BY DEF Lost, Blank

\* Every step of a handler counts what it loses.
LEMMA CountersHandler ==
  ASSUME TypeOK, TypeOK', NEW a \in Handlers, Effect(a), Recorded(h[a])
  PROVE  Accounted(a)
<1> SUFFICES ASSUME NEW k \in Kinds
             PROVE  counters'[k] + One(Lost(h[a], k)) + missing[k]
                      = counters[k] + One(Lost(h'[a], k)) + missing'[k]
  BY DEF Accounted
<1>1. /\ counters[k] \in Nat /\ counters'[k] \in Nat
      /\ missing[k] \in Nat /\ missing'[k] \in Nat
  BY DEF TypeOK
<1>2. CASE Moves(a) \/ IsRefused(a)
  <2>1. UNCHANGED <<counters, missing>> /\ Kept(h'[a], h[a])
    BY <1>2 DEF Moves, IsRefused
  <2>2. One(Lost(h'[a], k)) = One(Lost(h[a], k))
    BY <2>1, LostOfRecord DEF Kept, One
  <2> QED
    BY <1>1, <2>1, <2>2 DEF One
<1>3. CASE Records(a)
  <2>1. h[a].events = <<>> /\ h'[a].events = <<>> /\ missing' = missing
    BY <1>3 DEF Records, Recorded, Blank
  <2>2. CASE k \in {"skipped", "failed"}
    <3>1. counters'[k] = counters[k]
      BY <1>1, <1>3, <2>2 DEF Records
    <3>2. ~Lost(h[a], k) /\ ~Lost(h'[a], k)
      BY <2>1, <2>2 DEF Lost
    <3> QED
      BY <1>1, <2>1, <3>1, <3>2 DEF One
  <2>3. CASE h[a].step = "ledger" /\ k \in {"ledger", "training"}
    <3>1. h[a].ledger = "no" /\ h[a].training = "no" /\ h'[a].training = "no"
      BY <1>3, <2>3 DEF Records, Recorded, Blank
    <3>2. ~Lost(h[a], k) /\ (Lost(h'[a], k) <=> k = "ledger" /\ h'[a].ledger = "lost")
      BY <2>3, <3>1 DEF Lost
    <3>3. counters'[k] = counters[k] + One(k = "ledger" /\ h'[a].ledger = "lost")
      BY <1>3, <2>3 DEF Records, One
    <3> QED
      BY <1>1, <2>1, <3>2, <3>3 DEF One
  <2>4. CASE h[a].step = "training" /\ k = "training"
    <3>1. ~Lost(h[a], k) /\ (Lost(h'[a], k) <=> h'[a].training = "lost")
      BY <2>4 DEF Lost, Recorded
    <3>2. counters'[k] = counters[k] + One(h'[a].training = "lost")
      BY <1>3, <2>4 DEF Records, One
    <3> QED
      BY <1>1, <2>1, <3>1, <3>2 DEF One
  <2>5. CASE h[a].step = "training" /\ k = "ledger"
    <3>1. Lost(h'[a], k) <=> Lost(h[a], k)
      BY <1>3, <2>5 DEF Records, Lost
    <3>2. counters'[k] = counters[k]
      BY <1>1, <1>3, <2>5 DEF Records
    <3> QED
      BY <1>1, <2>1, <3>1, <3>2 DEF One
  <2> QED
    BY <1>3, <2>2, <2>3, <2>4, <2>5 DEF Records, Kinds
<1>4. CASE Finishes(a)
  <2>1. PICK type : Emits(a, type)
    BY <1>4 DEF Finishes
  <2>2. h[a].events = <<>>
    BY <1>4 DEF Finishes, Recorded, Blank
  <2>3. PICK fate \in {"written", "skipped", "failed"} :
          /\ h'[a].events = Append(<<>>, [type |-> type, reason |-> h'[a].reason, fate |-> fate])
          /\ counters' = [i \in Kinds |-> counters[i] + IF i = fate THEN 1 ELSE 0]
    BY <2>1, <2>2 DEF Emits
  <2>4. missing' = missing /\ h'[a].ledger = h[a].ledger /\ h'[a].training = h[a].training
    BY <2>1 DEF Emits
  <2>5. counters'[k] = counters[k] + One(k = fate)
    BY <2>3 DEF One
  <2>6. CASE k \in {"ledger", "training"}
    <3>1. k # fate /\ (Lost(h'[a], k) <=> Lost(h[a], k))
      BY <2>3, <2>4, <2>6 DEF Lost
    <3> QED
      BY <1>1, <2>4, <2>5, <3>1 DEF One
  <2>7. CASE k \in {"skipped", "failed"}
    <3>1. ~Lost(h[a], k)
      BY <2>2, <2>7 DEF Lost
    <3>2. DOMAIN h'[a].events = {1} /\ h'[a].events[1].fate = fate
      BY <2>3
    <3>3. Lost(h'[a], k) <=> fate = k
      BY <2>7, <3>2 DEF Lost
    <3> QED
      BY <1>1, <2>4, <2>5, <3>1, <3>3 DEF One
  <2> QED
    BY <2>6, <2>7 DEF Kinds
<1>5. CASE Return(a)
  <2>1. counters' = counters /\ missing'[k] = missing[k] + One(Lost(h[a], k))
    BY <1>5 DEF Return, One
  <2>2. Blank(h'[a])
    BY <1>5 DEF Return, TypeOK, NoAsk, Blank
  <2>3. ~Lost(h'[a], k)
    BY <2>2, LostOfBlank
  <2> QED
    BY <1>1, <2>1, <2>3 DEF One
<1> QED
  BY <1>2, <1>3, <1>4, <1>5 DEF Effect

\* Every step keeps the counters complete.
LEMMA CountersStep ==
  TypeOK /\ TypeOK' /\ RecordInv /\ CountersComplete /\ [Next]_vars => CountersComplete'
<1> SUFFICES ASSUME TypeOK, TypeOK', RecordInv, CountersComplete, [Next]_vars
             PROVE  CountersComplete'
  OBVIOUS
<1>1. ASSUME NEW a \in Handlers, Handler(a) PROVE CountersComplete'
  <2>1. Others(a) /\ Effect(a) /\ Recorded(h[a])
    BY <1>1, HandlerEffect DEF RecordInv
  <2> QED
    BY <2>1, CountersHandler, CountersKept
<1>2. ASSUME NEW a \in Handlers, Others(a), UNCHANGED <<counters, missing>>,
             \A k \in Kinds : Lost(h'[a], k) <=> Lost(h[a], k)
      PROVE  CountersComplete'
  <2>1. Accounted(a)
    <3> SUFFICES ASSUME NEW k \in Kinds
                 PROVE  counters[k] + One(Lost(h[a], k)) + missing[k]
                          = counters[k] + One(Lost(h'[a], k)) + missing[k]
      BY <1>2 DEF Accounted
    <3> QED
      BY <1>2 DEF One
  <2> QED
    BY <1>2, <2>1, CountersKept
<1>3. ASSUME NEW a \in Handlers, NEW r \in Requests, Receive(a, r) PROVE CountersComplete'
  <2>1. Others(a) /\ Blank(h'[a]) /\ h[a].step = "idle" /\ UNCHANGED <<counters, missing>>
    BY <1>3, ReceiveEffect DEF Blank
  <2>2. Blank(h[a])
    BY <2>1 DEF RecordInv, Recorded
  <2> QED
    BY <1>2, <2>1, <2>2, LostOfBlank
<1>4. ASSUME NEW a \in Handlers, CallerLeaves(a) \/ DeadlineFires(a) PROVE CountersComplete'
  <2>1. Others(a) /\ Kept(h'[a], h[a]) /\ UNCHANGED <<counters, missing>>
    BY <1>4, EnvironmentEffect
  <2> QED
    BY <1>2, <2>1, LostOfRecord DEF Kept
<1>5. CASE HourPasses \/ DayChanges \/ UNCHANGED vars
  <2>1. UNCHANGED <<h, counters, missing>>
    BY <1>5 DEF HourPasses, DayChanges, vars
  <2> QED
    BY <2>1 DEF CountersComplete
<1> QED
  BY <1>1, <1>3, <1>4, <1>5 DEF Next

\* Nothing is lost before the first ask.
LEMMA CountersInit == Init => CountersComplete
<1> SUFFICES ASSUME Init, NEW k \in Kinds
             PROVE  counters[k] = missing[k] + Cardinality({a \in Handlers : Lost(h[a], k)})
  BY DEF CountersComplete
<1>1. {a \in Handlers : Lost(h[a], k)} = {}
  BY LostOfBlank DEF Init, NoAsk, Blank
<1>2. counters[k] = 0 /\ missing[k] = 0
  BY DEF Init
<1> QED
  BY <1>1, <1>2, FS_EmptySet

\* The counters at /healthz are exactly what asks failed to put on record, at
\* every moment and for any number of handlers and failures.
THEOREM CountersAddUp == Spec => []CountersComplete
<1>1. Spec => []TypeOK
  BY TypeCorrect
<1>2. Spec => []RecordInv
  BY <1>1, RecordInit, RecordStep, PTL DEF Spec
<1> QED
  BY <1>1, <1>2, CountersInit, CountersStep, PTL DEF Spec

-----------------------------------------------------------------------------
(* A step of the process is one of its service, or leaves the service as   *)
(* it is at its start.                                                     *)

\* Whatever a process does, its handlers take a step of Service, none, or are
\* gone with it.
LEMMA ServiceSteps == [LifeNext]_lvars => [Next]_vars \/ Init'
<1> SUFFICES ASSUME [LifeNext]_lvars PROVE [Next]_vars \/ Init'
  OBVIOUS
<1>1. ASSUME NEW a \in Handlers, Accepts(a) \/ Runs(a) PROVE Next
  BY <1>1 DEF Accepts, Runs, Next
<1>2. CASE Environment
  BY <1>2 DEF Environment, Next
<1>3. CASE Signal \/ ListenerFails \/ ShutdownDrained \/ ShutdownGivesUp \/ CloseNext \/ Restart
  BY <1>3 DEF Signal, ListenerFails, ShutdownDrained, ShutdownGivesUp, CloseNext, Restart
<1>4. CASE Exit \/ Kill
  <2>1. Gone
    BY <1>4 DEF Exit, Kill
  <2> QED
    BY <2>1 DEF Gone, Init
<1>5. CASE UNCHANGED lvars
  BY <1>5 DEF lvars
<1> QED
  BY <1>1, <1>2, <1>3, <1>4, <1>5 DEF LifeNext, Stops

\* Types, across restarts.
THEOREM LifeTypes == LifeSpec => []TypeOK
<1>1. LifeInit => TypeOK
  BY TypeInit DEF LifeInit
<1>2. Init' => TypeOK'
  BY TypeInit, PTL
<1>3. TypeOK /\ [LifeNext]_lvars => TypeOK'
  BY <1>2, ServiceSteps, TypeStep
<1> QED
  BY <1>1, <1>3, PTL DEF LifeSpec

\* Every ask is recorded as its step says, across restarts.
LEMMA LifeRecords == LifeSpec => []RecordInv
<1>1. LifeInit => RecordInv
  BY RecordInit DEF LifeInit
<1>2. Init' => RecordInv'
  BY RecordInit, PTL
<1>3. TypeOK /\ RecordInv /\ [LifeNext]_lvars => RecordInv'
  BY <1>2, ServiceSteps, RecordStep
<1> QED
  BY <1>1, <1>3, LifeTypes, PTL DEF LifeSpec

\* The counters add up and finished asks are recorded as their results say, in
\* a process that closes its files under its handlers and is killed anywhere.
THEOREM LifeKeepsRecords == LifeSpec => [](CountersComplete /\ RecordMatchesResult)
<1>1. LifeInit => CountersComplete
  BY CountersInit DEF LifeInit
<1>2. Init' => CountersComplete'
  BY CountersInit, PTL
<1>3. TypeOK /\ TypeOK' /\ RecordInv /\ CountersComplete /\ [LifeNext]_lvars
        => CountersComplete'
  BY <1>2, ServiceSteps, CountersStep
<1>4. LifeSpec => []CountersComplete
  BY <1>1, <1>3, LifeTypes, LifeRecords, PTL DEF LifeSpec
<1>5. RecordInv => RecordMatchesResult
  BY DEF RecordInv, Recorded, Final, RecordMatchesResult
<1> QED
  BY <1>4, <1>5, LifeRecords, PTL

\* At every step an ask stops at, its lines are on record in the order the
\* code writes them: the ledger's, the training log's, the journal's answer.
LEMMA RecordedInOrder == TypeOK /\ RecordInv => RecordsFollowTheLedger
<1> SUFFICES ASSUME TypeOK, RecordInv, NEW a \in Handlers
             PROVE  /\ h[a].training # "no" => h[a].ledger # "no"
                    /\ \A n \in DOMAIN h[a].events : h[a].events[n].type = "answer" =>
                         h[a].ledger # "no" /\ (h[a].trainable => h[a].training # "no")
  BY DEF RecordsFollowTheLedger
<1>1. h[a] \in Ask /\ Recorded(h[a])
  BY DEF TypeOK, RecordInv
<1>2. h[a].events \in Seq(Event)
  BY <1>1 DEF Ask, Event
<1>3. CASE h[a].step = "return"
  <2>1. Final(h[a]) /\ DOMAIN h[a].events = {1}
    BY <1>1, <1>2, <1>3 DEF Recorded, Final
  <2> QED
    BY <2>1 DEF Final
<1>4. CASE h[a].step # "return"
  <2>1. h[a].events = <<>>
    BY <1>1, <1>4 DEF Ask, Steps, Recorded, Blank
  <2>2. h[a].training # "no" => h[a].ledger # "no"
    BY <1>1, <1>4 DEF Ask, Steps, Recorded, Blank
  <2> QED
    BY <2>1, <2>2
<1> QED
  BY <1>3, <1>4

\* Wherever the process is killed, a training line or a journalled answer is
\* of an answer whose ledger line was tried before it.
THEOREM RecordsInOrder == LifeSpec => []RecordsFollowTheLedger
BY RecordedInOrder, LifeTypes, LifeRecords, PTL

-----------------------------------------------------------------------------
(* Closing.  ClosedUnderNobody needs why the process left its select, and  *)
(* that a Shutdown that returned nil leaves no handler to accept a request.*)

ProcessInv ==
  /\ main \in {"serving", "draining"} => open = Files /\ stopped = "no"
  /\ main = "closing" => stopped \in {"drained", "timeout", "listener"}
  /\ main = "exited" \/ stopped = "drained" => Busy = {}
  /\ main \in {"serving", "draining", "closing", "exited"}

\* A handler at work serves an ask, and no other handler comes to serve one.
LEMMA BusyKept ==
  ASSUME TypeOK, NEW a \in Handlers, Handler(a) \/ CallerLeaves(a) \/ DeadlineFires(a)
  PROVE  a \in Busy /\ Busy' \subseteq Busy
<1>1. a \in Busy
  BY DEF Busy, Handler, Take, CheckSpend, BackendReplies, ChargeSpend, SettleUnanswered,
         SettleAnswer, PutAnswer, PutTraining, EmitRefused, EmitAnswer, Return,
         CallerLeaves, DeadlineFires
<1>2. Others(a)
  BY HandlerEffect, EnvironmentEffect
<1> QED
  BY <1>1, <1>2 DEF Busy, Others

\* Every step of the process keeps what it knows of its handlers.
LEMMA ProcessStep == TypeOK /\ ProcessInv /\ [LifeNext]_lvars => ProcessInv'
<1> SUFFICES ASSUME TypeOK, ProcessInv, [LifeNext]_lvars PROVE ProcessInv'
  OBVIOUS
<1>1. ASSUME UNCHANGED process, Busy' \subseteq Busy PROVE ProcessInv'
  BY <1>1 DEF process, ProcessInv
<1>2. ASSUME h' = h PROVE Busy' = Busy
  BY <1>2 DEF Busy
<1>3. ASSUME NEW a \in Handlers, Accepts(a) PROVE ProcessInv'
  <2>1. main # "exited" /\ stopped # "drained" /\ UNCHANGED <<main, open, stopped>>
    BY <1>3 DEF Accepts, process
  <2> QED
    BY <2>1 DEF ProcessInv
<1>4. ASSUME NEW a \in Handlers, Runs(a) PROVE ProcessInv'
  <2>1. Handler(a) /\ UNCHANGED process
    BY <1>4 DEF Runs
  <2> QED
    BY <1>1, <2>1, BusyKept
<1>5. CASE Environment
  <2>1. Busy' \subseteq Busy
    <3>1. CASE \E a \in Handlers : CallerLeaves(a) \/ DeadlineFires(a)
      BY <3>1, BusyKept
    <3>2. CASE HourPasses \/ DayChanges
      BY <1>2, <3>2 DEF HourPasses, DayChanges
    <3> QED
      BY <1>5, <3>1, <3>2 DEF Environment
  <2> QED
    BY <1>1, <1>5, <2>1 DEF Environment
<1>6. CASE Signal \/ ListenerFails \/ ShutdownDrained \/ ShutdownGivesUp \/ CloseNext \/ Restart
  <2>1. Busy' = Busy
    BY <1>2, <1>6 DEF Signal, ListenerFails, ShutdownDrained, ShutdownGivesUp, CloseNext,
                      Restart, vars
  <2>2. CASE Signal
    BY <2>1, <2>2 DEF Signal, ProcessInv
  <2>3. CASE ListenerFails
    BY <2>1, <2>3 DEF ListenerFails, ProcessInv
  <2>4. CASE ShutdownDrained
    BY <2>1, <2>4 DEF ShutdownDrained, ProcessInv
  <2>5. CASE ShutdownGivesUp
    BY <2>1, <2>5 DEF ShutdownGivesUp, ProcessInv
  <2>6. CASE CloseNext
    BY <2>1, <2>6 DEF CloseNext, ProcessInv
  <2>7. CASE Restart
    BY <2>1, <2>7 DEF Restart, ProcessInv
  <2> QED
    BY <1>6, <2>2, <2>3, <2>4, <2>5, <2>6, <2>7
<1>7. CASE Exit \/ Kill
  <2>1. main' = "exited" /\ Busy' = {}
    BY <1>7 DEF Exit, Kill, Gone, Busy, NoAsk
  <2> QED
    BY <2>1 DEF ProcessInv
<1>8. CASE UNCHANGED lvars
  <2>1. h' = h /\ UNCHANGED process
    BY <1>8 DEF lvars, vars
  <2> QED
    BY <1>1, <1>2, <2>1
<1> QED
  BY <1>3, <1>4, <1>5, <1>6, <1>7, <1>8 DEF LifeNext, Stops

\* A file is closed under a handler only after a Shutdown that timed out or a
\* listener that failed, for any number of handlers.
THEOREM NobodyIsClosedUnder == LifeSpec => []ClosedUnderNobody
<1>1. LifeInit => ProcessInv
  BY DEF LifeInit, Init, ProcessInv, Busy, NoAsk
<1>2. ProcessInv => ClosedUnderNobody
  BY DEF ProcessInv, ClosedUnderNobody
<1> QED
  BY <1>1, <1>2, ProcessStep, LifeTypes, PTL DEF LifeSpec
=============================================================================
