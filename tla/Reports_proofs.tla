---------------------------- MODULE Reports_proofs ----------------------------
(***************************************************************************)
(* Proofs about the two reports: what the service serves, calibration      *)
(* scores and the export labels is the same answer and the same truth, for *)
(* every distribution, template and truth and for every interleaving of    *)
(* the readers with the service.                                           *)
(***************************************************************************)
EXTENDS Reports, Answers_proofs

\* A truth the service accepts decodes to a key of the question.
LEMMA TruthIsAKey ==
  ASSUME NEW t, t.type \in QuestionTypes, ValidCriteria(t), NEW truth \in Truths,
         validateTruth(t, truth)
  PROVE  Unmarshals(t.type, truth) /\ Decoded(truth) \in KeySet(t)
<1>1. Unmarshals(t.type, truth) /\ truth \in Truth
  BY ReportsAssumption DEF validateTruth
<1>2. CASE t.type = "choice"
  BY <1>1, <1>2 DEF validateTruth
<1>3. CASE t.type = "score"
  <2>1. Decoded(truth) \in Int
    BY <1>1 DEF Truth, Decoded
  <2>2. KeySet(t) = 0 .. t.n - 1 /\ t.n \in 2 .. 255
    BY <1>3, KeysAre, Zenon
  <2>3. Decoded(truth) >= 0 /\ Decoded(truth) < t.n
    BY <1>3 DEF validateTruth
  <2>4. Decoded(truth) \in 0 .. t.n - 1
    <3>1. \A d \in Int, n \in 2 .. 255 : d >= 0 /\ d < n => d \in 0 .. n - 1
      OBVIOUS
    <3> QED
      BY <2>1, <2>2, <2>3, <3>1, Zenon
  <2> QED
    BY <1>1, <2>2, <2>4
<1>4. CASE t.type = "noul"
  <2>1. KeySet(t) = 0 .. t.n - 1 /\ t.n = 2
    BY <1>4, KeysAre, Zenon
  <2>2. Decoded(truth) \in {0, 1}
    BY <1>1, <1>4, ReportsAssumption DEF Unmarshals, Wanted, Decoded
  <2>3. Decoded(truth) \in 0 .. t.n - 1
    BY <2>1, <2>2
  <2> QED
    BY <1>1, <2>1, <2>3
<1> QED
  BY <1>2, <1>3, <1>4 DEF QuestionTypes

-----------------------------------------------------------------------------
(* The inductive invariant.                                                *)

Replies == UNION {Reply(t) : t \in Templates}

AnswerLine   == [id : Ids, t : Templates, probs : Replies, answer : Int]
TrainingLine == [id : Ids, t : Templates]
OutcomeLine  == [id : Ids, t : Templates, truth : Truths]

\* The types, with what an ask is of once it has been answered.
TypeInv ==
  /\ asks \in [Ids -> [step : {"none", "unanswered", "ledgered", "served"},
                       t : Templates \cup {NoAsk.t}, freeform : BOOLEAN]]
  /\ \A i \in Ids : asks[i].step \in {"ledgered", "served"}
       => asks[i].t \in Templates /\ ValidCriteria(asks[i].t)
  /\ answers \in Seq(AnswerLine) /\ training \in Seq(TrainingLine)
  /\ outcomes \in Seq(OutcomeLine) /\ outcomeExists \subseteq Ids
  /\ reader \in Reader
  /\ reader.kind = "export" => reader.first <= Len(training)
  /\ reader.kind # "export" => reader.first <= Len(answers)
  /\ reader.second <= Len(outcomes)

\* What each line of a file says of the ask whose id it bears.
FitsAnswer(l) ==
  /\ asks[l.id].step \in {"ledgered", "served"} /\ asks[l.id].t = l.t
  /\ validateProbabilities(l.probs, l.t) = "ok" /\ l.answer = deriveAnswer(l.t, l.probs)

FitsTraining(l) ==
  asks[l.id].step = "served" /\ asks[l.id].t = l.t /\ ~asks[l.id].freeform

FitsOutcome(l) ==
  asks[l.id].step = "served" /\ asks[l.id].t = l.t /\ validateTruth(l.t, l.truth)

LinesInv ==
  /\ \A l \in Range(answers) : FitsAnswer(l)
  /\ \A l \in Range(training) : FitsTraining(l)
  /\ \A l \in Range(outcomes) : FitsOutcome(l)

\* The answer derived from an accepted distribution is a number.
LEMMA AnswerIsANumber ==
  ASSUME NEW t \in Templates, ValidCriteria(t), NEW probs, validateProbabilities(probs, t) = "ok"
  PROVE  deriveAnswer(t, probs) \in Int
<1>1. t.type \in QuestionTypes /\ Unit \in Nat
  BY ReportsAssumption, AnswersAssumption
<1>2. DOMAIN probs = KeySet(t) /\ \A k \in KeySet(t) : probs[k] \in 0 .. Unit
  BY AcceptedIs
<1>3. CASE t.type = "noul"
  <2>1. KeySet(t) = 0 .. t.n - 1
    BY <1>1, <1>3, KeysAre, ZenonT(30)
  <2>2. t.n = 2
    BY <1>1, <1>3, KeysAre, ZenonT(30)
  <2>3. probs[1] \in 0 .. Unit
    BY <1>2, <2>1, <2>2
  <2>4. \A p \in 0 .. Unit : p \in Int
    BY <1>1
  <2> QED
    BY <1>3, <2>3, <2>4 DEF deriveAnswer
<1>4. CASE t.type \in {"choice", "score"}
  <2>1. deriveAnswer(t, probs) \in KeySet(t)
    BY <1>2, <1>4, argmaxIsServed
  <2>2. KeySet(t) \subseteq Nat
    BY <1>1, KeySetIs
  <2> QED
    BY <2>1, <2>2
<1> QED
  BY <1>1, <1>3, <1>4 DEF QuestionTypes

\* Nothing is asked, written or read before the first step.
LEMMA InitInv == Init => TypeInv /\ LinesInv
<1> SUFFICES ASSUME Init PROVE TypeInv /\ LinesInv
  OBVIOUS
<1>1. asks = [i \in Ids |-> NoAsk] /\ answers = <<>> /\ training = <<>> /\ outcomes = <<>>
  BY DEF Init
<1>2. NoAsk.step = "none" /\ NoAsk.freeform \in BOOLEAN
  BY DEF NoAsk
<1>3. \A i \in Ids : asks[i] = NoAsk /\ asks[i].step = "none"
  BY <1>1, <1>2
<1>4. asks \in [Ids -> [step : {"none", "unanswered", "ledgered", "served"},
                       t : Templates \cup {NoAsk.t}, freeform : BOOLEAN]]
  BY <1>1 DEF NoAsk
<1>5. outcomeExists \subseteq Ids /\ reader \in Reader /\ reader.kind = "none"
      /\ reader.first = 0 /\ reader.second = 0
  BY DEF Init, Unread, Reader
<1>6. LinesInv
  BY <1>1 DEF LinesInv, Range
<1> QED
  BY <1>1, <1>3, <1>4, <1>5, <1>6 DEF TypeInv

\* A file that gained a line: the lines it had are where they were.
LEMMA Appended ==
  ASSUME NEW S, NEW s \in Seq(S), NEW l \in S
  PROVE  /\ Append(s, l) \in Seq(S) /\ Len(Append(s, l)) = Len(s) + 1 /\ Len(s) \in Nat
         /\ DOMAIN s = 1 .. Len(s) /\ DOMAIN Append(s, l) = 1 .. Len(s) + 1
         /\ Append(s, l)[Len(s) + 1] = l
         /\ \A k \in DOMAIN s : Append(s, l)[k] = s[k] /\ k \in DOMAIN Append(s, l)
         /\ \A k \in DOMAIN Append(s, l) \ DOMAIN s : Append(s, l)[k] = l
OBVIOUS

\* A file that gained a line or none is no shorter.
LEMMA Grown ==
  ASSUME NEW S, NEW s \in Seq(S), NEW l \in S, NEW r, r = Append(s, l) \/ r = s
  PROVE  r \in Seq(S) /\ Len(r) >= Len(s) /\ Len(s) \in Nat /\ Len(r) \in Nat
<1>1. CASE r = Append(s, l)
  BY <1>1, Appended
<1>2. CASE r = s
  BY <1>2
<1> QED
  BY <1>1, <1>2

\* Each step keeps the types.
LEMMA TypeStep == TypeInv /\ [Next]_vars => TypeInv'
<1> SUFFICES ASSUME TypeInv, [Next]_vars PROVE TypeInv'
  OBVIOUS
<1> DEFINE Asks == [Ids -> [step : {"none", "unanswered", "ledgered", "served"},
                            t : Templates \cup {NoAsk.t}, freeform : BOOLEAN]]
           AsksTyped == /\ asks \in Asks
                        /\ \A i \in Ids : asks[i].step \in {"ledgered", "served"}
                             => asks[i].t \in Templates /\ ValidCriteria(asks[i].t)
           ReaderTyped == /\ reader \in Reader
                          /\ reader.kind = "export" => reader.first <= Len(training)
                          /\ reader.kind # "export" => reader.first <= Len(answers)
                          /\ reader.second <= Len(outcomes)
           FilesTyped == /\ answers \in Seq(AnswerLine) /\ training \in Seq(TrainingLine)
                         /\ outcomes \in Seq(OutcomeLine) /\ outcomeExists \subseteq Ids
<1>1. AsksTyped /\ FilesTyped /\ ReaderTyped
  BY DEF TypeInv
<1>2. AsksTyped' /\ FilesTyped' /\ ReaderTyped' => TypeInv'
  BY DEF TypeInv
<1>3. ASSUME NEW i \in Ids, NEW t \in Templates, NEW probs \in Reply(t), Unanswered(i, t, probs)
      PROVE  TypeInv'
  <2>1. AsksTyped'
    <3>1. asks' = [asks EXCEPT ![i].step = "unanswered"]
      BY <1>3 DEF Unanswered
    <3> QED
      BY <1>1, <3>1
  <2>2. UNCHANGED <<answers, training, outcomes, outcomeExists, reader>>
    BY <1>3 DEF Unanswered, files
  <2> QED
    BY <1>1, <1>2, <2>1, <2>2
<1>4. ASSUME NEW i \in Ids, NEW t \in Templates, NEW probs \in Reply(t),
             NEW freeform \in BOOLEAN, Answered(i, t, probs, freeform)
      PROVE  TypeInv'
  <2> DEFINE line == [id |-> i, t |-> t, probs |-> probs, answer |-> deriveAnswer(t, probs)]
  <2>1. AsksTyped'
    <3>1. asks' = [asks EXCEPT ![i] = [step |-> "ledgered", t |-> t, freeform |-> freeform]]
          /\ ValidCriteria(t)
      BY <1>4 DEF Answered
    <3> QED
      BY <1>1, <3>1
  <2>2. line \in AnswerLine
    <3>1. deriveAnswer(t, probs) \in Int
      BY <1>4, AnswerIsANumber DEF Answered
    <3> QED
      BY <3>1 DEF AnswerLine, Replies
  <2>3. answers' = Append(answers, line) \/ answers' = answers
    BY <1>4 DEF Answered
  <2> HIDE DEF line
  <2>4. answers' \in Seq(AnswerLine) /\ Len(answers') >= Len(answers)
        /\ Len(answers) \in Nat /\ Len(answers') \in Nat
    BY <1>1, <2>2, <2>3, Grown
  <2>5. UNCHANGED <<training, outcomes, outcomeExists, reader>>
    BY <1>4 DEF Answered
  <2>6. reader.first \in Nat
    BY <1>1 DEF Reader
  <2>7. ReaderTyped'
    BY <1>1, <2>4, <2>5, <2>6
  <2> QED
    BY <1>1, <1>2, <2>1, <2>4, <2>5, <2>7
<1>5. ASSUME NEW i \in Ids, Served(i) PROVE TypeInv'
  <2> DEFINE line == [id |-> i, t |-> asks[i].t]
  <2>1. AsksTyped'
    <3>1. asks' = [asks EXCEPT ![i].step = "served"] /\ asks[i].step = "ledgered"
      BY <1>5 DEF Served
    <3> QED
      BY <1>1, <3>1
  <2>2. line \in TrainingLine
    BY <1>1, <1>5 DEF TrainingLine, Served
  <2>3. training' = Append(training, line) \/ training' = training
    BY <1>5 DEF Served
  <2> HIDE DEF line
  <2>4. training' \in Seq(TrainingLine) /\ Len(training') >= Len(training)
        /\ Len(training) \in Nat /\ Len(training') \in Nat
    BY <1>1, <2>2, <2>3, Grown
  <2>5. UNCHANGED <<answers, outcomes, outcomeExists, reader>>
    BY <1>5 DEF Served
  <2>6. reader.first \in Nat
    BY <1>1 DEF Reader
  <2>7. ReaderTyped'
    BY <1>1, <2>4, <2>5, <2>6
  <2> QED
    BY <1>1, <1>2, <2>1, <2>4, <2>5, <2>7
<1>6. ASSUME NEW i \in Ids, NEW truth \in Truths, Outcome(i, truth) PROVE TypeInv'
  <2> DEFINE line == [id |-> i, t |-> asks[i].t, truth |-> truth]
  <2>1. line \in OutcomeLine
    BY <1>1, <1>6 DEF OutcomeLine, Outcome
  <2>2. outcomes' = Append(outcomes, line)
    BY <1>6 DEF Outcome
  <2> HIDE DEF line
  <2>3. outcomes' \in Seq(OutcomeLine) /\ Len(outcomes') >= Len(outcomes)
        /\ Len(outcomes) \in Nat /\ Len(outcomes') \in Nat
    BY <1>1, <2>1, <2>2, Grown
  <2>4. UNCHANGED <<asks, answers, training, reader>> /\ outcomeExists' \subseteq Ids
    BY <1>1, <1>6 DEF Outcome
  <2>5. reader.second \in Nat
    BY <1>1 DEF Reader
  <2>6. ReaderTyped'
    BY <1>1, <2>3, <2>4, <2>5
  <2> QED
    BY <1>1, <1>2, <2>3, <2>4, <2>6
<1>7. /\ Len(answers) \in Nat /\ Len(training) \in Nat /\ Len(outcomes) \in Nat
  BY <1>1
<1>8. CASE CalibrationReadsAnswers
  <2>1. reader' = [kind |-> "calibration", step |-> "reading", first |-> Len(answers), second |-> 0]
        /\ UNCHANGED <<asks, answers, training, outcomes, outcomeExists>>
    BY <1>8 DEF CalibrationReadsAnswers, Begin, files
  <2>2. ReaderTyped'
    BY <1>7, <2>1 DEF Reader
  <2> QED
    BY <1>1, <1>2, <2>1, <2>2
<1>9. CASE ExportReadsTraining
  <2>1. reader' = [kind |-> "export", step |-> "reading", first |-> Len(training), second |-> 0]
        /\ UNCHANGED <<asks, answers, training, outcomes, outcomeExists>>
    BY <1>9 DEF ExportReadsTraining, Begin, files
  <2>2. ReaderTyped'
    BY <1>7, <2>1 DEF Reader
  <2> QED
    BY <1>1, <1>2, <2>1, <2>2
<1>10. CASE CalibrationReadsOutcomes \/ ExportReadsOutcomes
  <2>1. reader' = [reader EXCEPT !.step = "done", !.second = Len(outcomes)]
        /\ UNCHANGED <<asks, answers, training, outcomes, outcomeExists>>
    BY <1>10 DEF CalibrationReadsOutcomes, ExportReadsOutcomes, Finish, files
  <2>2. /\ reader'.kind = reader.kind /\ reader'.first = reader.first
        /\ reader'.second = Len(outcomes) /\ reader' \in Reader
    BY <1>1, <1>7, <2>1 DEF Reader
  <2>3. ReaderTyped'
    BY <1>1, <1>7, <2>1, <2>2
  <2> QED
    BY <1>1, <1>2, <2>1, <2>3
<1>11. CASE UNCHANGED vars
  BY <1>1, <1>2, <1>11 DEF vars, files
<1> QED
  BY <1>3, <1>4, <1>5, <1>6, <1>8, <1>9, <1>10, <1>11 DEF Next

\* An ask's template stays what it was answered with, and a served ask served.
Onward(i) ==
  /\ asks'[i].step = asks[i].step \/ (asks[i].step = "ledgered" /\ asks'[i].step = "served")
  /\ asks'[i].t = asks[i].t /\ asks'[i].freeform = asks[i].freeform

\* A line of a file is one.
LEMMA LineOf == ASSUME NEW S, NEW s \in Seq(S), NEW k \in DOMAIN s PROVE s[k] \in S
OBVIOUS

\* Every line of every file has its fields.
LEMMA LineTyped ==
  ASSUME TypeInv
  PROVE  /\ \A k \in DOMAIN answers : answers[k] \in AnswerLine
         /\ \A k \in DOMAIN training : training[k] \in TrainingLine
         /\ \A k \in DOMAIN outcomes : outcomes[k] \in OutcomeLine
<1>1. /\ answers \in Seq(AnswerLine) /\ training \in Seq(TrainingLine)
      /\ outcomes \in Seq(OutcomeLine)
  BY DEF TypeInv
<1> QED
  BY <1>1, LineOf

\* A line keeps fitting its ask as this goes on.
LEMMA StillFits ==
  ASSUME NEW l, Onward(l.id)
  PROVE  /\ FitsAnswer(l) => FitsAnswer(l)'
         /\ FitsTraining(l) => FitsTraining(l)'
         /\ FitsOutcome(l) => FitsOutcome(l)'
<1>1. FitsAnswer(l) => FitsAnswer(l)'
  BY DEF Onward, FitsAnswer
<1>2. FitsTraining(l) => FitsTraining(l)'
  BY DEF Onward, FitsTraining
<1>3. FitsOutcome(l) => FitsOutcome(l)'
  BY DEF Onward, FitsOutcome
<1> QED
  BY <1>1, <1>2, <1>3

\* The lines of a file that gained one are those it had, and that one.
LEMMA RangeAppended ==
  ASSUME NEW S, NEW s \in Seq(S), NEW l \in S PROVE Range(Append(s, l)) \subseteq Range(s) \cup {l}
<1> SUFFICES ASSUME NEW x \in Range(Append(s, l)) PROVE x \in Range(s) \cup {l}
  OBVIOUS
<1>1. PICK k \in DOMAIN Append(s, l) : x = Append(s, l)[k]
  BY DEF Range
<1>2. CASE k \in DOMAIN s
  <2>1. x = s[k]
    BY <1>1, <1>2, Appended
  <2> QED
    BY <1>2, <2>1 DEF Range
<1>3. CASE k \notin DOMAIN s
  <2>1. \A j \in DOMAIN Append(s, l) \ DOMAIN s : Append(s, l)[j] = l
    BY Appended, Zenon
  <2> QED
    BY <1>1, <1>3, <2>1, Zenon
<1> QED
  BY <1>2, <1>3

\* Each step keeps every line true to the ask whose id it bears.
LEMMA LinesStep == TypeInv /\ TypeInv' /\ LinesInv /\ [Next]_vars => LinesInv'
<1> SUFFICES ASSUME TypeInv, TypeInv', LinesInv, [Next]_vars PROVE LinesInv'
  OBVIOUS
<1>1. /\ answers \in Seq(AnswerLine) /\ training \in Seq(TrainingLine)
      /\ outcomes \in Seq(OutcomeLine)
  BY DEF TypeInv
<1>2. /\ \A l \in Range(answers) : l.id \in Ids
      /\ \A l \in Range(training) : l.id \in Ids
      /\ \A l \in Range(outcomes) : l.id \in Ids
  BY LineTyped DEF Range, AnswerLine, TrainingLine, OutcomeLine
<1>3. ASSUME \A i \in Ids : asks[i].step \in {"ledgered", "served"} => Onward(i)
      PROVE  /\ \A l \in Range(answers) : FitsAnswer(l)'
             /\ \A l \in Range(training) : FitsTraining(l)'
             /\ \A l \in Range(outcomes) : FitsOutcome(l)'
  <2>1. ASSUME NEW l \in Range(answers) PROVE FitsAnswer(l)'
    <3>1. Onward(l.id) /\ FitsAnswer(l)
      BY <1>2, <1>3 DEF LinesInv, FitsAnswer
    <3> QED
      BY <3>1, StillFits
  <2>2. ASSUME NEW l \in Range(training) PROVE FitsTraining(l)'
    <3>1. Onward(l.id) /\ FitsTraining(l)
      BY <1>2, <1>3 DEF LinesInv, FitsTraining
    <3> QED
      BY <3>1, StillFits
  <2>3. ASSUME NEW l \in Range(outcomes) PROVE FitsOutcome(l)'
    <3>1. Onward(l.id) /\ FitsOutcome(l)
      BY <1>2, <1>3 DEF LinesInv, FitsOutcome
    <3> QED
      BY <3>1, StillFits
  <2> QED
    BY <2>1, <2>2, <2>3
<1>4. ASSUME NEW i \in Ids, NEW t \in Templates, NEW probs \in Reply(t), Unanswered(i, t, probs)
      PROVE  LinesInv'
  <2>1. \A j \in Ids : asks[j].step \in {"ledgered", "served"} => Onward(j)
    BY <1>4 DEF Unanswered, Onward, TypeInv
  <2>2. UNCHANGED <<answers, training, outcomes>>
    BY <1>4 DEF Unanswered, files
  <2> QED
    BY <1>3, <2>1, <2>2 DEF LinesInv, Range
<1>5. ASSUME NEW i \in Ids, NEW t \in Templates, NEW probs \in Reply(t),
             NEW freeform \in BOOLEAN, Answered(i, t, probs, freeform)
      PROVE  LinesInv'
  <2> DEFINE line == [id |-> i, t |-> t, probs |-> probs, answer |-> deriveAnswer(t, probs)]
  <2>1. asks' = [asks EXCEPT ![i] = [step |-> "ledgered", t |-> t, freeform |-> freeform]]
        /\ asks[i].step = "none" /\ validateProbabilities(probs, t) = "ok" /\ ValidCriteria(t)
    BY <1>5 DEF Answered
  <2>2. \A j \in Ids : asks[j].step \in {"ledgered", "served"} => Onward(j)
    BY <2>1 DEF Onward, TypeInv
  <2>3. answers' = Append(answers, line) \/ answers' = answers
    BY <1>5 DEF Answered
  <2>4. UNCHANGED <<training, outcomes>>
    BY <1>5 DEF Answered
  <2>5. asks'[i].step = "ledgered" /\ asks'[i].t = t
    BY <2>1 DEF TypeInv
  <2>6. FitsAnswer(line)'
    BY <2>1, <2>5 DEF FitsAnswer
  <2>7. line \in AnswerLine
    BY <2>1, AnswerIsANumber DEF AnswerLine, Replies
  <2> HIDE DEF line
  <2>8. Range(answers') \subseteq Range(answers) \cup {line}
    BY <1>1, <2>3, <2>7, RangeAppended
  <2>9. Range(training') = Range(training) /\ Range(outcomes') = Range(outcomes)
    BY <2>4
  <2> QED
    BY <1>3, <2>2, <2>6, <2>8, <2>9 DEF LinesInv
<1>6. ASSUME NEW i \in Ids, Served(i) PROVE LinesInv'
  <2> DEFINE line == [id |-> i, t |-> asks[i].t]
  <2>1. asks' = [asks EXCEPT ![i].step = "served"] /\ asks[i].step = "ledgered"
    BY <1>6 DEF Served
  <2>2. \A j \in Ids : asks[j].step \in {"ledgered", "served"} => Onward(j)
    BY <2>1 DEF Onward, TypeInv
  <2>3. (training' = Append(training, line) /\ ~asks[i].freeform) \/ training' = training
    BY <1>6 DEF Served
  <2>4. UNCHANGED <<answers, outcomes>>
    BY <1>6 DEF Served
  <2>5. asks'[i].step = "served" /\ asks'[i].t = asks[i].t /\ asks'[i].freeform = asks[i].freeform
    BY <2>1 DEF TypeInv
  <2>6. PICK l : l = line
    OBVIOUS
  <2>7. ~asks[i].freeform => FitsTraining(l)'
    BY <2>5, <2>6 DEF FitsTraining
  <2>8. l \in TrainingLine
    BY <2>1, <2>6 DEF TrainingLine, TypeInv
  <2>9. (training' = Append(training, l) /\ ~asks[i].freeform) \/ training' = training
    BY <2>3, <2>6
  <2>10. Range(training') \subseteq Range(training) \cup {l}
    BY <1>1, <2>8, <2>9, RangeAppended
  <2>11. Range(answers') = Range(answers) /\ Range(outcomes') = Range(outcomes)
    BY <2>4
  <2>12. CASE training' = training
    BY <1>3, <2>2, <2>11, <2>12 DEF LinesInv
  <2>13. CASE training' # training
    BY <1>3, <2>2, <2>7, <2>9, <2>10, <2>11, <2>13 DEF LinesInv
  <2> QED
    BY <2>12, <2>13
<1>7. ASSUME NEW i \in Ids, NEW truth \in Truths, Outcome(i, truth) PROVE LinesInv'
  <2>1. PICK l : l = [id |-> i, t |-> asks[i].t, truth |-> truth]
    OBVIOUS
  <2>2. outcomes' = Append(outcomes, l) /\ UNCHANGED <<asks, answers, training>>
        /\ asks[i].step = "served" /\ validateTruth(asks[i].t, truth)
    BY <1>7, <2>1 DEF Outcome
  <2>3. \A j \in Ids : asks[j].step \in {"ledgered", "served"} => Onward(j)
    BY <2>2 DEF Onward
  <2>4. FitsOutcome(l)'
    BY <2>1, <2>2 DEF FitsOutcome
  <2>5. l \in OutcomeLine
    BY <2>1, <2>2 DEF OutcomeLine, TypeInv
  <2>6. Range(outcomes') \subseteq Range(outcomes) \cup {l}
    BY <1>1, <2>2, <2>5, RangeAppended
  <2>7. Range(answers') = Range(answers) /\ Range(training') = Range(training)
    BY <2>2
  <2> QED
    BY <1>3, <2>3, <2>4, <2>6, <2>7 DEF LinesInv
<1>8. CASE \/ CalibrationReadsAnswers \/ CalibrationReadsOutcomes
           \/ ExportReadsTraining \/ ExportReadsOutcomes \/ UNCHANGED vars
  <2>1. UNCHANGED <<asks, answers, training, outcomes>>
    BY <1>8 DEF CalibrationReadsAnswers, CalibrationReadsOutcomes, ExportReadsTraining,
                ExportReadsOutcomes, Begin, Finish, vars, files
  <2>2. \A j \in Ids : asks[j].step \in {"ledgered", "served"} => Onward(j)
    BY <2>1 DEF Onward
  <2> QED
    BY <1>3, <2>1, <2>2 DEF LinesInv
<1> QED
  BY <1>4, <1>5, <1>6, <1>7, <1>8 DEF Next

\* The inductive invariant holds throughout.
LEMMA Kept == Spec => [](TypeInv /\ LinesInv)
<1> QED
  BY InitInv, TypeStep, LinesStep, PTL DEF Spec

-----------------------------------------------------------------------------
(* The types.                                                              *)

\* Whatever is asked, fails to be written or is reported, every line on file is
\* of a drawn id, and a reader has read no more of a file than was in it.
THEOREM ReportsTypes == Spec => []TypeOK
<1>1. TypeInv => TypeOK
  <2> SUFFICES ASSUME TypeInv PROVE TypeOK
    OBVIOUS
  <2>1. IdsOf(answers) \subseteq Ids
    BY LineTyped DEF IdsOf, AnswerLine
  <2>2. IdsOf(training) \subseteq Ids
    BY LineTyped DEF IdsOf, TrainingLine
  <2>3. IdsOf(outcomes) \subseteq Ids
    BY LineTyped DEF IdsOf, OutcomeLine
  <2>4. \A i \in Ids : asks[i].step \in {"none", "unanswered", "ledgered", "served"}
    BY DEF TypeInv
  <2>5. reader.first <= Len(IF reader.kind = "export" THEN training ELSE answers)
    BY DEF TypeInv
  <2> QED
    BY <2>1, <2>2, <2>3, <2>4, <2>5 DEF TypeOK, TypeInv
<1> QED
  BY <1>1, Kept, PTL

-----------------------------------------------------------------------------
(* What the readers read.                                                  *)

\* An outcome line is of an answered question, with a truth it admits.
LEMMA OutcomeIs ==
  ASSUME TypeInv, LinesInv, NEW k \in DOMAIN outcomes
  PROVE  /\ outcomes[k].id \in Ids /\ outcomes[k].t \in Templates
         /\ outcomes[k].truth \in Truths /\ outcomes[k].t = asks[outcomes[k].id].t
         /\ outcomes[k].t.type \in QuestionTypes /\ ValidCriteria(outcomes[k].t)
         /\ validateTruth(outcomes[k].t, outcomes[k].truth)
<1>1. outcomes[k] \in OutcomeLine
  BY LineTyped
<1>2. FitsOutcome(outcomes[k])
  BY DEF LinesInv, Range
<1>3. /\ outcomes[k].id \in Ids /\ outcomes[k].t \in Templates /\ outcomes[k].truth \in Truths
  BY <1>1 DEF OutcomeLine
<1>4. ValidCriteria(asks[outcomes[k].id].t)
  BY <1>2, <1>3 DEF TypeInv, FitsOutcome
<1> QED
  BY <1>2, <1>3, <1>4, ReportsAssumption DEF FitsOutcome

\* A training line is of a served, templated question.
LEMMA TrainingIs ==
  ASSUME TypeInv, LinesInv, NEW k \in DOMAIN training
  PROVE  /\ training[k].id \in Ids /\ training[k].t = asks[training[k].id].t
         /\ ~asks[training[k].id].freeform
<1>1. training[k] \in TrainingLine
  BY LineTyped
<1>2. FitsTraining(training[k])
  BY DEF LinesInv, Range
<1> QED
  BY <1>1, <1>2 DEF TrainingLine, FitsTraining

\* A snapshot is the beginning of its file.
LEMMA Snapshots ==
  ASSUME TypeInv
  PROVE  /\ IsCalibration => /\ CalOutcomes = 1 .. reader.second
                             /\ DOMAIN CalAnswers \subseteq DOMAIN answers
                             /\ DOMAIN CalAnswers = 1 .. reader.first
                             /\ \A j \in DOMAIN CalAnswers : CalAnswers[j] = answers[j]
         /\ ~IsCalibration => CalOutcomes = {}
         /\ 1 .. reader.second \subseteq DOMAIN outcomes
         /\ CalOutcomes \subseteq DOMAIN outcomes /\ IsFiniteSet(CalOutcomes)
         /\ TrainLines \subseteq DOMAIN training /\ IsFiniteSet(TrainLines)
<1>1. /\ answers \in Seq(AnswerLine) /\ training \in Seq(TrainingLine)
      /\ outcomes \in Seq(OutcomeLine)
      /\ reader.first \in Nat /\ reader.second \in Nat /\ reader.second <= Len(outcomes)
      /\ reader.kind = "export" => reader.first <= Len(training)
      /\ reader.kind # "export" => reader.first <= Len(answers)
  BY DEF TypeInv, Reader
<1>2. /\ DOMAIN answers = 1 .. Len(answers) /\ Len(answers) \in Nat
      /\ DOMAIN outcomes = 1 .. Len(outcomes) /\ Len(outcomes) \in Nat
      /\ DOMAIN training = 1 .. Len(training) /\ Len(training) \in Nat
  BY <1>1
<1>3. IsFiniteSet(1 .. reader.second) /\ IsFiniteSet(1 .. reader.first) /\ IsFiniteSet({})
  <2>1. \A n \in Nat : IsFiniteSet(1 .. n)
    BY FS_Interval
  <2> QED
    BY <1>1, <2>1, FS_EmptySet, Zenon
<1>4. 1 .. reader.second \subseteq DOMAIN outcomes
  BY <1>1, <1>2
<1>5. CalOutcomes \subseteq DOMAIN outcomes /\ IsFiniteSet(CalOutcomes)
  BY <1>3, <1>4 DEF CalOutcomes
<1>6. TrainLines \subseteq DOMAIN training /\ IsFiniteSet(TrainLines)
  BY <1>1, <1>2, <1>3 DEF TrainLines, IsExport
<1>7. ASSUME IsCalibration
      PROVE  /\ DOMAIN CalAnswers \subseteq DOMAIN answers /\ DOMAIN CalAnswers = 1 .. reader.first
             /\ \A j \in DOMAIN CalAnswers : CalAnswers[j] = answers[j]
  <2>1. CalAnswers = SubSeq(answers, 1, reader.first) /\ reader.first <= Len(answers)
    BY <1>1, <1>7 DEF CalAnswers, IsCalibration
  <2>2. DOMAIN SubSeq(answers, 1, reader.first) = 1 .. reader.first
    BY <1>1, <1>2, <2>1
  <2>3. \A j \in 1 .. reader.first : SubSeq(answers, 1, reader.first)[j] = answers[j]
    BY <1>1, <1>2, <2>1
  <2> QED
    BY <1>1, <1>2, <2>1, <2>2, <2>3
<1> QED
  BY <1>4, <1>5, <1>6, <1>7 DEF CalOutcomes

\* The answer an outcome is joined to is one of the same ask, as it was accepted
\* and served.
LEMMA AnswerToIs ==
  ASSUME TypeInv, LinesInv, NEW k \in CalOutcomes \ Orphans
  PROVE  /\ k \in DOMAIN outcomes /\ AnswerTo(k).t = outcomes[k].t
         /\ validateProbabilities(AnswerTo(k).probs, outcomes[k].t) = "ok"
         /\ AnswerTo(k).answer = deriveAnswer(outcomes[k].t, AnswerTo(k).probs)
<1> DEFINE mine == {j \in DOMAIN CalAnswers : CalAnswers[j].id = outcomes[k].id}
<1>1. IsCalibration /\ k \in DOMAIN outcomes
  BY Snapshots
<1>2. mine # {}
  BY DEF Orphans, IdsOf
<1>3. /\ DOMAIN CalAnswers = 1 .. reader.first /\ DOMAIN CalAnswers \subseteq DOMAIN answers
      /\ \A j \in DOMAIN CalAnswers : CalAnswers[j] = answers[j]
  BY <1>1, Snapshots
<1>4. IsFiniteSet(mine) /\ mine \subseteq Int
  <2>1. reader.first \in Nat
    BY DEF TypeInv, Reader
  <2>2. IsFiniteSet(1 .. reader.first) /\ 1 .. reader.first \subseteq Int
    BY <2>1, FS_Interval
  <2>3. mine \subseteq 1 .. reader.first
    BY <1>3
  <2> QED
    BY <2>2, <2>3, FS_Subset
<1> HIDE DEF mine
<1>5. PICK j \in mine : j = Max(mine)
  BY <1>2, <1>4, MaxIs
<1>6. AnswerTo(k) = CalAnswers[j]
  BY <1>5 DEF AnswerTo, mine
<1>7. j \in DOMAIN answers /\ AnswerTo(k) = answers[j] /\ answers[j].id = outcomes[k].id
  BY <1>3, <1>6 DEF mine
<1>8. FitsAnswer(answers[j])
  BY <1>7 DEF LinesInv, Range
<1>9. answers[j].t = outcomes[k].t
  BY <1>1, <1>7, <1>8, OutcomeIs DEF FitsAnswer
<1> QED
  BY <1>1, <1>7, <1>8, <1>9 DEF FitsAnswer

\* A joined outcome is scorable, and its truth is a key of the answer's.
LEMMA JoinedIs ==
  ASSUME TypeInv, LinesInv
  PROVE  /\ NotScorable = {} /\ TruthNotAKey = {} /\ Items = CalOutcomes \ Orphans
         /\ \A k \in Items : /\ DOMAIN AnswerTo(k).probs = KeySet(outcomes[k].t)
                             /\ TruthKey(k) \in KeySet(outcomes[k].t)
<1>1. ASSUME NEW k \in CalOutcomes \ Orphans
      PROVE  /\ DOMAIN AnswerTo(k).probs = KeySet(outcomes[k].t) /\ KeySet(outcomes[k].t) # {}
             /\ truthKeyFor(AnswerTo(k).t.type, outcomes[k].truth) = {TruthKey(k)}
             /\ TruthKey(k) \in KeySet(outcomes[k].t)
  <2>1. k \in DOMAIN outcomes /\ AnswerTo(k).t = outcomes[k].t
    BY AnswerToIs
  <2>2. DOMAIN AnswerTo(k).probs = KeySet(outcomes[k].t)
    BY AnswerToIs, AcceptedIs
  <2>3. KeySet(outcomes[k].t) # {}
    BY <2>1, OutcomeIs, KeySetIs
  <2>4. /\ Unmarshals(outcomes[k].t.type, outcomes[k].truth)
        /\ Decoded(outcomes[k].truth) \in KeySet(outcomes[k].t)
    BY <2>1, OutcomeIs, TruthIsAKey
  <2> QED
    BY <2>1, <2>2, <2>3, <2>4 DEF truthKeyFor, TruthKey
<1>2. NotScorable = {}
  BY <1>1 DEF NotScorable
<1>3. TruthNotAKey = {}
  <2> SUFFICES ASSUME NEW k \in TruthNotAKey PROVE FALSE
    OBVIOUS
  <2>1. k \in CalOutcomes \ Orphans
    BY DEF TruthNotAKey
  <2>2. \/ truthKeyFor(AnswerTo(k).t.type, outcomes[k].truth) = {}
        \/ ~ truthKeyFor(AnswerTo(k).t.type, outcomes[k].truth) \subseteq DOMAIN AnswerTo(k).probs
    BY DEF TruthNotAKey
  <2> QED
    BY <1>1, <2>1, <2>2
<1>4. Items = CalOutcomes \ Orphans
  BY <1>2, <1>3 DEF Items
<1> QED
  BY <1>1, <1>2, <1>3, <1>4

\* The decision calibration scores is the one the caller was served.
THEOREM ScoredAsServed == Spec => []ServedAnswerIsScored
<1>1. TypeInv /\ LinesInv => ServedAnswerIsScored
  <2> SUFFICES ASSUME TypeInv, LinesInv, NEW k \in Items, AnswerTo(k).t.type # "noul"
               PROVE  IsCorrect(k) <=> AnswerTo(k).answer = TruthKey(k)
    BY DEF ServedAnswerIsScored
  <2>1. k \in CalOutcomes \ Orphans
    BY JoinedIs
  <2>2. PICK t, probs : t = outcomes[k].t /\ probs = AnswerTo(k).probs
    OBVIOUS
  <2>3. /\ k \in DOMAIN outcomes /\ AnswerTo(k).t = t
        /\ validateProbabilities(probs, t) = "ok" /\ AnswerTo(k).answer = deriveAnswer(t, probs)
    BY <2>1, <2>2, AnswerToIs
  <2>4. t.type \in {"choice", "score"} /\ ValidCriteria(t)
    <3>1. t.type \in QuestionTypes /\ ValidCriteria(t)
      BY <2>2, <2>3, OutcomeIs
    <3> QED
      BY <2>3, <3>1 DEF QuestionTypes
  <2>5. deriveAnswer(t, probs) = argmax(t.type, probs)
    BY <2>3, <2>4, AcceptedIs, argmaxIsServed
  <2>6. BestKey(k) = argmax(t.type, probs)
    BY <2>2, <2>3 DEF BestKey
  <2> QED
    BY <2>3, <2>5, <2>6 DEF IsCorrect
<1> QED
  BY <1>1, Kept, PTL

\* A line's place among the truths for its id, when there is one of them only.
LEMMA OneTruth ==
  ASSUME TypeInv, NEW k, TruthsFor(k) # {}
  PROVE  Min(TruthsFor(k)) \in TruthsFor(k) /\ Min(TruthsFor(k)) \in DOMAIN outcomes
<1>1. TruthsFor(k) \subseteq Nat /\ TruthsFor(k) \subseteq 1 .. reader.second
  BY DEF TruthsFor
<1>2. \E m \in TruthsFor(k) : \A n \in TruthsFor(k) : m <= n
  BY <1>1, LeastNat
<1>3. Min(TruthsFor(k)) \in TruthsFor(k)
  BY <1>2 DEF Min
<1> QED
  BY <1>1, <1>3, Snapshots

\* Every truth the service accepted is one calibration scores and the export
\* labels with; a null, which the export skips, is the only difference.
THEOREM TruthsAreUsable == Spec => []AcceptedTruthUsable
<1>1. TypeInv /\ LinesInv => AcceptedTruthUsable
  <2> SUFFICES ASSUME TypeInv, LinesInv PROVE AcceptedTruthUsable
    OBVIOUS
  <2>1. ASSUME NEW k \in TrainLines, Cardinality(SameId(k)) = 1, Cardinality(TruthsFor(k)) = 1
        PROVE  Tally(k) = "skipped_bad_truth" <=> outcomes[Min(TruthsFor(k))].truth.json = "null"
    <3>1. TruthsFor(k) # {}
      <4>1. Cardinality({}) = 0
        BY FS_EmptySet
      <4> QED
        BY <2>1, <4>1
    <3>2. PICK j \in TruthsFor(k) : j = Min(TruthsFor(k)) /\ j \in DOMAIN outcomes
      BY <3>1, OneTruth
    <3>3. k \in DOMAIN training
      BY <2>1, Snapshots
    <3>4. outcomes[j].id = training[k].id
      BY <3>2 DEF TruthsFor
    <3>5. outcomes[j].t = training[k].t /\ training[k].t.type \in QuestionTypes
          /\ validateTruth(training[k].t, outcomes[j].truth)
      BY <3>2, <3>3, <3>4, OutcomeIs, TrainingIs
    <3>6. Tally(k) = "skipped_bad_truth" <=> ~truthFits(training[k].t.type, outcomes[j].truth)
      BY <2>1, <3>1, <3>2, <3>5 DEF Tally
    <3>7. truthFits(training[k].t.type, outcomes[j].truth) <=> outcomes[j].truth.json # "null"
      <4>1. outcomes[j].truth.json \in {Wanted(training[k].t.type), "null"}
        BY <3>5 DEF validateTruth, Unmarshals
      <4>2. Wanted(training[k].t.type) # "null"
        BY <3>5 DEF Wanted, QuestionTypes
      <4>3. outcomes[j].truth.json # "null" /\ training[k].t.type = "score"
              => outcomes[j].truth.v >= 0
        BY <3>5 DEF validateTruth, Decoded
      <4> QED
        BY <4>1, <4>2, <4>3 DEF truthFits
    <3> QED
      BY <3>2, <3>6, <3>7
  <2> QED
    BY <2>1, JoinedIs DEF AcceptedTruthUsable
<1> QED
  BY <1>1, Kept, PTL

\* What the export writes for an answer is the one truth on file for it when it
\* read the file, one the service accepted for the question that was asked; an
\* answer with two and a free-form one have no row.
THEOREM LabelIsTheTruth == Spec => []ExportedLabelIsTheTruth
<1>1. ASSUME TypeInv, LinesInv, NEW k \in TrainLines, Tally(k) = "exported"
      PROVE  /\ k \in DOMAIN training /\ Cardinality(TruthsFor(k)) = 1
             /\ Min(TruthsFor(k)) \in TruthsFor(k)
             /\ validateTruth(asks[training[k].id].t, outcomes[Min(TruthsFor(k))].truth)
             /\ asks[training[k].id].t = training[k].t /\ ~asks[training[k].id].freeform
  <2>1. TruthsFor(k) # {} /\ ~(Cardinality(TruthsFor(k)) > 1)
    BY <1>1 DEF Tally
  <2>2. Cardinality(TruthsFor(k)) = 1
    <3>1. IsFiniteSet(TruthsFor(k))
      <4>1. reader.second \in Nat
        BY <1>1 DEF TypeInv, Reader
      <4>2. IsFiniteSet(1 .. reader.second)
        BY <4>1, FS_Interval
      <4> QED
        BY <4>2, FS_Subset DEF TruthsFor
    <3>2. Cardinality(TruthsFor(k)) \in Nat /\ Cardinality(TruthsFor(k)) # 0
      BY <2>1, <3>1, FS_CardinalityType, FS_EmptySet
    <3> QED
      BY <2>1, <3>2
  <2>3. PICK j \in TruthsFor(k) : j = Min(TruthsFor(k)) /\ j \in DOMAIN outcomes
    BY <1>1, <2>1, OneTruth
  <2>4. k \in DOMAIN training
    BY <1>1, Snapshots
  <2>5. outcomes[j].id = training[k].id
    BY <2>3 DEF TruthsFor
  <2>6. validateTruth(asks[training[k].id].t, outcomes[j].truth)
    BY <1>1, <2>3, <2>5, OutcomeIs
  <2> QED
    BY <1>1, <2>2, <2>3, <2>4, <2>6, TrainingIs
<1>2. ASSUME TypeInv, LinesInv, NEW r \in Rows
      PROVE  \E k \in TrainLines : /\ Tally(k) = "exported" /\ training[k].id = r.id
                                   /\ training[k].t = r.t
                                   /\ r.label = outcomes[Min(TruthsFor(k))].truth
                                   /\ r = [id |-> training[k].id, t |-> training[k].t,
                                           label |-> outcomes[Min(TruthsFor(k))].truth]
  BY <1>2 DEF Rows
<1>3. \A k, l : training[k].id = training[l].id => TruthsFor(k) = TruthsFor(l)
  BY DEF TruthsFor
<1>4. TypeInv /\ LinesInv => ExportedLabelIsTheTruth
  <2> SUFFICES ASSUME TypeInv, LinesInv, NEW r \in Rows
               PROVE  /\ Cardinality(TruthsFor(CHOOSE k \in TrainLines : training[k].id = r.id)) = 1
                      /\ \E k \in 1 .. reader.second :
                           outcomes[k].id = r.id /\ outcomes[k].truth = r.label
                      /\ validateTruth(asks[r.id].t, r.label) /\ asks[r.id].t = r.t
                      /\ ~asks[r.id].freeform
                      /\ \A q \in Rows : q.id = r.id => q = r
    BY DEF ExportedLabelIsTheTruth
  <2>1. PICK k \in TrainLines : /\ Tally(k) = "exported" /\ training[k].id = r.id
                                /\ training[k].t = r.t
                                /\ r.label = outcomes[Min(TruthsFor(k))].truth
                                /\ r = [id |-> training[k].id, t |-> training[k].t,
                                        label |-> outcomes[Min(TruthsFor(k))].truth]
    BY <1>2
  <2>2. /\ Cardinality(TruthsFor(k)) = 1 /\ Min(TruthsFor(k)) \in TruthsFor(k)
        /\ validateTruth(asks[r.id].t, r.label) /\ asks[r.id].t = r.t /\ ~asks[r.id].freeform
    BY <1>1, <2>1
  <2>3. Cardinality(TruthsFor(CHOOSE l \in TrainLines : training[l].id = r.id)) = 1
    <3>1. PICK l \in TrainLines : /\ training[l].id = r.id
                                  /\ l = CHOOSE m \in TrainLines : training[m].id = r.id
      BY <2>1
    <3> QED
      BY <1>3, <2>1, <2>2, <3>1
  <2>4. \E j \in 1 .. reader.second : outcomes[j].id = r.id /\ outcomes[j].truth = r.label
    BY <2>1, <2>2 DEF TruthsFor
  <2>5. ASSUME NEW q \in Rows, q.id = r.id PROVE q = r
    <3>1. PICK l \in TrainLines : /\ Tally(l) = "exported" /\ training[l].id = q.id
                                  /\ training[l].t = q.t
                                  /\ q.label = outcomes[Min(TruthsFor(l))].truth
                                  /\ q = [id |-> training[l].id, t |-> training[l].t,
                                          label |-> outcomes[Min(TruthsFor(l))].truth]
      BY <1>2
    <3>2. asks[q.id].t = training[l].t
      BY <1>1, <3>1
    <3>3. training[l].t = training[k].t /\ TruthsFor(l) = TruthsFor(k)
      BY <1>3, <2>1, <2>2, <2>5, <3>1, <3>2
    <3> QED
      BY <2>1, <2>5, <3>1, <3>3
  <2> QED
    BY <2>2, <2>3, <2>4, <2>5
<1> QED
  BY <1>4, Kept, PTL

-----------------------------------------------------------------------------
(* The reliability diagram.                                                *)

\* So does that of every item.
LEMMA ItemIsBinned ==
  ASSUME TypeInv, LinesInv, NEW k \in Items
  PROVE  /\ binIndex(Confidence(k)) \in 0 .. NumBins - 1 /\ AnswerTo(k).t \in Templates
         /\ \A j \in KeySet(outcomes[k].t) : AnswerTo(k).probs[j] \in 0 .. Unit
<1>1. k \in CalOutcomes \ Orphans
  BY JoinedIs
<1>2. PICK t, probs : t = outcomes[k].t /\ probs = AnswerTo(k).probs
  OBVIOUS
<1>3. k \in DOMAIN outcomes /\ AnswerTo(k).t = t /\ validateProbabilities(probs, t) = "ok"
  BY <1>1, <1>2, AnswerToIs
<1>4. t.type \in QuestionTypes /\ ValidCriteria(t) /\ t \in Templates
  BY <1>2, <1>3, OutcomeIs
<1>5. DOMAIN probs = KeySet(t) /\ \A j \in KeySet(t) : probs[j] \in 0 .. Unit
  BY <1>3, AcceptedIs
<1>6. probs[argmax(t.type, probs)] \in 0 .. Unit
  BY <1>4, <1>5, argmaxIsAKey
<1>7. Confidence(k) \in 0 .. Unit
  BY <1>2, <1>3, <1>6 DEF Confidence, BestKey
<1> QED
  BY <1>2, <1>3, <1>4, <1>5, <1>7, binIndexIs

\* The bins of a template hold the items of its group.
LEMMA BinnedIs ==
  ASSUME TypeInv, LinesInv, NEW t \in Templates PROVE Binned(t) = Cardinality(Group(t))
<1> DEFINE X == 0 .. NumBins - 1
           c == [b \in X |-> Cardinality(Bin(t, b))]
           part == [b \in X |-> Bin(t, b)]
           f == [k \in Group(t) |-> binIndex(Confidence(k))]
           Def(it) == it = [s \in SUBSET X |-> IF s = {} THEN 0
                              ELSE Cardinality(Bin(t, Pick(s))) + it[s \ {Pick(s)}]]
           sums == CHOOSE it : Def(it)
<1>1. Binned(t) = sums[X]
  BY DEF Binned, MapThenSumSet, MapThenFoldSet, Pick
<1>2. IsFiniteSet(X)
  <2>1. NumBins - 1 \in Int
    BY AnswersAssumption
  <2> QED
    BY <2>1, FS_Interval
<1>3. IsFiniteSet(Group(t)) /\ Group(t) \subseteq Items
  <2>1. Group(t) \subseteq CalOutcomes
    BY DEF Group, Items
  <2> QED
    BY <2>1, Snapshots, FS_Subset DEF Group
<1>4. \A k \in Group(t) : f[k] \in X
  BY <1>3, ItemIsBinned
<1>5. /\ \A b \in X : \A k : k \in part[b] <=> k \in Group(t) /\ f[k] = b
      /\ \A b \in X : c[b] = Cardinality(part[b])
  BY DEF Bin
<1> HIDE DEF X, f, part
<1>6. \A s \in SUBSET X : s # {} => c[Pick(s)] = Cardinality(Bin(t, Pick(s)))
  BY PickIs
<1> HIDE DEF c
<1>7. \A it : Sums(it, c, X) <=> Def(it)
  BY <1>6 DEF Sums
<1>8. Sums(sums, c, X)
  <2>1. \E it : Def(it)
    BY <1>2, <1>7, SumsExist
  <2> QED
    BY <1>7, <2>1
<1> HIDE DEF sums
<1>9. sums[X] = SumOf(c, X)
  BY <1>2, <1>8, SumIs
<1>10. SumOf(c, X) = Cardinality(Group(t))
  BY <1>2, <1>3, <1>4, <1>5, SumParts
<1> QED
  BY <1>1, <1>9, <1>10

\* The groups of all templates hold the items.
LEMMA GroupsHoldItems ==
  ASSUME TypeInv, LinesInv
  PROVE  MapThenSumSet(LAMBDA t : Binned(t), Templates) = Cardinality(Items)
<1> DEFINE c == [t \in Templates |-> Cardinality(Group(t))]
           part == [t \in Templates |-> Group(t)]
           f == [k \in Items |-> AnswerTo(k).t]
           Def(it) == it = [s \in SUBSET Templates |-> IF s = {} THEN 0
                              ELSE Binned(Pick(s)) + it[s \ {Pick(s)}]]
           sums == CHOOSE it : Def(it)
<1>1. MapThenSumSet(LAMBDA t : Binned(t), Templates) = sums[Templates]
  BY DEF MapThenSumSet, MapThenFoldSet, Pick
<1>2. IsFiniteSet(Templates)
  BY ReportsAssumption
<1>3. IsFiniteSet(Items)
  BY Snapshots, FS_Subset DEF Items
<1>4. \A k \in Items : f[k] \in Templates
  BY ItemIsBinned
<1>5. /\ \A t \in Templates : \A k : k \in part[t] <=> k \in Items /\ f[k] = t
      /\ \A t \in Templates : c[t] = Cardinality(part[t])
  BY DEF Group
<1> HIDE DEF f, part
<1>6. \A s \in SUBSET Templates : s # {} => c[Pick(s)] = Binned(Pick(s))
  BY PickIs, BinnedIs
<1> HIDE DEF c
<1>7. \A it : Sums(it, c, Templates) <=> Def(it)
  BY <1>6 DEF Sums
<1>8. Sums(sums, c, Templates)
  <2>1. \E it : Def(it)
    BY <1>2, <1>7, SumsExist
  <2> QED
    BY <1>7, <2>1
<1> HIDE DEF sums
<1>9. sums[Templates] = SumOf(c, Templates)
  BY <1>2, <1>8, SumIs
<1>10. SumOf(c, Templates) = Cardinality(Items)
  BY <1>2, <1>3, <1>4, <1>5, SumParts
<1> QED
  BY <1>1, <1>9, <1>10

\* Every outcome line that calibration read is in exactly one bin of exactly one
\* template's group, or is counted as an orphan: none is lost or counted twice.
THEOREM OutcomesReported == Spec => []EveryOutcomeReported
<1>1. TypeInv /\ LinesInv => EveryOutcomeReported
  <2> SUFFICES ASSUME TypeInv, LinesInv PROVE EveryOutcomeReported
    OBVIOUS
  <2> DEFINE Out == Orphans \cup NotScorable \cup TruthNotAKey
  <2>1. Out \subseteq CalOutcomes /\ Items = CalOutcomes \ Out
    BY DEF Orphans, NotScorable, TruthNotAKey, Items
  <2> HIDE DEF Out
  <2>2. IsFiniteSet(CalOutcomes) /\ IsFiniteSet(Out) /\ CalOutcomes \cap Out = Out
    BY <2>1, Snapshots, FS_Subset
  <2>3. Cardinality(Items) = Cardinality(CalOutcomes) - Cardinality(Out)
    BY <2>1, <2>2, FS_Difference
  <2>4. Cardinality(CalOutcomes) \in Nat /\ Cardinality(Out) \in Nat
    BY <2>2, FS_CardinalityType
  <2>5. MapThenSumSet(LAMBDA t : Binned(t), Templates) = Cardinality(Items)
    BY GroupsHoldItems
  <2>6. Cardinality(Items) + Cardinality(Out) = Cardinality(CalOutcomes)
    BY <2>3, <2>4
  <2> QED
    BY <2>5, <2>6 DEF EveryOutcomeReported, Out
<1> QED
  BY <1>1, Kept, PTL

-----------------------------------------------------------------------------
(* The Brier score.                                                        *)

\* No distribution that was served has a Brier score past 2, but for what the
\* tolerance on its sum allows, whatever the truth.
THEOREM BrierIsBounded == Spec => []BrierWithinTolerance
<1>1. TypeInv /\ LinesInv => BrierWithinTolerance
  <2> SUFFICES ASSUME TypeInv, LinesInv, NEW k \in Items
               PROVE  Brier(k) \in 0 .. 2 * Square(Unit) + Square(Tolerance)
    BY DEF BrierWithinTolerance
  <2>1. k \in CalOutcomes \ Orphans /\ TruthKey(k) \in KeySet(outcomes[k].t)
    BY JoinedIs
  <2>2. k \in DOMAIN outcomes /\ validateProbabilities(AnswerTo(k).probs, outcomes[k].t) = "ok"
    BY <2>1, AnswerToIs
  <2> QED
    BY <2>1, <2>2, OutcomeIs, brierOfIs DEF Brier
<1> QED
  BY <1>1, Kept, PTL
=============================================================================
