------------------------------- MODULE Reports -------------------------------
(***************************************************************************)
(* The two offline readers, `typryx calibration` and `typryx export`,      *)
(* beside the service that is still appending to the files they read.      *)
(* Each reads two files with one os.ReadFile after the other, so that its  *)
(* view of a file is the length the file had at that moment, and the       *)
(* service may append to both in between.  A reader writes nothing and     *)
(* keeps nothing, so one of them at a time is followed.  A fragment at the *)
(* end of a snapshot is counted and skipped; it changes nothing else and   *)
(* is left out here.                                                       *)
(***************************************************************************)
EXTENDS Answers

CONSTANTS Ids,        \* answer ids
          Templates,  \* [type, n]: template files and free-form questions
          Reply(_),   \* Reply(t): what a backend may answer t with
          Truths,     \* the truths callers report, a subset of Truth
          Faults      \* the writes that may fail

ASSUME ReportsAssumption ==
  /\ \A t \in Templates : t.type \in QuestionTypes /\ t.n \in Nat
  /\ IsFiniteSet(Templates)
  /\ Truths \subseteq Truth
  /\ \A truth \in Truths : truth.json = "bool" => truth.v \in {0, 1}
  /\ Faults \subseteq {"ledger", "training", "outcome_sync"}

VARIABLES
  asks,           \* asks[i]: how far the ask that drew id i has come
  answers,        \* answers.ndjson
  training,       \* training.ndjson
  outcomes,       \* outcomes.ndjson
  outcomeExists,  \* Ledger.outcomeExists
  reader          \* the reader: the lengths of its two snapshots

files == <<answers, training, outcomes>>
vars  == <<asks, files, outcomeExists, reader>>

NoAsk    == [step |-> "none", t |-> [type |-> "noul", n |-> 2], freeform |-> FALSE]
Unread   == [kind |-> "none", step |-> "idle", first |-> 0, second |-> 0]

IdsOf(lines) == {lines[k].id : k \in DOMAIN lines}

Init ==
  /\ asks = [i \in Ids |-> NoAsk]
  /\ answers = <<>> /\ training = <<>> /\ outcomes = <<>>
  /\ outcomeExists = {}
  /\ reader = Unread

-----------------------------------------------------------------------------
(* The service.                                                            *)

\* A reply that is not a distribution over the template's keys is unanswered:
\* nothing is written and no id is served.
Unanswered(i, t, probs) ==
  /\ asks[i].step = "none" /\ ValidCriteria(t)
  /\ validateProbabilities(probs, t) # "ok"
  /\ asks' = [asks EXCEPT ![i].step = "unanswered"]
  /\ UNCHANGED <<files, outcomeExists, reader>>

Answered(i, t, probs, freeform) ==
  /\ asks[i].step = "none" /\ ValidCriteria(t)
  /\ validateProbabilities(probs, t) = "ok"
  /\ asks' = [asks EXCEPT ![i] = [step |-> "ledgered", t |-> t, freeform |-> freeform]]
  /\ \/ answers' = Append(answers, [id |-> i, t |-> t, probs |-> probs,
                                    answer |-> deriveAnswer(t, probs)])
     \/ "ledger" \in Faults /\ UNCHANGED answers
  /\ UNCHANGED <<training, outcomes, outcomeExists, reader>>

\* Log.Put for a templated ask, then the reply to the caller.
Served(i) ==
  /\ asks[i].step = "ledgered"
  /\ asks' = [asks EXCEPT ![i].step = "served"]
  /\ \/ ~asks[i].freeform /\ training' = Append(training, [id |-> i, t |-> asks[i].t])
     \/ (asks[i].freeform \/ "training" \in Faults) /\ UNCHANGED training
  /\ UNCHANGED <<answers, outcomes, outcomeExists, reader>>

\* Service.Outcome up to PutOutcome; a line whose fsync failed is in the file
\* and not in outcomeExists.
Outcome(i, truth) ==
  /\ asks[i].step = "served" /\ i \in IdsOf(answers)
  /\ validateTruth(asks[i].t, truth)
  /\ i \notin outcomeExists
  /\ outcomes' = Append(outcomes, [id |-> i, t |-> asks[i].t, truth |-> truth])
  /\ \/ outcomeExists' = outcomeExists \cup {i}
     \/ /\ "outcome_sync" \in Faults /\ i \notin IdsOf(outcomes)
        /\ UNCHANGED outcomeExists
  /\ UNCHANGED <<asks, answers, training, reader>>

-----------------------------------------------------------------------------
(* A reader: calibration takes answers, then outcomes; export takes         *)
(* training, then outcomes.                                                *)

Begin(kind, length) ==
  /\ reader.step # "reading"
  /\ reader' = [kind |-> kind, step |-> "reading", first |-> length, second |-> 0]
  /\ UNCHANGED <<asks, files, outcomeExists>>

Finish(kind) ==
  /\ reader.step = "reading" /\ reader.kind = kind
  /\ reader' = [reader EXCEPT !.step = "done", !.second = Len(outcomes)]
  /\ UNCHANGED <<asks, files, outcomeExists>>

CalibrationReadsAnswers  == Begin("calibration", Len(answers))
CalibrationReadsOutcomes == Finish("calibration")

\* Mutant: export reads answers.ndjson.
ExportReadsTraining_answers == Begin("export", Len(answers))

ExportReadsTraining      == Begin("export", Len(training))
ExportReadsOutcomes      == Finish("export")

Next ==
  \/ \E i \in Ids :
       \/ \E t \in Templates : \E probs \in Reply(t) :
            \/ Unanswered(i, t, probs)
            \/ \E freeform \in BOOLEAN : Answered(i, t, probs, freeform)
       \/ Served(i)
       \/ \E truth \in Truths : Outcome(i, truth)
  \/ CalibrationReadsAnswers \/ CalibrationReadsOutcomes
  \/ ExportReadsTraining \/ ExportReadsOutcomes

Spec == Init /\ [][Next]_vars

-----------------------------------------------------------------------------
(* calibration.Run over its snapshots: where each outcome line goes.       *)

IsCalibration == reader.kind = "calibration" /\ reader.step = "done"

CalAnswers  == IF IsCalibration THEN SubSeq(answers, 1, reader.first) ELSE <<>>
CalOutcomes == IF IsCalibration THEN 1 .. reader.second ELSE {}

\* A later line for an id overwrites an earlier one.
AnswerTo(k) ==
  LET mine == {j \in DOMAIN CalAnswers : CalAnswers[j].id = outcomes[k].id} IN
  CalAnswers[Max(mine)]

Orphans == {k \in CalOutcomes : outcomes[k].id \notin IdsOf(CalAnswers)}

NotScorable == {k \in CalOutcomes \ Orphans : DOMAIN AnswerTo(k).probs = {}}

TruthNotAKey ==
  {k \in CalOutcomes \ (Orphans \cup NotScorable) :
     LET key == truthKeyFor(AnswerTo(k).t.type, outcomes[k].truth) IN
     key = {} \/ ~ key \subseteq DOMAIN AnswerTo(k).probs}

Items == CalOutcomes \ (Orphans \cup NotScorable \cup TruthNotAKey)

TruthKey(k)   == Decoded(outcomes[k].truth)
BestKey(k)    == argmax(AnswerTo(k).t.type, AnswerTo(k).probs)
Confidence(k) == AnswerTo(k).probs[BestKey(k)]
IsCorrect(k)  == BestKey(k) = TruthKey(k)
Brier(k)      == brierOf(AnswerTo(k).probs, TruthKey(k))

\* computeGroup: the items of one template in one of its bins.
Group(t)  == {k \in Items : AnswerTo(k).t = t}
Bin(t, b) == {k \in Group(t) : binIndex(Confidence(k)) = b}

-----------------------------------------------------------------------------
(* traininglog.Export over its snapshots: where each training line goes.   *)

IsExport == reader.kind = "export" /\ reader.step = "done"

TrainLines   == IF IsExport THEN 1 .. reader.first ELSE {}
TruthsFor(k) == {j \in 1 .. reader.second : outcomes[j].id = training[k].id}
SameId(k)    == {j \in TrainLines : training[j].id = training[k].id}

\* Mutant: the first of several truths is taken.
Tally_firstTruth(k) ==
  IF Cardinality(SameId(k)) > 1 THEN "skipped_duplicate_id"
  ELSE IF TruthsFor(k) = {} THEN "skipped_no_truth"
  ELSE LET o == outcomes[Min(TruthsFor(k))] IN
       IF o.t # training[k].t THEN "skipped_version_mismatch"
       ELSE IF ~truthFits(training[k].t.type, o.truth) THEN "skipped_bad_truth"
       ELSE "exported"

Tally(k) ==
  IF Cardinality(SameId(k)) > 1 THEN "skipped_duplicate_id"
  ELSE IF TruthsFor(k) = {} THEN "skipped_no_truth"
  ELSE IF Cardinality(TruthsFor(k)) > 1 THEN "skipped_duplicate_id"
  ELSE LET o == outcomes[Min(TruthsFor(k))] IN
       IF o.t # training[k].t THEN "skipped_version_mismatch"
       ELSE IF ~truthFits(training[k].t.type, o.truth) THEN "skipped_bad_truth"
       ELSE "exported"

Rows == {[id |-> training[k].id, t |-> training[k].t,
          label |-> outcomes[Min(TruthsFor(k))].truth] :
           k \in {l \in TrainLines : Tally(l) = "exported"}}

-----------------------------------------------------------------------------
Reader == [kind : {"none", "calibration", "export"},
           step : {"idle", "reading", "done"}, first : Nat, second : Nat]

\* The types of the state: every line is of a drawn id, and a reader has read no
\* more of each of its own two files than was ever in it.
TypeOK ==
  /\ \A i \in Ids : asks[i].step \in {"none", "unanswered", "ledgered", "served"}
  /\ IdsOf(answers) \cup IdsOf(training) \cup IdsOf(outcomes) \subseteq Ids
  /\ outcomeExists \subseteq Ids
  /\ reader \in Reader
  /\ reader.first <= Len(IF reader.kind = "export" THEN training ELSE answers)
  /\ reader.second <= Len(outcomes)

\* The answer calibration calls the model's (its own argmax, ties by the
\* sorted key) is the answer the caller was served (the service's argmax, ties
\* by the question's order): accuracy is that of the decisions taken.
ServedAnswerIsScored ==
  \A k \in Items : AnswerTo(k).t.type # "noul" =>
    (IsCorrect(k) <=> AnswerTo(k).answer = TruthKey(k))

\* "Which already validated it against the SAME answer's Options/Levels": the
\* three packages that judge a truth agree on what the service accepted, but for
\* null.  Calibration scores every such truth, null included; the export, whose
\* truthFits is "the JSON shape a human truth has on /v1/outcome", skips null
\* as a bad truth and nothing else.
AcceptedTruthUsable ==
  /\ TruthNotAKey = {} /\ NotScorable = {}
  /\ \A k \in TrainLines : Cardinality(SameId(k)) = 1 /\ Cardinality(TruthsFor(k)) = 1 =>
       (Tally(k) = "skipped_bad_truth" <=> outcomes[Min(TruthsFor(k))].truth.json = "null")

Binned(t) == MapThenSumSet(LAMBDA b : Cardinality(Bin(t, b)), 0 .. NumBins - 1)

\* Every outcome line read is in exactly one bin of one group, or is an orphan.
EveryOutcomeReported ==
  MapThenSumSet(LAMBDA t : Binned(t), Templates)
    + Cardinality(Orphans \cup NotScorable \cup TruthNotAKey) = Cardinality(CalOutcomes)

\* One answer's Brier score stays within 2 up to what the sum's tolerance
\* allows: no distribution served can push a group's mean past it.
BrierWithinTolerance ==
  \A k \in Items : Brier(k) \in 0 .. 2 * Square(Unit) + Square(Tolerance)

\* An exported label is the one truth on record for that answer at the time,
\* one the service would accept for the question asked, and nothing else; an
\* answer with two truths on file and a free-form one are never exported.
ExportedLabelIsTheTruth ==
  \A r \in Rows :
    /\ Cardinality(TruthsFor(CHOOSE k \in TrainLines : training[k].id = r.id)) = 1
    /\ \E k \in 1 .. reader.second : outcomes[k].id = r.id /\ outcomes[k].truth = r.label
    /\ validateTruth(asks[r.id].t, r.label) /\ asks[r.id].t = r.t
    /\ ~asks[r.id].freeform
    /\ \A q \in Rows : q.id = r.id => q = r
=============================================================================
