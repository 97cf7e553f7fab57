------------------------------- MODULE Answers -------------------------------
(***************************************************************************)
(* The pure part of an answer's life, and the three packages that must     *)
(* agree on it without sharing code: internal/service checks a backend's   *)
(* probabilities, derives the served answer from them and later checks a   *)
(* reported truth; internal/calibration maps that truth onto a probability *)
(* key and scores it; internal/traininglog decides whether it can label a  *)
(* training row.                                                           *)
(*                                                                         *)
(* Probabilities are integers in units of 1/Unit; an integer outside       *)
(* 0 .. Unit stands for NaN, an infinity and every other value the code    *)
(* refuses.  A probability key is a number: a choice option its place in   *)
(* sorted order from 1, a score level its index from 0, noul "true" is 1   *)
(* and "false" is 0.                                                       *)
(***************************************************************************)
EXTENDS Integers, Sequences, FiniteSetsExt

CONSTANTS Unit,       \* 1.0
          Tolerance,  \* probSumTolerance
          NumBins     \* numBins, the bars of the reliability diagram

ASSUME AnswersAssumption ==
  /\ Unit \in Nat \ {0} /\ Tolerance \in 0 .. Unit /\ NumBins \in Nat \ {0}

QuestionTypes == {"choice", "score", "noul"}

-----------------------------------------------------------------------------
(* internal/template: what Validate admits, as (type, number of keys).     *)

ValidCriteria(t) ==
  CASE t.type = "choice" -> t.n \in 2 .. 255
    [] t.type = "score"  -> t.n \in 2 .. 10
    [] t.type = "noul"   -> t.n = 2

\* questionFor: the keys a valid answer carries, in the order it built them.
Keys(t) ==
  CASE t.type = "choice" -> [i \in 1 .. t.n |-> i]
    [] t.type = "score"  -> [i \in 1 .. t.n |-> i - 1]
    [] t.type = "noul"   -> <<1, 0>>

KeySet(t) == {Keys(t)[i] : i \in DOMAIN Keys(t)}

-----------------------------------------------------------------------------
(* internal/service: the reply a backend gave for t, as key -> probability *)

Total(probs) == MapThenSumSet(LAMBDA k : probs[k], DOMAIN probs)

\* Mutant: the sum is not checked.
validateProbabilities_noSum(probs, t) ==
  CASE DOMAIN probs = {} -> "no_probabilities"
    [] DOMAIN probs # {} /\ (\/ DOMAIN probs # KeySet(t)
                             \/ \E k \in DOMAIN probs : probs[k] \notin 0 .. Unit)
         -> "bad_probabilities"
    [] OTHER -> "ok"

validateProbabilities(probs, t) ==
  CASE DOMAIN probs = {} -> "no_probabilities"
    [] DOMAIN probs # {} /\ (\/ DOMAIN probs # KeySet(t)
                             \/ \E k \in DOMAIN probs : probs[k] \notin 0 .. Unit
                             \/ Total(probs) \notin Unit - Tolerance .. Unit + Tolerance)
         -> "bad_probabilities"
    [] OTHER -> "ok"

\* Mutant: >= instead of >, so that the last of two equals wins.
argmaxIndexOf_last(keys, probs) ==
  CHOOSE i \in DOMAIN keys : \A j \in DOMAIN keys :
    \/ probs[keys[j]] < probs[keys[i]]
    \/ probs[keys[j]] = probs[keys[i]] /\ j <= i

argmaxIndexOf(keys, probs) ==
  CHOOSE i \in DOMAIN keys : \A j \in DOMAIN keys :
    \/ probs[keys[j]] < probs[keys[i]]
    \/ probs[keys[j]] = probs[keys[i]] /\ i <= j

\* What the caller is served: a key, or for noul the probability of true.
deriveAnswer(t, probs) ==
  IF t.type = "noul" THEN probs[1] ELSE Keys(t)[argmaxIndexOf(Keys(t), probs)]

(* A truth as JSON: its kind and what it denotes, on the scale of keys;    *)
(* the empty string is 0.  encoding/json takes null for any of the three   *)
(* kinds and leaves the zero value.                                        *)
Truth == [json : {"string", "int", "bool", "null", "absent"}, v : Int]

Wanted(type) == CASE type = "choice" -> "string"
                  [] type = "score"  -> "int"
                  [] type = "noul"   -> "bool"

Unmarshals(type, truth) == truth.json \in {Wanted(type), "null"}

Decoded(truth) == IF truth.json = "null" THEN 0 ELSE truth.v

\* Mutant: a score is only checked against the lowest level.
validateTruth_noUpper(t, truth) ==
  /\ Unmarshals(t.type, truth)
  /\ t.type = "choice" => Decoded(truth) \in KeySet(t)
  /\ t.type = "score"  => Decoded(truth) >= 0

validateTruth(t, truth) ==
  /\ Unmarshals(t.type, truth)
  /\ t.type = "choice" => Decoded(truth) \in KeySet(t)
  /\ t.type = "score"  => Decoded(truth) >= 0 /\ Decoded(truth) < t.n

-----------------------------------------------------------------------------
(* internal/calibration *)

\* Sorting keys as strings: a score's indexes are decimal numerals.
Lead(n) == IF n < 10 THEN n ELSE n \div 10

SortsBefore(type, a, b) ==
  IF type = "score" THEN Lead(a) < Lead(b) \/ (Lead(a) = Lead(b) /\ a < b)
  ELSE a < b

argmax(type, probs) ==
  CHOOSE k \in DOMAIN probs : \A j \in DOMAIN probs \ {k} :
    \/ probs[j] < probs[k]
    \/ probs[j] = probs[k] /\ SortsBefore(type, k, j)

\* truthKeyFor, as the set of its results: none when the truth does not parse.
truthKeyFor(type, truth) == IF Unmarshals(type, truth) THEN {Decoded(truth)} ELSE {}

Square(x) == x * x

brierOf(probs, truth) ==
  MapThenSumSet(LAMBDA k : Square(probs[k] - IF k = truth THEN Unit ELSE 0),
                DOMAIN probs)

\* Mutant: a confidence of 1.0 lands one past the last bin.
binIndex_unclamped(confidence) == (confidence * NumBins) \div Unit

binIndex(confidence) ==
  LET bi == (confidence * NumBins) \div Unit IN
  IF bi >= NumBins THEN NumBins - 1 ELSE IF bi < 0 THEN 0 ELSE bi

-----------------------------------------------------------------------------
(* internal/traininglog: the shape a label must have; null has none.       *)
truthFits(type, truth) ==
  /\ truth.json = Wanted(type)
  /\ type = "score" => truth.v >= 0
=============================================================================
