---------------------------- MODULE Answers_proofs ----------------------------
(***************************************************************************)
(* Lemmas about the pure part of an answer's life, for every template and  *)
(* distribution: what the keys of a question are, that the service and     *)
(* calibration take the same one for the answer, and how large a Brier     *)
(* score can be.  The proofs of the reports and of the backends cite them. *)
(***************************************************************************)
EXTENDS Answers, Sums

-----------------------------------------------------------------------------
(* A question's keys.                                                      *)

\* The keys of a question that template.Validate admits, by their place.
LEMMA KeysAre ==
  ASSUME NEW t, t.type \in QuestionTypes, ValidCriteria(t)
  PROVE  /\ t.n \in 2 .. 255 /\ DOMAIN Keys(t) = 1 .. t.n
         /\ t.type = "choice" => \A i \in 1 .. t.n : Keys(t)[i] = i
         /\ t.type = "score"  => t.n <= 10 /\ \A i \in 1 .. t.n : Keys(t)[i] = i - 1
         /\ t.type = "noul"   => t.n = 2 /\ Keys(t)[1] = 1 /\ Keys(t)[2] = 0
         /\ t.type = "choice" => KeySet(t) = 1 .. t.n
         /\ t.type # "choice" => KeySet(t) = 0 .. t.n - 1
<1>1. CASE t.type = "choice"
  <2>1. t.n \in 2 .. 255 /\ Keys(t) = [i \in 1 .. t.n |-> i]
    BY <1>1 DEF ValidCriteria, Keys
  <2> QED
    BY <1>1, <2>1 DEF KeySet
<1>2. CASE t.type = "score"
  <2>1. t.n \in 2 .. 10 /\ Keys(t) = [i \in 1 .. t.n |-> i - 1]
    BY <1>2 DEF ValidCriteria, Keys
  <2>2. \A k \in 0 .. t.n - 1 : k + 1 \in 1 .. t.n /\ Keys(t)[k + 1] = k
    BY <2>1
  <2>3. \A i \in 1 .. t.n : Keys(t)[i] = i - 1 /\ i - 1 \in 0 .. t.n - 1
    BY <2>1
  <2>4. DOMAIN Keys(t) = 1 .. t.n
    BY <2>1
  <2>5. KeySet(t) \subseteq 0 .. t.n - 1
    BY <2>3, <2>4 DEF KeySet
  <2>6. 0 .. t.n - 1 \subseteq KeySet(t)
    BY <2>2, <2>4 DEF KeySet
  <2>7. KeySet(t) = 0 .. t.n - 1
    BY <2>5, <2>6
  <2>8. t.n \in 2 .. 255 /\ t.n <= 10
    BY <2>1
  <2> QED
    BY <1>2, <2>3, <2>4, <2>7, <2>8
<1>3. CASE t.type = "noul"
  <2>1. t.n = 2 /\ Keys(t) = <<1, 0>>
    BY <1>3 DEF ValidCriteria, Keys
  <2>2. DOMAIN Keys(t) = 1 .. 2 /\ Keys(t)[1] = 1 /\ Keys(t)[2] = 0
    BY <2>1
  <2> QED
    BY <1>3, <2>1, <2>2 DEF KeySet
<1> QED
  BY <1>1, <1>2, <1>3 DEF QuestionTypes

\* They are finitely many numbers, and each place has one of its own.
LEMMA KeySetIs ==
  ASSUME NEW t, t.type \in QuestionTypes, ValidCriteria(t)
  PROVE  /\ KeySet(t) # {} /\ KeySet(t) \subseteq Nat /\ IsFiniteSet(KeySet(t))
         /\ \A i, j \in DOMAIN Keys(t) : Keys(t)[i] = Keys(t)[j] => i = j
<1>1. t.n \in 2 .. 255
  BY KeysAre
<1>2. KeySet(t) # {} /\ KeySet(t) \subseteq Nat /\ IsFiniteSet(KeySet(t))
  <2>1. PICK lo \in {0, 1}, hi \in Nat : KeySet(t) = lo .. hi /\ lo <= hi
    <3>1. /\ t.type = "choice" => KeySet(t) = 1 .. t.n
          /\ t.type # "choice" => KeySet(t) = 0 .. t.n - 1
      BY KeysAre, Zenon
    <3>2. t.n \in Nat /\ t.n - 1 \in Nat /\ 1 <= t.n /\ 0 <= t.n - 1
      BY <1>1
    <3> QED
      BY <3>1, <3>2, Zenon
  <2>2. IsFiniteSet(lo .. hi)
    BY FS_Interval
  <2>3. lo \in lo .. hi /\ lo .. hi \subseteq Nat
    BY <2>1
  <2> QED
    BY <2>1, <2>2, <2>3
<1>3. \A i, j \in DOMAIN Keys(t) : Keys(t)[i] = Keys(t)[j] => i = j
  <2>0. DOMAIN Keys(t) = 1 .. t.n
    BY KeysAre
  <2> SUFFICES ASSUME NEW i \in 1 .. t.n, NEW j \in 1 .. t.n, Keys(t)[i] = Keys(t)[j]
               PROVE  i = j
    BY <2>0
  <2>1. CASE t.type = "noul"
    <3>1. i \in {1, 2} /\ j \in {1, 2}
      BY <2>1, KeysAre
    <3> QED
      BY <2>1, <3>1, KeysAre
  <2>2. CASE t.type \in {"choice", "score"}
    BY <2>2, KeysAre
  <2> QED
    BY <2>1, <2>2 DEF QuestionTypes
<1> QED
  BY <1>2, <1>3

\* A distribution the service has accepted: every key's probability is one, and
\* they add up to Unit within the tolerance.
LEMMA AcceptedIs ==
  ASSUME NEW t, NEW probs, validateProbabilities(probs, t) = "ok"
  PROVE  /\ DOMAIN probs = KeySet(t) /\ \A k \in KeySet(t) : probs[k] \in 0 .. Unit
         /\ SumOf(probs, KeySet(t)) \in Unit - Tolerance .. Unit + Tolerance
<1>1. Total(probs) = SumOf(probs, DOMAIN probs)
  BY DEF Total, SumOf
<1> QED
  BY <1>1 DEF validateProbabilities

-----------------------------------------------------------------------------
(* The two argmaxes.                                                       *)

\* The service's index is of a greatest probability, the first of equals.
LEMMA argmaxIndexIs ==
  ASSUME NEW n \in Nat \ {0}, NEW keys, DOMAIN keys = 1 .. n, NEW probs,
         \A i \in 1 .. n : probs[keys[i]] \in 0 .. Unit
  PROVE  /\ argmaxIndexOf(keys, probs) \in 1 .. n
         /\ \A j \in 1 .. n :
              \/ probs[keys[j]] < probs[keys[argmaxIndexOf(keys, probs)]]
              \/ /\ probs[keys[j]] = probs[keys[argmaxIndexOf(keys, probs)]]
                 /\ argmaxIndexOf(keys, probs) <= j
<1> DEFINE Best(i) == \A j \in 1 .. n :
             \/ probs[keys[j]] < probs[keys[i]]
             \/ probs[keys[j]] = probs[keys[i]] /\ i <= j
           Room == {Unit - probs[keys[i]] : i \in 1 .. n}
<1>1. Unit \in Nat
  BY AnswersAssumption
<1>2. PICK m \in Room : \A r \in Room : m <= r
  <2>1. Room \subseteq Nat
    BY <1>1
  <2>2. Unit - probs[keys[1]] \in Room
    OBVIOUS
  <2> HIDE DEF Room
  <2> QED
    BY <2>1, <2>2, LeastNat
<1> DEFINE First == {i \in 1 .. n : Unit - probs[keys[i]] = m}
<1>3. PICK i \in First : \A j \in First : i <= j
  <2>1. First \subseteq Nat /\ First # {}
    BY <1>2
  <2> HIDE DEF First
  <2> QED
    BY <2>1, LeastNat
<1>4. i \in 1 .. n /\ Best(i)
  <2> SUFFICES ASSUME NEW j \in 1 .. n
               PROVE  \/ probs[keys[j]] < probs[keys[i]]
                      \/ probs[keys[j]] = probs[keys[i]] /\ i <= j
    BY <1>3
  <2>1. m <= Unit - probs[keys[j]] /\ Unit - probs[keys[i]] = m
    BY <1>2, <1>3
  <2>2. probs[keys[i]] \in 0 .. Unit /\ probs[keys[j]] \in 0 .. Unit
    BY <1>3
  <2>3. CASE m = Unit - probs[keys[j]]
    BY <1>1, <1>3, <2>1, <2>2, <2>3
  <2>4. CASE m # Unit - probs[keys[j]]
    BY <1>1, <2>1, <2>2, <2>4
  <2> QED
    BY <2>3, <2>4
<1>5. argmaxIndexOf(keys, probs) = CHOOSE l \in 1 .. n : Best(l)
  BY DEF argmaxIndexOf
<1> HIDE DEF Best
<1>6. argmaxIndexOf(keys, probs) \in 1 .. n /\ Best(argmaxIndexOf(keys, probs))
  BY <1>4, <1>5
<1> QED
  BY <1>6 DEF Best

\* Calibration's argmax over the sorted keys is the key the service serves: the
\* scores' keys, 0 to 9, sort as numerals as they do as numbers.
LEMMA argmaxIsServed ==
  ASSUME NEW t, t.type \in {"choice", "score"}, ValidCriteria(t), NEW probs,
         DOMAIN probs = KeySet(t), \A k \in KeySet(t) : probs[k] \in 0 .. Unit
  PROVE  /\ deriveAnswer(t, probs) = argmax(t.type, probs)
         /\ argmax(t.type, probs) \in KeySet(t)
<1> DEFINE best == argmaxIndexOf(Keys(t), probs)
           Wins(k) == \A j \in KeySet(t) \ {k} :
                        \/ probs[j] < probs[k]
                        \/ probs[j] = probs[k] /\ SortsBefore(t.type, k, j)
<1>1. /\ t.n \in 2 .. 255 /\ DOMAIN Keys(t) = 1 .. t.n /\ KeySet(t) \subseteq Nat
      /\ \A i, j \in 1 .. t.n : Keys(t)[i] = Keys(t)[j] => i = j
      /\ \A i \in 1 .. t.n : Keys(t)[i] \in KeySet(t)
  <2>1. t.type \in QuestionTypes
    BY DEF QuestionTypes
  <2>2. t.n \in 2 .. 255 /\ DOMAIN Keys(t) = 1 .. t.n
    BY <2>1, KeysAre
  <2> QED
    BY <2>1, <2>2, KeySetIs DEF KeySet
<1>2. \A i, j \in 1 .. t.n : i <= j => i = j \/ SortsBefore(t.type, Keys(t)[i], Keys(t)[j])
  <2> SUFFICES ASSUME NEW i \in 1 .. t.n, NEW j \in 1 .. t.n, i <= j, i # j
               PROVE  SortsBefore(t.type, Keys(t)[i], Keys(t)[j])
    OBVIOUS
  <2>1. CASE t.type = "choice"
    <3>1. Keys(t)[i] = i /\ Keys(t)[j] = j
      BY <2>1, KeysAre DEF QuestionTypes
    <3> QED
      BY <1>1, <2>1, <3>1 DEF SortsBefore
  <2>2. CASE t.type = "score"
    <3>1. t.n <= 10 /\ Keys(t)[i] = i - 1 /\ Keys(t)[j] = j - 1
      BY <2>2, KeysAre DEF QuestionTypes
    <3>2. i - 1 \in 0 .. 9 /\ j - 1 \in 0 .. 9 /\ i - 1 < j - 1
      <4>1. PICK n \in 2 .. 255 : n = t.n
        BY <1>1, Zenon
      <4>2. i \in 1 .. n /\ j \in 1 .. n /\ n <= 10
        BY <3>1, <4>1
      <4> QED
        BY <4>2
    <3>3. Lead(i - 1) = i - 1 /\ Lead(j - 1) = j - 1
      BY <3>2 DEF Lead
    <3> QED
      BY <2>2, <3>1, <3>2, <3>3 DEF SortsBefore
  <2> QED
    BY <2>1, <2>2
<1>3. \A a, b \in KeySet(t) : ~(SortsBefore(t.type, a, b) /\ SortsBefore(t.type, b, a))
  <2> SUFFICES ASSUME NEW a \in KeySet(t), NEW b \in KeySet(t)
               PROVE  ~(SortsBefore(t.type, a, b) /\ SortsBefore(t.type, b, a))
    OBVIOUS
  <2>1. a \in Nat /\ b \in Nat
    BY <1>1
  <2>2. Lead(a) \in Int /\ Lead(b) \in Int
    BY <2>1 DEF Lead
  <2> QED
    BY <2>1, <2>2 DEF SortsBefore
<1>4. /\ best \in 1 .. t.n
      /\ \A j \in 1 .. t.n :
           \/ probs[Keys(t)[j]] < probs[Keys(t)[best]]
           \/ probs[Keys(t)[j]] = probs[Keys(t)[best]] /\ best <= j
  <2>1. t.n \in Nat \ {0}
    <3>1. \A n \in 2 .. 255 : n \in Nat \ {0}
      OBVIOUS
    <3> QED
      BY <1>1, <3>1, Zenon
  <2>2. \A i \in 1 .. t.n : probs[Keys(t)[i]] \in 0 .. Unit
    BY <1>1, Zenon
  <2> QED
    BY <1>1, <2>1, <2>2, argmaxIndexIs
<1> HIDE DEF best
<1>5. Keys(t)[best] \in KeySet(t) /\ Wins(Keys(t)[best])
  <2>1. Keys(t)[best] \in KeySet(t)
    BY <1>1, <1>4
  <2> SUFFICES ASSUME NEW k \in KeySet(t), k # Keys(t)[best]
               PROVE  \/ probs[k] < probs[Keys(t)[best]]
                      \/ probs[k] = probs[Keys(t)[best]] /\ SortsBefore(t.type, Keys(t)[best], k)
    BY <2>1
  <2>2. PICK j \in 1 .. t.n : k = Keys(t)[j]
    BY <1>1 DEF KeySet
  <2> QED
    BY <1>2, <1>4, <2>2
<1>6. \A a, b \in KeySet(t) : Wins(a) /\ Wins(b) => a = b
  <2> SUFFICES ASSUME NEW a \in KeySet(t), NEW b \in KeySet(t), Wins(a), Wins(b), a # b
               PROVE  FALSE
    OBVIOUS
  <2>1. probs[a] \in Int /\ probs[b] \in Int
    <3>1. Unit \in Nat
      BY AnswersAssumption
    <3> QED
      BY <3>1
  <2>2. /\ \/ probs[b] < probs[a]
           \/ probs[b] = probs[a] /\ SortsBefore(t.type, a, b)
        /\ \/ probs[a] < probs[b]
           \/ probs[a] = probs[b] /\ SortsBefore(t.type, b, a)
    OBVIOUS
  <2> QED
    BY <1>3, <2>1, <2>2
<1>7. argmax(t.type, probs) = CHOOSE k \in KeySet(t) : Wins(k)
  BY DEF argmax
<1>8. deriveAnswer(t, probs) = Keys(t)[best]
  BY DEF deriveAnswer, best
<1> HIDE DEF Wins
<1>9. argmax(t.type, probs) \in KeySet(t) /\ Wins(argmax(t.type, probs))
  BY <1>5, <1>7
<1> QED
  BY <1>5, <1>6, <1>8, <1>9

\* Calibration's argmax is a key of any question's, noul's two included.
LEMMA argmaxIsAKey ==
  ASSUME NEW t, t.type \in QuestionTypes, ValidCriteria(t), NEW probs,
         DOMAIN probs = KeySet(t), \A k \in KeySet(t) : probs[k] \in 0 .. Unit
  PROVE  argmax(t.type, probs) \in KeySet(t)
<1>1. CASE t.type \in {"choice", "score"}
  BY <1>1, argmaxIsServed
<1>2. CASE t.type = "noul"
  <2> DEFINE Wins(k) == \A j \in DOMAIN probs \ {k} :
                          \/ probs[j] < probs[k]
                          \/ probs[j] = probs[k] /\ SortsBefore(t.type, k, j)
  <2>1. DOMAIN probs = {0, 1}
    <3>1. KeySet(t) = 0 .. t.n - 1 /\ t.n = 2
      BY <1>2, KeysAre, Zenon
    <3> QED
      BY <3>1
  <2>2. SortsBefore(t.type, 0, 1)
    BY <1>2 DEF SortsBefore
  <2>3. probs[0] \in Int /\ probs[1] \in Int
    BY <2>1, AnswersAssumption
  <2>4. Wins(0) \/ Wins(1)
    BY <2>1, <2>2, <2>3
  <2>5. argmax(t.type, probs) = CHOOSE k \in DOMAIN probs : Wins(k)
    BY DEF argmax
  <2> HIDE DEF Wins
  <2> QED
    BY <2>1, <2>4, <2>5
<1> QED
  BY <1>1, <1>2 DEF QuestionTypes

-----------------------------------------------------------------------------
(* The bins of the reliability diagram, and the Brier score.               *)

\* A confidence falls into one of the bins, 1.0 into the last.
LEMMA binIndexIs ==
  ASSUME NEW confidence \in 0 .. Unit PROVE binIndex(confidence) \in 0 .. NumBins - 1
<1>1. Unit \in Nat \ {0} /\ NumBins \in Nat \ {0}
  BY AnswersAssumption
<1>2. confidence * NumBins \in Int
  BY <1>1
<1>3. PICK x \in Int : x = confidence * NumBins
  BY <1>2
<1>4. x \div Unit \in Int
  BY <1>1
<1>5. PICK bi \in Int : bi = x \div Unit
  BY <1>4
<1>6. binIndex(confidence) = IF bi >= NumBins THEN NumBins - 1 ELSE IF bi < 0 THEN 0 ELSE bi
  BY <1>3, <1>5 DEF binIndex
<1> QED
  BY <1>1, <1>5, <1>6

\* Squares of numbers are ordered as the numbers are.
LEMMA Squares ==
  ASSUME NEW a \in Nat, NEW b \in Nat, a <= b PROVE a * a <= b * b /\ a * a \in Nat
<1>1. PICK d \in Nat : b = a + d
  BY SMT
<1>2. b * b = a * a + 2 * (a * d) + d * d
  BY <1>1, SMT
<1>3. a * a \in Nat /\ a * d \in Nat /\ d * d \in Nat
  BY <1>1, SMT
<1> QED
  BY <1>2, <1>3, SMT

\* One more number b, at most u, adds its square at most to the largest sum of
\* squares that numbers of at most u and of sum a can have: a * a, or, past u,
\* that of one u and the rest.
LEMMA OneMoreSquare ==
  ASSUME NEW u \in Nat, NEW a \in Nat, NEW b \in 0 .. u, NEW q \in Nat,
         a <= u => q <= a * a,
         u <= a /\ a <= 2 * u => q <= u * u + (a - u) * (a - u)
  PROVE  /\ a + b <= u => q + b * b <= (a + b) * (a + b)
         /\ u <= a + b /\ a + b <= 2 * u => q + b * b <= u * u + (a + b - u) * (a + b - u)
<1>1. ASSUME a + b <= u PROVE q + b * b <= (a + b) * (a + b)
  <2>1. (a + b) * (a + b) = a * a + 2 * (a * b) + b * b /\ a * b \in Nat
    BY SMT
  <2> QED
    BY <1>1, <2>1, SMT
<1>2. ASSUME u <= a + b, a + b <= 2 * u
      PROVE  q + b * b <= u * u + (a + b - u) * (a + b - u)
  <2>1. CASE a <= u
    <3>1. PICK c \in Nat, d \in Nat : a = u - c /\ b = u - d /\ c * d \in Nat
      BY <2>1, SMT
    <3>2. /\ a * a + b * b = 2 * (u * u) - 2 * (u * c) - 2 * (u * d) + c * c + d * d
          /\ u * u + (a + b - u) * (a + b - u)
               = 2 * (u * u) - 2 * (u * c) - 2 * (u * d) + c * c + d * d + 2 * (c * d)
      BY <3>1, SMT
    <3>3. q + b * b <= a * a + b * b
      BY <2>1, SMT
    <3> QED
      BY <3>1, <3>2, <3>3, SMT
  <2>2. CASE u < a
    <3>1. PICK e \in Nat : a = u + e /\ e * b \in Nat
      BY <2>2, SMT
    <3>2. /\ (a + b - u) * (a + b - u) = e * e + 2 * (e * b) + b * b
          /\ (a - u) * (a - u) = e * e
      BY <3>1, SMT
    <3>3. q <= u * u + e * e
      BY <1>2, <2>2, <3>2, SMT
    <3> QED
      BY <3>1, <3>2, <3>3, SMT
  <2> QED
    BY <2>1, <2>2, SMT
<1> QED
  BY <1>1, <1>2

\* So many squares, of numbers of at most u that add up to at most u + w, add up
\* to at most u * u + w * w.
LEMMA SquaresSum ==
  ASSUME NEW K, IsFiniteSet(K), NEW u \in Nat, NEW w \in 0 .. u,
         NEW p, \A k \in K : p[k] \in 0 .. u, SumOf(p, K) <= u + w,
         NEW sq, \A k \in K : sq[k] = p[k] * p[k]
  PROVE  SumOf(sq, K) \in Nat /\ SumOf(sq, K) <= u * u + w * w
<1> DEFINE Fits(a, q) == /\ a \in Nat /\ q \in Nat
                         /\ a <= u => q <= a * a
                         /\ u <= a /\ a <= 2 * u => q <= u * u + (a - u) * (a - u)
           T == {s \in SUBSET K : Fits(SumOf(p, s), SumOf(sq, s))}
<1>1. \A k \in K : p[k] \in Nat /\ p[k] <= u /\ sq[k] \in Nat
  <2> SUFFICES ASSUME NEW k \in K PROVE p[k] \in Nat /\ p[k] <= u /\ sq[k] \in Nat
    OBVIOUS
  <2>1. PICK b \in 0 .. u : b = p[k]
    OBVIOUS
  <2>2. b \in Nat /\ b <= u /\ b * b \in Nat
    BY Squares
  <2> QED
    BY <2>1, <2>2
<1>2. ASSUME NEW s \in SUBSET K, \A x \in s : s \ {x} \in T PROVE s \in T
  <2>1. CASE s = {}
    <3>1. SumOf(p, s) = 0 /\ SumOf(sq, s) = 0
      BY <2>1, SumEmpty
    <3>2. 0 * 0 = 0 /\ u * u \in Nat /\ (0 - u) * (0 - u) \in Nat
      BY SMT
    <3>3. Fits(0, 0)
      BY <3>2, SMT
    <3> HIDE DEF Fits
    <3> QED
      BY <3>1, <3>3
  <2>2. CASE s # {}
    <3>1. PICK x \in s : /\ SumOf(p, s) = p[x] + SumOf(p, s \ {x})
                         /\ SumOf(sq, s) = sq[x] + SumOf(sq, s \ {x})
      BY <2>2, SumPick, FS_Subset
    <3>2. PICK a, q : a = SumOf(p, s \ {x}) /\ q = SumOf(sq, s \ {x})
      OBVIOUS
    <3>3. PICK b \in 0 .. u : b = p[x] /\ b * b = sq[x]
      BY <3>1
    <3>4. Fits(a, q)
      <4>1. s \ {x} \in T
        BY <1>2, <3>1
      <4> HIDE DEF Fits
      <4> QED
        BY <3>2, <4>1
    <3>5. Fits(a + b, q + b * b)
      <4>1. a \in Nat /\ q \in Nat /\ a + b \in Nat
        BY <3>4
      <4>2. b * b \in Nat
        BY Squares
      <4>3. /\ a + b <= u => q + b * b <= (a + b) * (a + b)
            /\ u <= a + b /\ a + b <= 2 * u
                 => q + b * b <= u * u + (a + b - u) * (a + b - u)
        BY <3>4, OneMoreSquare
      <4> QED
        BY <4>1, <4>2, <4>3
    <3>6. SumOf(p, s) = a + b /\ SumOf(sq, s) = q + b * b
      BY <1>1, <3>1, <3>2, <3>3, <3>4
    <3> HIDE DEF Fits
    <3> QED
      BY <3>5, <3>6
  <2> QED
    BY <2>1, <2>2
<1>3. Fits(SumOf(p, K), SumOf(sq, K))
  <2> HIDE DEF T, Fits
  <2>1. K \in T
    BY <1>2, SetInduct
  <2> QED
    BY <2>1 DEF T
<1>4. PICK a \in Nat, q \in Nat : a = SumOf(p, K) /\ q = SumOf(sq, K) /\ Fits(a, q)
  BY <1>3
<1>5. w \in Nat /\ w <= u /\ a <= u + w /\ u * u \in Nat /\ w * w \in Nat
  BY <1>4, Squares
<1>6. CASE a <= u
  <2>1. a * a <= u * u
    BY <1>6, Squares
  <2>2. q <= a * a
    BY <1>4, <1>6
  <2>3. a * a \in Nat
    BY Squares
  <2> QED
    BY <1>4, <1>5, <2>1, <2>2, <2>3
<1>7. CASE u < a
  <2>1. a - u \in Nat /\ a - u <= w /\ a <= 2 * u
    BY <1>5, <1>7
  <2>2. (a - u) * (a - u) <= w * w /\ (a - u) * (a - u) \in Nat
    BY <1>5, <2>1, Squares
  <2>3. q <= u * u + (a - u) * (a - u)
    BY <1>4, <1>7, <2>1
  <2> QED
    BY <1>4, <1>5, <2>2, <2>3
<1> QED
  BY <1>6, <1>7

\* The Brier score of a distribution that was accepted, against a key of it.
LEMMA brierOfIs ==
  ASSUME NEW t, t.type \in QuestionTypes, ValidCriteria(t), NEW probs,
         validateProbabilities(probs, t) = "ok", NEW truth \in KeySet(t)
  PROVE  brierOf(probs, truth) \in 0 .. 2 * Square(Unit) + Square(Tolerance)
<1> DEFINE K == KeySet(t)
           d == [k \in K |-> Square(probs[k] - IF k = truth THEN Unit ELSE 0)]
           Def(it) == it = [s \in SUBSET K |-> IF s = {} THEN 0
                              ELSE Square(probs[Pick(s)] - IF Pick(s) = truth THEN Unit ELSE 0)
                                     + it[s \ {Pick(s)}]]
           sums == CHOOSE it : Def(it)
           sq == [k \in K |-> probs[k] * probs[k]]
<1>1. /\ DOMAIN probs = K /\ \A k \in K : probs[k] \in 0 .. Unit
      /\ SumOf(probs, K) \in Unit - Tolerance .. Unit + Tolerance
  BY AcceptedIs
<1>2. IsFiniteSet(K)
  BY KeySetIs
<1>3. brierOf(probs, truth) = sums[K]
  BY <1>1 DEF brierOf, MapThenSumSet, MapThenFoldSet, Pick
<1>4. \A k \in K : d[k] = Square(probs[k] - IF k = truth THEN Unit ELSE 0)
  OBVIOUS
<1> HIDE DEF K, d
<1>5. \A s \in SUBSET K :
        s # {} => d[Pick(s)] = Square(probs[Pick(s)] - IF Pick(s) = truth THEN Unit ELSE 0)
  BY <1>4, PickIs
<1>6. \A it : Sums(it, d, K) <=> Def(it)
  BY <1>5 DEF Sums
<1>7. Sums(sums, d, K)
  <2>1. \E it : Def(it)
    BY <1>2, <1>6, SumsExist
  <2> QED
    BY <1>6, <2>1
<1> HIDE DEF sums
<1>8. sums[K] = SumOf(d, K)
  BY <1>2, <1>7, SumIs
<1>9. PICK u \in Nat, w \in Nat : u = Unit /\ w = Tolerance /\ w \in 0 .. u
  BY AnswersAssumption
<1>10. \A k \in K \ {truth} : d[k] = sq[k] /\ sq[k] = probs[k] * probs[k]
  <2> SUFFICES ASSUME NEW k \in K \ {truth} PROVE d[k] = sq[k] /\ sq[k] = probs[k] * probs[k]
    OBVIOUS
  <2>1. d[k] = Square(probs[k] - 0)
    BY <1>4
  <2>2. probs[k] \in Int
    BY <1>1, <1>9
  <2>3. probs[k] - 0 = probs[k]
    BY <2>2
  <2> QED
    BY <2>1, <2>3 DEF Square
<1> HIDE DEF sq
<1>11. PICK c \in 0 .. u : c = probs[truth] /\ d[truth] = (c - u) * (c - u)
  <2>1. truth \in K
    BY DEF K
  <2> QED
    BY <1>1, <1>4, <1>9, <2>1 DEF Square
<1>12. (c - u) * (c - u) \in Nat /\ (c - u) * (c - u) <= u * u
  <2>1. u - c \in Nat /\ u - c <= u /\ (c - u) * (c - u) = (u - c) * (u - c)
    BY SMT
  <2> QED
    BY <2>1, Squares
<1>13. IsFiniteSet(K \ {truth}) /\ truth \in K
  BY <1>2, FS_RemoveElement DEF K
<1>14. SumOf(probs, K \ {truth}) <= u + w
  <2>1. \A k \in K : probs[k] \in Int
    BY <1>1, <1>9
  <2>2. SumOf(probs, K) = c + SumOf(probs, K \ {truth})
    BY <1>2, <1>11, <1>13, <2>1, SumRemove
  <2>3. SumOf(probs, K \ {truth}) \in Int
    BY <1>2, <2>1, SumInt
  <2>4. SumOf(probs, K) <= u + w
    BY <1>1, <1>9
  <2> QED
    BY <2>2, <2>3, <2>4
<1>15. SumOf(sq, K \ {truth}) \in Nat /\ SumOf(sq, K \ {truth}) <= u * u + w * w
  <2>1. PICK R : R = K \ {truth}
    OBVIOUS
  <2>2. \A k \in R : probs[k] \in 0 .. u
    BY <1>1, <1>9, <2>1
  <2>3. \A k \in R : sq[k] = probs[k] * probs[k]
    BY <1>10, <2>1
  <2>4. IsFiniteSet(R) /\ SumOf(probs, R) <= u + w
    BY <1>13, <1>14, <2>1
  <2>5. SumOf(sq, R) \in Nat /\ SumOf(sq, R) <= u * u + w * w
    BY <1>9, <2>2, <2>3, <2>4, SquaresSum
  <2> QED
    BY <2>1, <2>5
<1>16. SumOf(d, K \ {truth}) = SumOf(sq, K \ {truth})
  BY <1>10, <1>13, SumSame
<1>17. \A k \in K : d[k] \in Int
  <2> SUFFICES ASSUME NEW k \in K PROVE d[k] \in Int
    OBVIOUS
  <2>1. CASE k = truth
    BY <1>11, <1>12, <2>1
  <2>2. CASE k # truth
    <3>1. PICK b \in 0 .. u : b = probs[k]
      BY <1>1, <1>9
    <3>2. b * b \in Nat
      BY Squares
    <3> QED
      BY <1>10, <2>2, <3>1, <3>2
  <2> QED
    BY <2>1, <2>2
<1>18. SumOf(d, K) = d[truth] + SumOf(d, K \ {truth})
  BY <1>2, <1>13, <1>17, SumRemove
<1>19. u * u \in Nat /\ w * w \in Nat
  BY Squares
<1>20. SumOf(d, K) \in 0 .. 2 * (u * u) + w * w
  BY <1>11, <1>12, <1>15, <1>16, <1>18, <1>19
<1> QED
  BY <1>3, <1>8, <1>9, <1>20 DEF Square
=============================================================================
