---------------------------- MODULE Backend_proofs ----------------------------
(***************************************************************************)
(* Proofs about one Ask of either backend, whatever the server replies and *)
(* whenever the context is done.                                           *)
(***************************************************************************)
EXTENDS Backend, Answers_proofs

-----------------------------------------------------------------------------
(* Durations.                                                              *)

\* The recursion that defines Doubled has a solution.
LEMMA DoublesExist == \E f : f = [n \in Nat |-> IF n = 0 THEN 1 ELSE 2 * f[n - 1]]
<1> DEFINE On(f, n) == f = [m \in 0 .. n |-> IF m = 0 THEN 1 ELSE 2 * f[m - 1]]
           N == {n \in Nat : \E f : On(f, n)}
           Same == {n \in Nat : \A f, g : \A i, j \in Nat :
                      n <= i /\ n <= j /\ On(f, i) /\ On(g, j) => f[n] = g[n]}
           Upto(n) == CHOOSE f : On(f, n)
           F == [n \in Nat |-> Upto(n)[n]]
<1>1. 0 \in N
  <2>1. On([m \in 0 .. 0 |-> 1], 0)
    OBVIOUS
  <2> QED
    BY <2>1
<1>2. ASSUME NEW n \in Nat, n \in N PROVE n + 1 \in N
  <2>1. PICK f : On(f, n)
    BY <1>2
  <2> DEFINE g == [m \in 0 .. n + 1 |-> IF m = 0 THEN 1 ELSE 2 * f[m - 1]]
  <2>2. \A m \in 0 .. n : g[m] = f[m]
    BY <2>1
  <2>3. \A m \in 0 .. n + 1 : g[m] = IF m = 0 THEN 1 ELSE 2 * g[m - 1]
    <3> SUFFICES ASSUME NEW m \in 0 .. n + 1, m # 0 PROVE g[m] = 2 * g[m - 1]
      OBVIOUS
    <3>1. m - 1 \in 0 .. n
      OBVIOUS
    <3>2. g[m - 1] = f[m - 1]
      BY <2>2, <3>1
    <3> QED
      BY <3>2
  <2>4. On(g, n + 1)
    <3> DEFINE r == [m \in 0 .. n + 1 |-> IF m = 0 THEN 1 ELSE 2 * g[m - 1]]
    <3>1. \A m \in 0 .. n + 1 : g[m] = r[m]
      BY <2>3
    <3>2. g = r
      <4> HIDE DEF r
      <4>1. DOMAIN g = 0 .. n + 1
        OBVIOUS
      <4> QED
        BY <3>1 DEF r
    <3> QED
      BY <3>2
  <2> HIDE DEF g, On
  <2> QED
    BY <2>4
<1>3. \A n \in Nat : On(Upto(n), n)
  <2>1. Nat \subseteq N
    <3> HIDE DEF N
    <3> QED
      BY <1>1, <1>2, NatInduct
  <2>2. \A n \in Nat : \E f : On(f, n)
    BY <2>1
  <2> HIDE DEF On
  <2> QED
    BY <2>2
<1>4. Nat \subseteq Same
  <2>1. 0 \in Same
    OBVIOUS
  <2>2. ASSUME NEW n \in Nat, n \in Same PROVE n + 1 \in Same
    <3> SUFFICES ASSUME NEW f, NEW g, NEW i \in Nat, NEW j \in Nat, n + 1 <= i, n + 1 <= j,
                        On(f, i), On(g, j)
                 PROVE  f[n + 1] = g[n + 1]
      OBVIOUS
    <3>1. f[n + 1] = 2 * f[n] /\ g[n + 1] = 2 * g[n]
      <4>1. n + 1 \in 0 .. i /\ n + 1 \in 0 .. j /\ n + 1 # 0 /\ (n + 1) - 1 = n
        OBVIOUS
      <4> QED
        BY <4>1
    <3>2. n <= i /\ n <= j
      OBVIOUS
    <3>3. f[n] = g[n]
      <4> HIDE DEF On
      <4> QED
        BY <2>2, <3>2
    <3> QED
      BY <3>1, <3>3
  <2> HIDE DEF Same
  <2> QED
    BY <2>1, <2>2, NatInduct
<1> HIDE DEF Upto
<1>5. \A n \in Nat : F[n] = IF n = 0 THEN 1 ELSE 2 * F[n - 1]
  <2> SUFFICES ASSUME NEW n \in Nat PROVE F[n] = IF n = 0 THEN 1 ELSE 2 * F[n - 1]
    OBVIOUS
  <2>1. F[n] = IF n = 0 THEN 1 ELSE 2 * Upto(n)[n - 1]
    <3>1. n \in 0 .. n /\ On(Upto(n), n)
      BY <1>3
    <3> QED
      BY <3>1
  <2>2. CASE n = 0
    BY <2>1, <2>2
  <2>3. CASE n # 0
    <3>1. PICK p \in Nat : p = n - 1 /\ p <= n /\ p <= p
      BY <2>3
    <3>2. p \in Same /\ On(Upto(n), n) /\ On(Upto(p), p)
      BY <1>3, <1>4
    <3>3. Upto(n)[p] = Upto(p)[p]
      <4> HIDE DEF On
      <4> QED
        BY <3>1, <3>2
    <3> QED
      BY <2>1, <2>3, <3>1, <3>3
  <2> QED
    BY <2>2, <2>3
<1>6. F = [n \in Nat |-> IF n = 0 THEN 1 ELSE 2 * F[n - 1]]
  <2> DEFINE r == [n \in Nat |-> IF n = 0 THEN 1 ELSE 2 * F[n - 1]]
  <2>1. \A n \in Nat : F[n] = r[n]
    BY <1>5
  <2>2. DOMAIN F = Nat
    OBVIOUS
  <2>3. F = r
    <3> HIDE DEF r
    <3> QED
      BY <2>1, <2>2 DEF r
  <2> QED
    BY <2>3
<1> HIDE DEF F
<1> QED
  BY <1>6

\* Its values are positive numbers.
LEMMA DoubledIs == \A n \in Nat : Doubled[n] \in Nat \ {0}
<1>1. Doubled = [n \in Nat |-> IF n = 0 THEN 1 ELSE 2 * Doubled[n - 1]]
  BY DoublesExist, Zenon DEF Doubled
<1> DEFINE N == {n \in Nat : Doubled[n] \in Nat \ {0}}
<1>2. 0 \in N
  BY <1>1
<1>3. ASSUME NEW n \in Nat, n \in N PROVE n + 1 \in N
  <2>1. Doubled[n + 1] = 2 * Doubled[n]
    BY <1>1
  <2> QED
    BY <1>3, <2>1
<1>4. Nat \subseteq N
  <2> HIDE DEF N
  <2> QED
    BY <1>2, <1>3, NatInduct
<1> QED
  BY <1>4

\* A wait is a number of ticks, and no more than the cap.
LEMMA DelayIs ==
  ASSUME NEW n \in Nat \ {0}, NEW secs \in Int
  PROVE  retryDelay(n, secs) \in Int /\ retryDelay(n, secs) <= RetryAfterCap
<1>1. RetryAfterCap \in Nat /\ Second \in Nat /\ DurationBits \in Nat
  BY BackendAssumption
<1>2. Asked(n, secs) \in Int
  <2>1. CASE secs >= 0
    <3>1. PICK range \in Nat \ {0} : range = Doubled[DurationBits]
      BY <1>1, DoubledIs
    <3>2. PICK x \in Int : x = secs * Second
      BY <1>1, SMT
    <3>3. PICK half \in Int : half = range \div 2
      BY <3>1, SMT
    <3>4. (x + half) % range \in Int
      BY <3>1, <3>2, <3>3, SMT
    <3>5. Asked(n, secs) = ((x + half) % range) - half
      BY <2>1, <3>1, <3>2, <3>3 DEF Asked, Wrapped
    <3> QED
      BY <3>3, <3>4, <3>5
  <2>2. CASE ~(secs >= 0)
    <3>1. n - 1 \in Nat
      OBVIOUS
    <3> QED
      BY <2>2, <3>1, DoubledIs DEF Asked, Backoff
  <2> QED
    BY <2>1, <2>2
<1> QED
  BY <1>1, <1>2 DEF retryDelay

-----------------------------------------------------------------------------
(* The inductive invariant: where Ask is and what it has received.         *)

Types ==
  /\ ask \in Asks /\ step \in Steps /\ attempt \in 1 .. MaxAttempts
  /\ ends \in Ends /\ now \in Nat /\ timer \in Nat
  /\ replies \in Seq(Statuses) /\ after \in RetryAfters \cup {-1}
  /\ waited \in Nat /\ billed \in Nat

\* A reply for every attempt made, each but the last one that asked to wait.
RepliesInv ==
  /\ step \in {"start", "sending", "sent"} => Len(replies) = attempt - 1
  /\ step \in {"reading", "waiting"} => Len(replies) = attempt
  /\ Len(replies) <= attempt
  /\ \A k \in 1 .. attempt - 1 : k \in DOMAIN replies /\ replies[k] = "slow"
  /\ step = "waiting" => attempt < MaxAttempts /\ replies[attempt] = "slow"
  /\ TooManyOptions(ask) => step \in {"start", "returned"}

\* The waits of the attempts made, the one under way included.
WaitInv ==
  /\ step \notin {"waiting", "returned"} => waited <= (attempt - 1) * RetryAfterCap
  /\ step = "waiting" => waited <= attempt * RetryAfterCap
  /\ step = "returned" => waited <= (MaxAttempts - 1) * RetryAfterCap

StepInv == Types /\ RepliesInv

\* What a reply read to its end is judged to be, when it has cost so much.
Fits(r, cost) ==
  /\ r.error # "none" /\ (r.error = "ok" <=> DOMAIN r.probs # {})
  /\ r.cost <= cost /\ (ask.backend = "openai" \/ r.error = "ok" => r.cost = cost)
  /\ r.error = "ok" /\ (ask.backend = "openai" \/ ask.type = "noul")
       => validateProbabilities(r.probs, ask) = "ok"

\* Nothing is billed or returned before the end.
ResultInv ==
  /\ step # "returned" => billed = 0 /\ result = Failure("none")
  /\ step = "returned" => Fits(result, billed)

\* The constants are numbers.
LEMMA Numbers ==
  /\ MaxAttempts \in Nat \ {0} /\ RetryAfterCap \in Nat /\ RetryAfters \subseteq Int
  /\ Unit \in Nat \ {0} /\ Tolerance \in Nat /\ Tolerance <= Unit
  /\ MinLabelMass \in Nat \ {0} /\ MaxLetterLabels \in Nat
BY BackendAssumption, AnswersAssumption

\* The step an action takes, and what is left as it was.
Still == UNCHANGED <<ask, attempt, replies, waited>>

\* A step that moves on without a reply or a wait keeps the invariant.
LEMMA MovedOn ==
  ASSUME StepInv, WaitInv, Still, step # "waiting",
         \/ step' = step
         \/ step' = "returned"
         \/ step = "start" /\ step' = "sending" /\ ~TooManyOptions(ask)
         \/ step = "sending" /\ step' = "sent"
  PROVE  RepliesInv' /\ WaitInv'
<1>1. /\ attempt \in 1 .. MaxAttempts /\ replies \in Seq(Statuses) /\ step \in Steps
      /\ attempt' = attempt /\ replies' = replies /\ waited' = waited /\ ask' = ask
      /\ waited \in Nat
  BY DEF Still, StepInv, Types
<1>2. RepliesInv'
  <2>1. TooManyOptions(ask)' = TooManyOptions(ask)
    BY <1>1 DEF TooManyOptions
  <2> QED
    BY <1>1, <2>1 DEF RepliesInv, StepInv, Steps
<1>3. (attempt - 1) * RetryAfterCap <= (MaxAttempts - 1) * RetryAfterCap
  <2>1. PICK a \in Nat, b \in Nat, c \in Nat : a = attempt - 1 /\ a + b = MaxAttempts - 1
                                              /\ c = RetryAfterCap
    <3>1. attempt - 1 \in Nat /\ MaxAttempts - attempt \in Nat
          /\ (attempt - 1) + (MaxAttempts - attempt) = MaxAttempts - 1
      BY <1>1, Numbers
    <3> QED
      BY <3>1, Numbers
  <2>2. (a + b) * c = a * c + b * c /\ a * c \in Nat /\ b * c \in Nat
    BY SMT
  <2>3. a * c <= (a + b) * c
    BY <2>2, SMT
  <2> QED
    BY <2>1, <2>3
<1>4. (attempt - 1) * RetryAfterCap \in Int /\ (MaxAttempts - 1) * RetryAfterCap \in Int
  BY <1>1, Numbers, SMT
<1>5. WaitInv'
  <2>1. PICK u \in Int, v \in Int : /\ u = (attempt - 1) * RetryAfterCap
                                   /\ v = (MaxAttempts - 1) * RetryAfterCap /\ u <= v
    BY <1>3, <1>4
  <2>2. (step # "returned" => waited <= u) /\ (step = "returned" => waited <= v)
    BY <2>1 DEF WaitInv
  <2>3. step' # "waiting"
    OBVIOUS
  <2>4. step' \notin {"waiting", "returned"} => waited' <= (attempt' - 1) * RetryAfterCap
    BY <1>1, <2>1, <2>2
  <2>5. step' = "returned" => waited' <= (MaxAttempts - 1) * RetryAfterCap
    BY <1>1, <2>1, <2>2
  <2> QED
    BY <2>3, <2>4, <2>5 DEF WaitInv
<1> QED
  BY <1>2, <1>5

-----------------------------------------------------------------------------
(* A distribution from the masses of the labels.                           *)

\* Rounding a quotient down loses less than one.
LEMMA QuotientIs ==
  ASSUME NEW x \in Nat, NEW d \in Nat \ {0}
  PROVE  /\ x \div d \in Nat /\ d * (x \div d) \in Nat
         /\ d * (x \div d) <= x /\ x <= d * (x \div d) + (d - 1)
<1>1. d * (x \div d) <= x
  BY SMTT(30)
<1>2. x <= d * (x \div d) + (d - 1) /\ x \div d \in Nat
  BY SMTT(30)
<1>3. PICK y \in Nat : y = x \div d
  BY <1>2
<1>4. d * y \in Nat
  BY SMT
<1> QED
  BY <1>1, <1>2, <1>3, <1>4

\* The shares of a total, each rounded down, add up to the whole, short of one
\* unit for each but one of them.
LEMMA SharesAddUp ==
  ASSUME NEW L, IsFiniteSet(L), L # {}, NEW m, \A l \in L : m[l] \in Nat,
         NEW u \in Nat, NEW total \in Nat \ {0}, total = SumOf(m, L),
         NEW share, \A l \in L : share[l] = (m[l] * u) \div total
  PROVE  /\ \A l \in L : share[l] \in 0 .. u
         /\ SumOf(share, L) \in Nat /\ SumOf(share, L) <= u
         /\ u - (Cardinality(L) - 1) <= SumOf(share, L)
<1> DEFINE Close(f, a, c) == /\ f \in Nat /\ a \in Nat /\ c \in Nat
                             /\ total * f <= u * a
                             /\ u * a <= total * f + c * (total - 1)
           T == {s \in SUBSET L : Close(SumOf(share, s), SumOf(m, s), Cardinality(s))}
<1>1. ASSUME NEW l \in L PROVE share[l] \in Nat /\ Close(share[l], m[l], 1)
  <2>1. PICK b \in Nat : b = m[l]
    OBVIOUS
  <2>2. PICK x \in Nat : x = b * u /\ x = u * b
    BY SMT
  <2>3. PICK y \in Nat : y = x \div total /\ total * y \in Nat /\ total * y <= x
                         /\ x <= total * y + (total - 1)
    BY QuotientIs
  <2>4. share[l] = y
    BY <2>1, <2>2, <2>3
  <2>5. 1 * (total - 1) = total - 1
    BY SMT
  <2> QED
    BY <2>1, <2>2, <2>3, <2>4, <2>5
<1>2. ASSUME NEW s \in SUBSET L, \A x \in s : s \ {x} \in T PROVE s \in T
  <2>0. IsFiniteSet(s)
    BY FS_Subset
  <2>1. CASE s = {}
    <3>1. SumOf(share, s) = 0 /\ SumOf(m, s) = 0 /\ Cardinality(s) = 0
      BY <2>1, SumEmpty, FS_EmptySet
    <3>2. Close(0, 0, 0)
      BY SMT
    <3> HIDE DEF Close
    <3> QED
      BY <3>1, <3>2
  <2>2. CASE s # {}
    <3>1. PICK x \in s : SumOf(m, s) = m[x] + SumOf(m, s \ {x})
      BY <2>0, <2>2, SumPick
    <3>2. SumOf(share, s) = share[x] + SumOf(share, s \ {x})
      <4>1. \A l \in s : share[l] \in Int
        BY <1>1
      <4> QED
        BY <2>0, <3>1, <4>1, SumRemove
    <3>3. Cardinality(s) = Cardinality(s \ {x}) + 1
      <4>1. Cardinality(s \ {x}) = Cardinality(s) - 1 /\ Cardinality(s) \in Nat
        BY <2>0, <3>1, FS_RemoveElement, FS_CardinalityType
      <4> QED
        BY <4>1
    <3>4. PICK f \in Nat, a \in Nat, c \in Nat :
            /\ f = SumOf(share, s \ {x}) /\ a = SumOf(m, s \ {x}) /\ c = Cardinality(s \ {x})
            /\ Close(f, a, c)
      BY <1>2, <3>1
    <3>5. PICK g \in Nat, b \in Nat : g = share[x] /\ b = m[x] /\ Close(g, b, 1)
      BY <1>1, <3>1
    <3>6. Close(g + f, b + a, c + 1)
      <4>1. /\ total * (g + f) = total * g + total * f /\ u * (b + a) = u * b + u * a
            /\ (c + 1) * (total - 1) = c * (total - 1) + 1 * (total - 1)
        BY SMT
      <4>2. /\ total * g \in Nat /\ total * f \in Nat /\ u * b \in Nat /\ u * a \in Nat
            /\ c * (total - 1) \in Nat /\ 1 * (total - 1) \in Nat
        BY SMT
      <4> QED
        BY <3>4, <3>5, <4>1, <4>2
    <3>7. SumOf(share, s) = g + f /\ SumOf(m, s) = b + a /\ Cardinality(s) = c + 1
      BY <3>1, <3>2, <3>3, <3>4, <3>5
    <3> HIDE DEF Close
    <3> QED
      BY <3>6, <3>7
  <2> QED
    BY <2>1, <2>2
<1>3. Close(SumOf(share, L), SumOf(m, L), Cardinality(L))
  <2> HIDE DEF T, Close
  <2>1. L \in T
    BY <1>2, SetInduct
  <2> QED
    BY <2>1 DEF T
<1>4. PICK f \in Nat, c \in Nat : f = SumOf(share, L) /\ c = Cardinality(L) /\ Close(f, total, c)
  BY <1>3
<1>5. f <= u
  <2> SUFFICES ASSUME u < f PROVE FALSE
    BY <1>4
  <2>1. PICK e \in Nat : f = u + 1 + e
    BY SMT
  <2>2. total * f = u * total + total + total * e /\ total * e \in Nat /\ u * total \in Nat
    BY <2>1, SMT
  <2> QED
    BY <1>4, <2>2
<1>6. c # 0
  BY <1>4, FS_EmptySet
<1>7. u - (c - 1) <= f
  <2> SUFFICES ASSUME f + c <= u PROVE FALSE
    BY <1>4
  <2>1. PICK e \in Nat : u = f + c + e
    BY SMT
  <2>2. u * total = total * f + c * (total - 1) + c + total * e /\ total * e \in Nat
    BY <2>1, SMT
  <2>3. total * f \in Nat /\ c * (total - 1) \in Nat
    BY SMT
  <2> QED
    BY <1>4, <1>6, <2>2, <2>3
<1>8. ASSUME NEW l \in L PROVE share[l] \in 0 .. u
  <2>1. share[l] \in Nat /\ SumOf(share, L) = share[l] + SumOf(share, L \ {l})
    BY <1>1, SumRemove
  <2>2. SumOf(share, L \ {l}) \in Nat
    BY <1>1, SumNat
  <2> QED
    BY <1>4, <1>5, <2>1, <2>2
<1> QED
  BY <1>4, <1>5, <1>7, <1>8

\* The mass of a letter is a number.
LEMMA MassIs == ASSUME NEW top \in Seq(Entry), NEW letter PROVE Mass(top, letter) \in Nat
<1> DEFINE S == {i \in Finite(top) : top[i].token = letter}
           d == [i \in S |-> top[i].mass]
           Def(it) == it = [s \in SUBSET S |-> IF s = {} THEN 0
                              ELSE top[Pick(s)].mass + it[s \ {Pick(s)}]]
           sums == CHOOSE it : Def(it)
<1>1. IsFiniteSet(S) /\ \A i \in S : i \in DOMAIN top /\ top[i].mass >= 0
  <2>1. PICK n \in Nat : n = Len(top) /\ DOMAIN top = 1 .. n
    OBVIOUS
  <2>2. IsFiniteSet(1 .. n)
    <3>1. ASSUME NEW m \in Nat PROVE IsFiniteSet(1 .. m)
      BY FS_Interval
    <3> QED
      BY <3>1
  <2>3. \A i \in S : i \in DOMAIN top /\ top[i].mass >= 0
    BY DEF Finite
  <2>4. S \subseteq 1 .. n
    BY <2>1, <2>3
  <2> QED
    BY <2>2, <2>3, <2>4, FS_Subset
<1>2. Mass(top, letter) = sums[S]
  BY DEF Mass, MapThenSumSet, MapThenFoldSet, Pick
<1>3. \A i \in S : d[i] = top[i].mass /\ d[i] \in Nat
  <2> SUFFICES ASSUME NEW i \in S PROVE top[i].mass \in Nat
    OBVIOUS
  <2>1. top[i] \in Entry
    <3>1. ASSUME NEW j \in DOMAIN top PROVE top[j] \in Entry
      OBVIOUS
    <3> HIDE DEF S
    <3> QED
      BY <1>1, <3>1
  <2>2. top[i].mass \in Int
    BY <2>1 DEF Entry
  <2> HIDE DEF S
  <2> QED
    BY <1>1, <2>2
<1> HIDE DEF S, d
<1>4. \A s \in SUBSET S : s # {} => d[Pick(s)] = top[Pick(s)].mass
  BY <1>3, PickIs
<1>5. \A it : Sums(it, d, S) <=> Def(it)
  BY <1>4 DEF Sums
<1>6. Sums(sums, d, S)
  <2>1. \E it : Def(it)
    BY <1>1, <1>5, SumsExist
  <2> QED
    BY <1>5, <2>1
<1> HIDE DEF sums
<1>7. sums[S] = SumOf(d, S)
  BY <1>1, <1>6, SumIs
<1>8. SumOf(d, S) \in Nat
  BY <1>1, <1>3, SumNat
<1> QED
  BY <1>2, <1>7, <1>8

\* The mass of all the labels is the sum of their masses.
LEMMA LabelMassIs ==
  ASSUME NEW q, IsFiniteSet(DOMAIN Keys(q)), NEW top,
         NEW m, \A l \in DOMAIN Keys(q) : m[l] = Mass(top, l)
  PROVE  LabelMass(q, top) = SumOf(m, DOMAIN Keys(q))
<1> DEFINE S == DOMAIN Keys(q)
           Def(it) == it = [s \in SUBSET S |-> IF s = {} THEN 0
                              ELSE Mass(top, Pick(s)) + it[s \ {Pick(s)}]]
           sums == CHOOSE it : Def(it)
<1>1. LabelMass(q, top) = sums[S]
  BY DEF LabelMass, MapThenSumSet, MapThenFoldSet, Pick
<1> HIDE DEF S
<1>2. IsFiniteSet(S) /\ \A l \in S : m[l] = Mass(top, l)
  BY DEF S
<1>3. \A s \in SUBSET S : s # {} => m[Pick(s)] = Mass(top, Pick(s))
  BY <1>2, PickIs
<1>4. \A it : Sums(it, m, S) <=> Def(it)
  BY <1>3 DEF Sums
<1>5. Sums(sums, m, S)
  <2>1. \E it : Def(it)
    BY <1>2, <1>4, SumsExist
  <2> QED
    BY <1>4, <2>1
<1> HIDE DEF sums
<1>6. sums[S] = SumOf(m, S)
  BY <1>2, <1>5, SumIs
<1> QED
  BY <1>1, <1>6 DEF S

\* What the masses of the letters are made into is a distribution that
\* validateProbabilities accepts.
LEMMA probabilitiesForIs ==
  ASSUME NEW q, q.type \in QuestionTypes, ValidCriteria(q), q.n - 1 <= Tolerance,
         NEW top \in Seq(Entry), LabelMass(q, top) # 0
  PROVE  validateProbabilities(probabilitiesFor(q, top), q) = "ok"
<1> DEFINE L == DOMAIN Keys(q)
           K == KeySet(q)
           of(k) == CHOOSE l \in L : Keys(q)[l] = k
           m == [l \in L |-> Mass(top, l)]
<1>1. PICK n \in 2 .. 255 : n = q.n /\ L = 1 .. n
  <2>1. q.n \in 2 .. 255 /\ L = 1 .. q.n
    BY KeysAre, Zenon
  <2> HIDE DEF L
  <2> QED
    BY <2>1
<1>2. IsFiniteSet(L) /\ Cardinality(L) = n /\ L # {}
  <2>1. ASSUME NEW j \in 2 .. 255 PROVE IsFiniteSet(1 .. j) /\ Cardinality(1 .. j) = j /\ 1 .. j # {}
    <3>1. IsFiniteSet(1 .. j) /\ Cardinality(1 .. j) = IF 1 > j THEN 0 ELSE j - 1 + 1
      <4>1. 1 \in Int /\ j \in Int
        OBVIOUS
      <4> QED
        BY <4>1, FS_Interval
    <3>2. (IF 1 > j THEN 0 ELSE j - 1 + 1) = j
      OBVIOUS
    <3>3. 1 \in 1 .. j
      OBVIOUS
    <3>4. 1 .. j # {}
      BY <3>3, Zenon
    <3>5. Cardinality(1 .. j) = j
      BY <3>1, <3>2
    <3> QED
      BY <3>1, <3>4, <3>5
  <2> HIDE DEF L
  <2> QED
    BY <1>1, <2>1
<1>3. /\ K # {} /\ IsFiniteSet(K) /\ \A k : k \in K <=> \E l \in L : Keys(q)[l] = k
      /\ \A i, j \in L : Keys(q)[i] = Keys(q)[j] => i = j
  <2>1. \A k : k \in K <=> \E l \in L : Keys(q)[l] = k
    BY DEF KeySet
  <2> QED
    BY <2>1, KeySetIs, Zenon
<1>4. \A k \in K : of(k) \in L /\ Keys(q)[of(k)] = k
  <2> HIDE DEF L, K
  <2> QED
    BY <1>3
<1>5. \A l \in L : m[l] = Mass(top, l) /\ m[l] \in Nat
  BY MassIs
<1>6. PICK u \in Nat \ {0} : u = Unit
  BY AnswersAssumption
<1>7. PICK total \in Nat \ {0} : total = LabelMass(q, top) /\ total = SumOf(m, L)
  <2>1. LabelMass(q, top) = SumOf(m, L)
    <3> HIDE DEF m
    <3> QED
      BY <1>2, <1>5, LabelMassIs
  <2>2. SumOf(m, L) \in Nat
    <3> HIDE DEF m, L
    <3> QED
      BY <1>2, <1>5, SumNat
  <2> QED
    BY <2>1, <2>2
<1> DEFINE share == [l \in L |-> (m[l] * u) \div total]
           probs == probabilitiesFor(q, top)
<1>8. \A l \in L : share[l] = (m[l] * u) \div total
  OBVIOUS
<1>9. DOMAIN probs = K /\ \A k \in K : probs[k] = share[of(k)]
  <2>1. probs = [k \in K |-> IF total = 0 THEN 0 ELSE (Mass(top, of(k)) * u) \div total]
    BY <1>6, <1>7 DEF probabilitiesFor
  <2> HIDE DEF probs, of, K, L
  <2> QED
    BY <1>4, <2>1
<1> HIDE DEF L, K, m, share, probs, of
<1>10. /\ \A l \in L : share[l] \in 0 .. u
       /\ SumOf(share, L) \in Nat /\ SumOf(share, L) <= u /\ u - (n - 1) <= SumOf(share, L)
  <2>1. u \in Nat /\ \A l \in L : m[l] \in Nat
    BY <1>5
  <2> QED
    BY <1>2, <1>7, <1>8, <2>1, SharesAddUp
<1>11. \A l \in L : share[l] = probs[Keys(q)[l]]
  <2> SUFFICES ASSUME NEW l \in L PROVE share[l] = probs[Keys(q)[l]]
    OBVIOUS
  <2>1. Keys(q)[l] \in K
    BY <1>3
  <2>2. of(Keys(q)[l]) = l
    BY <1>3, <1>4, <2>1
  <2> QED
    BY <1>9, <2>1, <2>2
<1>12. \A k \in K : probs[k] \in 0 .. u
  BY <1>4, <1>9, <1>10
<1>13. SumOf(probs, K) = SumOf(share, L)
  <2>1. \A k \in K : probs[k] \in Int
    BY <1>12
  <2>2. PICK to : to = Keys(q)
    OBVIOUS
  <2>3. SumOf(share, L) = SumOf(probs, K)
    BY <1>2, <1>3, <1>11, <2>1, <2>2, SumRenamed
  <2> QED
    BY <2>3
<1>14. Total(probs) \in u - Tolerance .. u + Tolerance
  <2>1. Total(probs) = SumOf(probs, K)
    BY <1>9 DEF Total, SumOf
  <2>2. Tolerance \in Nat /\ n - 1 <= Tolerance
    BY <1>1, AnswersAssumption
  <2> QED
    BY <1>10, <1>13, <2>1, <2>2
<1>15. validateProbabilities(probs, q) = "ok"
  BY <1>3, <1>6, <1>9, <1>12, <1>14 DEF validateProbabilities, K
<1> QED
  BY <1>15 DEF probs

\* So is what a noul number is made into.
LEMMA noulIs ==
  ASSUME NEW q, q.type = "noul", ValidCriteria(q), NEW noul \in 0 .. Unit
  PROVE  validateProbabilities([k \in {0, 1} |-> IF k = 1 THEN noul ELSE Unit - noul], q) = "ok"
<1> DEFINE probs == [k \in {0, 1} |-> IF k = 1 THEN noul ELSE Unit - noul]
<1>1. KeySet(q) = {0, 1}
  <2>1. q.type \in QuestionTypes /\ q.type # "choice"
    BY DEF QuestionTypes
  <2>2. q.n = 2 /\ KeySet(q) = 0 .. q.n - 1
    BY <2>1, KeysAre, Zenon
  <2> QED
    BY <2>2
<1>2. PICK u \in Nat \ {0}, w \in Nat : u = Unit /\ w = Tolerance
  BY AnswersAssumption
<1>3. DOMAIN probs = {0, 1} /\ probs[1] = noul /\ probs[0] = u - noul /\ noul \in 0 .. u
  BY <1>2
<1> HIDE DEF probs
<1>4. SumOf(probs, {0, 1}) = u
  <2>1. IsFiniteSet({0, 1}) /\ \A k \in {0, 1} : probs[k] \in Int
    <3>1. IsFiniteSet({1})
      BY FS_Singleton
    <3>2. IsFiniteSet({1} \cup {0})
      BY <3>1, FS_AddElement
    <3>3. {1} \cup {0} = {0, 1}
      OBVIOUS
    <3> QED
      BY <1>3, <3>2, <3>3
  <2>2. SumOf(probs, {0, 1}) = probs[1] + SumOf(probs, {0, 1} \ {1})
    BY <2>1, SumRemove
  <2>3. {0, 1} \ {1} = {0} /\ {0} \ {0} = {}
    OBVIOUS
  <2>4. IsFiniteSet({0}) /\ \A k \in {0} : probs[k] \in Int
    BY <2>1, FS_Singleton
  <2>5. SumOf(probs, {0}) = probs[0] + SumOf(probs, {0} \ {0})
    BY <2>4, SumRemove
  <2>6. SumOf(probs, {}) = 0
    BY SumEmpty
  <2>7. SumOf(probs, {0}) = u - noul
    <3>1. SumOf(probs, {0}) = probs[0] + 0
      BY <2>3, <2>5, <2>6
    <3> QED
      BY <1>3, <3>1
  <2>8. SumOf(probs, {0, 1}) = noul + (u - noul)
    BY <1>3, <2>2, <2>3, <2>7
  <2> QED
    BY <1>3, <2>8
<1>5. Total(probs) = u
  BY <1>3, <1>4 DEF Total, SumOf
<1>6. \A k \in {0, 1} : probs[k] \in 0 .. u
  BY <1>3
<1>7. u \in u - w .. u + w
  OBVIOUS
<1>8. validateProbabilities(probs, q) = "ok"
  BY <1>1, <1>2, <1>3, <1>5, <1>6, <1>7 DEF validateProbabilities
<1> QED
  BY <1>8 DEF probs

-----------------------------------------------------------------------------
(* What a reply is judged to be.                                           *)

\* A failure fits a reply that cost nothing.
LEMMA FailureFits ==
  ASSUME NEW error, error \notin {"none", "ok"}, NEW cost \in Nat,
         ask.backend = "jev" \/ cost = 0
  PROVE  Fits(Failure(error), cost)
<1>1. DOMAIN <<>> = {}
  OBVIOUS
<1> QED
  BY <1>1 DEF Fits, Failure, Result

\* The reply to a question the letters suffice for is judged to fit its cost.
LEMMA JudgedFits ==
  ASSUME ask \in Asks, ~TooManyOptions(ask),
         NEW b, b \in IF ask.backend = "jev" THEN JevBodies ELSE OpenAIBodies
  PROVE  b.cost \in Nat /\ Fits(Judged(ask, b), b.cost)
<1>1. /\ ask.backend \in {"jev", "openai"} /\ ask.type \in QuestionTypes /\ ValidCriteria(ask)
      /\ ask.n \in 2 .. 255 /\ (ask.type = "noul" => ask.n = 2)
  <2>1. ask.backend \in {"jev", "openai"} /\ ask.type \in QuestionTypes /\ ValidCriteria(ask)
    BY BackendAssumption
  <2>2. ask.n \in 2 .. 255 /\ (ask.type = "noul" => ask.n = 2)
    BY <2>1, KeysAre, Zenon
  <2> QED
    BY <2>1, <2>2
<1>2. ask.backend = "openai" => ask.n - 1 <= Tolerance
  <2>1. 1 <= Tolerance /\ MaxLetterLabels - 1 <= Tolerance
    BY BackendAssumption
  <2> QED
    BY <1>1, <2>1, Numbers DEF TooManyOptions
<1>3. DOMAIN <<>> = {}
  OBVIOUS
<1>4. ASSUME NEW probs, validateProbabilities(probs, ask) = "ok" PROVE DOMAIN probs # {}
  BY <1>4 DEF validateProbabilities
<1>5. CASE ask.backend = "openai"
  <2>1. b.cost \in Nat /\ b.top \in Seq(Entry) /\ Judged(ask, b) = OpenAIAnswer(ask, b)
    BY <1>5, BackendAssumption DEF OpenAIBody, Judged
  <2>2. ASSUME NEW error, error \notin {"none", "ok"}
        PROVE  Fits(Result(error, b.cost, <<>>), b.cost)
    BY <1>3, <2>1, <2>2 DEF Fits, Result
  <2>3. CASE b.top = <<>>
    BY <2>1, <2>2, <2>3 DEF OpenAIAnswer
  <2>4. CASE b.top # <<>> /\ NotADistribution(ask, b.top)
    BY <2>1, <2>2, <2>4 DEF OpenAIAnswer
  <2>5. CASE b.top # <<>> /\ ~NotADistribution(ask, b.top) /\ LabelMass(ask, b.top) < MinLabelMass
    BY <2>1, <2>2, <2>5 DEF OpenAIAnswer
  <2>6. CASE /\ b.top # <<>> /\ ~NotADistribution(ask, b.top)
             /\ ~(LabelMass(ask, b.top) < MinLabelMass)
    <3>1. Judged(ask, b) = Result("ok", b.cost, probabilitiesFor(ask, b.top))
      BY <2>1, <2>6 DEF OpenAIAnswer
    <3>2. LabelMass(ask, b.top) # 0
      BY <2>6, Numbers
    <3>3. validateProbabilities(probabilitiesFor(ask, b.top), ask) = "ok"
      BY <1>1, <1>2, <1>5, <2>1, <3>2, probabilitiesForIs
    <3>4. PICK probs : probs = probabilitiesFor(ask, b.top)
      OBVIOUS
    <3>5. Fits(Result("ok", b.cost, probs), b.cost)
      BY <1>4, <2>1, <3>3, <3>4 DEF Fits, Result
    <3> QED
      BY <2>1, <3>1, <3>4, <3>5
  <2> QED
    BY <2>3, <2>4, <2>5, <2>6
<1>6. CASE ask.backend = "jev"
  <2>1. /\ b.cost \in Nat /\ b.noul \subseteq Int /\ Judged(ask, b) = JevAnswer(ask, b)
        /\ ask.backend # "openai"
    BY <1>6, BackendAssumption DEF JevBody, Judged
  <2>2. ASSUME NEW error, error \notin {"none", "ok"} PROVE Fits(Failure(error), b.cost)
    BY <1>6, <2>1, <2>2, FailureFits
  <2>3. CASE b.type # ask.type
    BY <2>1, <2>2, <2>3 DEF JevAnswer
  <2>4. CASE b.type = ask.type /\ ask.type # "noul"
    <3>1. CASE DOMAIN b.probs = {}
      BY <2>1, <2>2, <2>4, <3>1 DEF JevAnswer
    <3>2. CASE DOMAIN b.probs # {}
      <4>1. Judged(ask, b) = Result("ok", b.cost, b.probs)
        BY <2>1, <2>4, <3>2 DEF JevAnswer
      <4>2. Fits(Result("ok", b.cost, b.probs), b.cost)
        BY <2>1, <2>4, <3>2 DEF Fits, Result
      <4> QED
        BY <2>1, <4>1, <4>2
    <3> QED
      BY <3>1, <3>2
  <2>5. CASE b.type = ask.type /\ ask.type = "noul"
    <3> DEFINE noul == CHOOSE n \in b.noul : TRUE
               probs == [k \in {0, 1} |-> IF k = 1 THEN noul ELSE Unit - noul]
    <3>1. Judged(ask, b) = IF b.noul = {} THEN Failure("no_probabilities")
                           ELSE IF noul \notin 0 .. Unit THEN Failure("bad_noul")
                           ELSE Result("ok", b.cost, probs)
      BY <2>1, <2>5 DEF JevAnswer
    <3> HIDE DEF noul
    <3>2. CASE b.noul = {} \/ noul \notin 0 .. Unit
      BY <2>1, <2>2, <3>1, <3>2
    <3>3. CASE b.noul # {} /\ noul \in 0 .. Unit
      <4>1. validateProbabilities(probs, ask) = "ok"
        BY <1>1, <2>5, <3>3, noulIs
      <4> HIDE DEF probs
      <4>2. Fits(Result("ok", b.cost, probs), b.cost)
        BY <1>4, <2>1, <4>1 DEF Fits, Result
      <4> QED
        BY <2>1, <3>1, <3>3, <4>2
    <3> QED
      BY <3>2, <3>3
  <2> QED
    BY <2>3, <2>4, <2>5
<1> QED
  BY <1>1, <1>5, <1>6

-----------------------------------------------------------------------------
(* The steps of Ask.                                                       *)

Inv == StepInv /\ WaitInv /\ ResultInv

\* Ask starts without a reply, a wait, a bill or a result.
LEMMA InitInv == ASSUME Init PROVE Inv
<1>1. 1 \in 1 .. MaxAttempts /\ (1 - 1) * RetryAfterCap = 0
  <2>1. PICK c \in Nat, n \in Nat \ {0} : c = RetryAfterCap /\ n = MaxAttempts
    BY Numbers
  <2>2. (1 - 1) * c = 0 /\ 1 \in 1 .. n
    BY SMT
  <2> QED
    BY <2>1, <2>2
<1>2. <<>> \in Seq(Statuses) /\ Len(<<>>) = 0 /\ 1 .. 1 - 1 = {}
  OBVIOUS
<1>3. Types
  BY <1>1, <1>2 DEF Init, Types, Steps
<1>4. RepliesInv
  BY <1>2 DEF Init, RepliesInv
<1>5. WaitInv
  BY <1>1 DEF Init, WaitInv
<1>6. ResultInv
  BY DEF Init, ResultInv
<1> QED
  BY <1>3, <1>4, <1>5, <1>6 DEF Inv, StepInv

\* A step that returns a failure before anything is billed keeps the invariant.
LEMMA FailedInv ==
  ASSUME Inv, step # "returned", step # "waiting", NEW error, error \notin {"none", "ok"},
         Return(Failure(error)),
         UNCHANGED <<ask, attempt, ends, now, timer, replies, after, waited, billed>>
  PROVE  Inv'
<1>1. Types'
  BY DEF Inv, StepInv, Types, Return, Steps
<1>2. RepliesInv' /\ WaitInv'
  <2>1. StepInv /\ WaitInv /\ Still /\ step' = "returned"
    BY DEF Inv, Still, Return
  <2> QED
    BY <2>1, MovedOn
<1>3. ResultInv'
  <2>1. billed' = 0 /\ result' = Failure(error) /\ step' = "returned" /\ ask' = ask
    BY DEF Inv, ResultInv, Return
  <2>2. Fits(Failure(error), 0)
    BY FailureFits
  <2>3. Fits(result, billed)'
    BY <2>1, <2>2 DEF Fits
  <2> QED
    BY <2>1, <2>3 DEF ResultInv
<1> QED
  BY <1>1, <1>2, <1>3 DEF Inv, StepInv

\* A step within Ask, without a reply or a wait, keeps the invariant.
LEMMA MovedInv ==
  ASSUME Inv, UNCHANGED <<ask, attempt, ends, timer, replies, after, waited, billed, result>>,
         now' \in Nat, step' \in Steps, step # "returned",
         \/ step' = step
         \/ step = "start" /\ step' = "sending" /\ ~TooManyOptions(ask)
         \/ step = "sending" /\ step' = "sent"
  PROVE  Inv'
<1>1. Types'
  BY DEF Inv, StepInv, Types
<1>2. RepliesInv' /\ WaitInv'
  <2>1. CASE step = "waiting"
    <3>1. step' = step /\ UNCHANGED <<ask, attempt, replies, waited>>
      BY <2>1
    <3>2. TooManyOptions(ask)' = TooManyOptions(ask)
      BY <3>1 DEF TooManyOptions
    <3> QED
      BY <3>1, <3>2 DEF Inv, StepInv, RepliesInv, WaitInv
  <2>2. CASE step # "waiting"
    <3>1. StepInv /\ WaitInv /\ Still
      BY DEF Inv, Still
    <3> QED
      BY <2>2, <3>1, MovedOn
  <2> QED
    BY <2>1, <2>2
<1>3. ResultInv'
  <2>1. step' # "returned" /\ billed' = billed /\ result' = result
    OBVIOUS
  <2> QED
    BY <2>1 DEF Inv, ResultInv
<1> QED
  BY <1>1, <1>2, <1>3 DEF Inv, StepInv

\* A reply is the last one received, of as many as the attempts made.
LEMMA ReplyInv ==
  ASSUME Inv, NEW status \in Statuses, NEW secs \in RetryAfters \cup {-1}, Reply(status, secs)
  PROVE  Inv'
<1>1. /\ step = "sent" /\ step' = "reading" /\ replies' = Append(replies, status)
      /\ after' = secs /\ UNCHANGED <<ask, attempt, ends, now, timer, waited, billed, result>>
  BY DEF Reply
<1>2. PICK n \in 1 .. MaxAttempts : n = attempt /\ Len(replies) = n - 1 /\ replies \in Seq(Statuses)
  BY <1>1 DEF Inv, StepInv, Types, RepliesInv
<1>3. /\ replies' \in Seq(Statuses) /\ Len(replies') = n
      /\ \A k \in 1 .. n - 1 : k \in DOMAIN replies' /\ replies'[k] = replies[k]
  <2>1. n \in Nat \ {0}
    BY <1>2, Numbers
  <2> QED
    BY <1>1, <1>2, <2>1
<1>4. Types'
  BY <1>1, <1>3 DEF Inv, StepInv, Types, Steps
<1>5. RepliesInv'
  <2>1. TooManyOptions(ask)' = TooManyOptions(ask)
    BY <1>1 DEF TooManyOptions
  <2>2. n \in Nat \ {0}
    BY <1>2, Numbers
  <2>3. \A k \in 1 .. n - 1 : k \in DOMAIN replies' /\ replies'[k] = "slow"
    BY <1>2, <1>3 DEF Inv, StepInv, RepliesInv
  <2>4. ~TooManyOptions(ask)
    BY <1>1 DEF Inv, StepInv, RepliesInv
  <2> QED
    BY <1>1, <1>2, <1>3, <2>1, <2>2, <2>3, <2>4 DEF RepliesInv
<1>6. WaitInv'
  BY <1>1 DEF Inv, WaitInv
<1>7. ResultInv'
  BY <1>1 DEF Inv, ResultInv
<1> QED
  BY <1>4, <1>5, <1>6, <1>7 DEF Inv, StepInv

\* A reply that asks to slow down makes Ask wait, while an attempt is left; every
\* other that is no answer makes it fail.
LEMMA ReadNoAnswerInv == ASSUME Inv, ReadNoAnswer PROVE Inv'
<1>1. /\ step = "reading" /\ replies \in Seq(Statuses) /\ Len(replies) = attempt
      /\ attempt \in 1 .. MaxAttempts /\ ~TooManyOptions(ask) /\ Last(replies) # "ok"
      /\ \A k \in 1 .. attempt - 1 : k \in DOMAIN replies /\ replies[k] = "slow"
  BY DEF Inv, StepInv, Types, RepliesInv, ReadNoAnswer
<1>2. UNCHANGED <<ask, attempt, ends, now, replies, after, billed>>
  BY DEF ReadNoAnswer
<1>3. Last(replies) = replies[attempt] /\ Last(replies) \in Statuses
  <2>1. attempt \in 1 .. Len(replies)
    BY <1>1, Numbers
  <2> QED
    BY <1>1, <2>1 DEF Last
<1>4. CASE ~TriesAgain
  <2>1. Return(Failure(Last(replies))) /\ UNCHANGED <<waited, timer>>
    BY <1>4 DEF ReadNoAnswer
  <2>2. Last(replies) \notin {"none", "ok"}
    BY <1>1, <1>3 DEF Statuses
  <2>3. PICK error : error = Last(replies) /\ error \notin {"none", "ok"} /\ Return(Failure(error))
    BY <2>1, <2>2
  <2>4. step # "returned" /\ step # "waiting"
    BY <1>1
  <2>5. UNCHANGED <<ask, attempt, ends, now, timer, replies, after, waited, billed>>
    BY <1>2, <2>1
  <2> QED
    BY <2>3, <2>4, <2>5, FailedInv
<1>5. CASE TriesAgain
  <2> DEFINE delay == retryDelay(attempt, after)
             wait == IF delay > 0 THEN delay ELSE 0
  <2>1. step' = "waiting" /\ result' = result /\ waited' = waited + wait /\ timer' = now + wait
    BY <1>5 DEF ReadNoAnswer
  <2>2. attempt < MaxAttempts /\ replies[attempt] = "slow" /\ attempt \in Nat \ {0}
    BY <1>1, <1>3, <1>5, Numbers DEF TriesAgain
  <2>3. delay \in Int /\ delay <= RetryAfterCap
    <3>1. after \in Int
      BY Numbers DEF Inv, StepInv, Types
    <3> QED
      BY <2>2, <3>1, DelayIs
  <2> HIDE DEF delay
  <2>4. PICK d \in Nat : d <= RetryAfterCap /\ waited' = waited + d /\ timer' = now + d
    <3>1. wait \in Nat /\ wait <= RetryAfterCap
      BY <2>3, Numbers
    <3> QED
      BY <2>1, <3>1
  <2>5. waited \in Nat /\ waited <= (attempt - 1) * RetryAfterCap
    BY <1>1 DEF Inv, StepInv, Types, WaitInv
  <2> HIDE DEF wait
  <2>6. Types'
    BY <1>2, <2>1, <2>4, <2>5 DEF Inv, StepInv, Types, Steps
  <2>7. RepliesInv'
    <3>1. TooManyOptions(ask)' = TooManyOptions(ask)
      BY <1>2 DEF TooManyOptions
    <3> QED
      BY <1>1, <1>2, <2>1, <2>2, <3>1 DEF RepliesInv
  <2>8. waited' <= attempt * RetryAfterCap
    <3>1. PICK a \in Nat, c \in Nat : a = attempt - 1 /\ attempt = a + 1 /\ c = RetryAfterCap
      BY <2>2, Numbers
    <3>2. (a + 1) * c = a * c + c /\ a * c \in Nat
      BY SMT
    <3>3. waited <= a * c
      BY <2>5, <3>1
    <3> QED
      BY <2>4, <2>5, <3>1, <3>2, <3>3
  <2>9. WaitInv'
    BY <1>2, <2>1, <2>8 DEF WaitInv
  <2>10. ResultInv'
    BY <1>1, <1>2, <2>1 DEF Inv, ResultInv
  <2> QED
    BY <2>6, <2>7, <2>9, <2>10 DEF Inv, StepInv
<1> QED
  BY <1>4, <1>5

\* An answer, or a reply that its body shows to be none, is billed as it says.
LEMMA ReadAnswerInv ==
  ASSUME Inv, NEW b, b \in IF ask.backend = "jev" THEN JevBodies ELSE OpenAIBodies, ReadAnswer(b)
  PROVE  Inv'
<1>1. /\ step = "reading" /\ billed' = b.cost /\ step' = "returned" /\ result' = Judged(ask, b)
      /\ UNCHANGED <<ask, attempt, ends, now, timer, replies, after, waited>>
  BY DEF ReadAnswer, Return
<1>2. b.cost \in Nat /\ Fits(Judged(ask, b), b.cost)
  <2>1. ask \in Asks /\ ~TooManyOptions(ask)
    BY <1>1 DEF Inv, StepInv, Types, RepliesInv
  <2> QED
    BY <2>1, JudgedFits
<1>3. Types'
  BY <1>1, <1>2 DEF Inv, StepInv, Types, Steps
<1>4. RepliesInv' /\ WaitInv'
  <2>1. StepInv /\ WaitInv /\ Still /\ step' = "returned" /\ step # "waiting"
    BY <1>1 DEF Inv, Still
  <2> QED
    BY <2>1, MovedOn
<1>5. ResultInv'
  <2>1. Fits(result, billed)'
    <3>1. PICK r : r = Judged(ask, b)
      OBVIOUS
    <3>2. result' = r /\ billed' = b.cost /\ ask' = ask /\ Fits(r, b.cost)
      BY <1>1, <1>2, <3>1
    <3> QED
      BY <3>2 DEF Fits
  <2> QED
    BY <1>1, <2>1 DEF ResultInv
<1> QED
  BY <1>3, <1>4, <1>5 DEF Inv, StepInv

\* The next attempt is made after the wait of the one before.
LEMMA ResumeInv == ASSUME Inv, Resume PROVE Inv'
<1>1. /\ step = "waiting" /\ step' = "sending" /\ attempt' = attempt + 1
      /\ UNCHANGED <<ask, ends, now, timer, replies, after, waited, billed, result>>
  BY DEF Resume
<1>2. /\ attempt \in Nat \ {0} /\ attempt < MaxAttempts /\ Len(replies) = attempt
      /\ replies \in Seq(Statuses) /\ ~TooManyOptions(ask) /\ waited \in Nat
      /\ \A k \in 1 .. attempt - 1 : k \in DOMAIN replies /\ replies[k] = "slow"
      /\ replies[attempt] = "slow" /\ waited <= attempt * RetryAfterCap
  BY <1>1, Numbers DEF Inv, StepInv, Types, RepliesInv, WaitInv
<1>3. (attempt + 1) - 1 = attempt /\ attempt + 1 \in 1 .. MaxAttempts
  BY <1>2, Numbers
<1>4. Types'
  BY <1>1, <1>3 DEF Inv, StepInv, Types, Steps
<1>5. RepliesInv'
  <2>1. TooManyOptions(ask)' = TooManyOptions(ask)
    BY <1>1 DEF TooManyOptions
  <2>2. \A k \in 1 .. attempt' - 1 : k \in DOMAIN replies' /\ replies'[k] = "slow"
    BY <1>1, <1>2, <1>3
  <2> QED
    BY <1>1, <1>2, <1>3, <2>1, <2>2 DEF RepliesInv
<1>6. WaitInv'
  BY <1>1, <1>2, <1>3 DEF WaitInv
<1>7. ResultInv'
  BY <1>1 DEF Inv, ResultInv
<1> QED
  BY <1>4, <1>5, <1>6, <1>7 DEF Inv, StepInv

\* A context done during a wait ends it.
LEMMA AbandonInv == ASSUME Inv, Abandon PROVE Inv'
<1>1. /\ step = "waiting" /\ step' = "returned" /\ result' = Failure("ctx")
      /\ UNCHANGED <<ask, attempt, ends, now, timer, replies, after, waited, billed>>
  BY DEF Abandon, Return
<1>2. Types'
  BY <1>1 DEF Inv, StepInv, Types, Steps
<1>3. RepliesInv'
  <2>1. TooManyOptions(ask)' = TooManyOptions(ask)
    BY <1>1 DEF TooManyOptions
  <2> QED
    BY <1>1, <2>1 DEF Inv, StepInv, RepliesInv
<1>4. WaitInv'
  <2>1. PICK a \in Nat, e \in Nat, c \in Nat : /\ a = attempt /\ a + e = MaxAttempts - 1
                                              /\ c = RetryAfterCap
    <3>1. attempt \in Nat /\ MaxAttempts - 1 - attempt \in Nat
          /\ attempt + (MaxAttempts - 1 - attempt) = MaxAttempts - 1
      BY <1>1, Numbers DEF Inv, StepInv, Types, RepliesInv
    <3> QED
      BY <3>1, Numbers
  <2>2. (a + e) * c = a * c + e * c /\ a * c \in Nat /\ e * c \in Nat
    BY SMT
  <2>3. waited \in Nat /\ waited <= a * c
    BY <1>1, <2>1 DEF Inv, StepInv, Types, WaitInv
  <2>4. waited <= (a + e) * c
    BY <2>2, <2>3
  <2> QED
    BY <1>1, <2>1, <2>4 DEF WaitInv
<1>5. ResultInv'
  <2>1. billed' = 0 /\ Fits(Failure("ctx"), 0) /\ ask' = ask /\ result' = Failure("ctx")
    BY <1>1, FailureFits DEF Inv, ResultInv
  <2>2. Fits(result, billed)'
    BY <2>1 DEF Fits
  <2> QED
    BY <1>1, <2>2 DEF ResultInv
<1> QED
  BY <1>2, <1>3, <1>4, <1>5 DEF Inv, StepInv

\* Every step keeps the invariant.
LEMMA NextInv == Inv /\ [Next]_vars => Inv'
<1> SUFFICES ASSUME Inv, [Next]_vars PROVE Inv'
  OBVIOUS
<1>1. step \in Steps /\ now \in Nat
  BY DEF Inv, StepInv, Types
<1>2. CASE Start
  <2>1. CASE TooManyOptions(ask)
    <3>1. /\ step = "start" /\ Return(Failure("too_many_options"))
          /\ UNCHANGED <<ask, attempt, ends, now, timer, replies, after, waited, billed>>
      BY <1>2, <2>1 DEF Start
    <3> QED
      BY <3>1, FailedInv
  <2>2. CASE ~TooManyOptions(ask)
    <3>1. /\ step = "start" /\ step' = "sending"
          /\ UNCHANGED <<ask, attempt, ends, now, timer, replies, after, waited, billed, result>>
      BY <1>2, <2>2 DEF Start
    <3>2. now' \in Nat /\ step' \in Steps
      BY <1>1, <3>1 DEF Steps
    <3> QED
      BY <2>2, <3>1, <3>2, MovedInv
  <2> QED
    BY <2>1, <2>2
<1>3. CASE Send
  <2>1. /\ step = "sending" /\ step' = "sent"
        /\ UNCHANGED <<ask, attempt, ends, now, timer, replies, after, waited, billed, result>>
    BY <1>3 DEF Send
  <2>2. now' \in Nat /\ step' \in Steps
    BY <1>1, <2>1 DEF Steps
  <2> QED
    BY <2>1, <2>2, MovedInv
<1>4. CASE RequestFails
  <2>1. /\ step \in {"sending", "sent"} /\ Return(Failure("request failed"))
        /\ UNCHANGED <<ask, attempt, ends, now, timer, replies, after, waited, billed>>
    BY <1>4 DEF RequestFails
  <2> QED
    BY <2>1, FailedInv
<1>5. CASE \E status \in Statuses \ {"slow"} : Reply(status, -1)
  BY <1>5, ReplyInv
<1>6. CASE \E secs \in RetryAfters : Reply("slow", secs)
  <2>1. "slow" \in Statuses
    BY DEF Statuses
  <2> QED
    BY <1>6, <2>1, ReplyInv
<1>7. CASE ReadNoAnswer
  BY <1>7, ReadNoAnswerInv
<1>8. CASE ReadGarbage
  <2>1. /\ step = "reading" /\ Return(Unreadable(ask))
        /\ UNCHANGED <<ask, attempt, ends, now, timer, replies, after, waited, billed>>
    BY <1>8 DEF ReadGarbage
  <2>2. PICK error : error \notin {"none", "ok"} /\ Unreadable(ask) = Failure(error)
    BY DEF Unreadable
  <2> QED
    BY <2>1, <2>2, FailedInv
<1>9. CASE \E b \in IF ask.backend = "jev" THEN JevBodies ELSE OpenAIBodies : ReadAnswer(b)
  BY <1>9, ReadAnswerInv
<1>10. CASE Resume
  BY <1>10, ResumeInv
<1>11. CASE Abandon
  BY <1>11, AbandonInv
<1>12. CASE Tick
  <2>1. /\ step # "returned" /\ step' = step /\ now' = now + 1
        /\ UNCHANGED <<ask, attempt, ends, timer, replies, after, waited, billed, result>>
    BY <1>12 DEF Tick
  <2>2. now' \in Nat /\ step' \in Steps
    BY <1>1, <2>1
  <2> QED
    BY <2>1, <2>2, MovedInv
<1>13. CASE UNCHANGED vars
  <2>1. TooManyOptions(ask)' = TooManyOptions(ask)
    BY <1>13 DEF vars, TooManyOptions
  <2>2. Types' /\ RepliesInv' /\ WaitInv'
    BY <1>13, <2>1 DEF vars, Inv, StepInv, Types, RepliesInv, WaitInv
  <2>3. ResultInv'
    BY <1>13 DEF vars, Inv, ResultInv, Fits
  <2> QED
    BY <2>2, <2>3 DEF Inv, StepInv
<1> QED
  BY <1>2, <1>3, <1>4, <1>5, <1>6, <1>7, <1>8, <1>9, <1>10, <1>11, <1>12, <1>13 DEF Next

-----------------------------------------------------------------------------
(* The theorems.                                                           *)

\* The invariant holds throughout.
LEMMA Always == Spec => []Inv
<1>1. Init => Inv
  BY InitInv
<1> QED
  BY <1>1, NextInv, PTL DEF Spec

\* The types of an Ask: an attempt is one of MaxAttempts, every reply but the last
\* asked to slow down, a result has its probabilities exactly when it is an answer.
THEOREM BackendTypes == Spec => []TypeOK
<1>1. Inv => TypeOK
  <2> SUFFICES ASSUME Inv PROVE TypeOK
    OBVIOUS
  <2>1. /\ Types /\ Len(replies) <= attempt
        /\ \A k \in 1 .. attempt - 1 : k \in DOMAIN replies /\ replies[k] = "slow"
    BY DEF Inv, StepInv, RepliesInv
  <2>2. CASE step # "returned"
    <3>1. result.error = "none" /\ DOMAIN result.probs = {}
      <4>1. result = Failure("none")
        BY <2>2 DEF Inv, ResultInv
      <4>2. Failure("none").error = "none" /\ Failure("none").probs = <<>> /\ DOMAIN <<>> = {}
        BY DEF Failure, Result
      <4> QED
        BY <4>1, <4>2
    <3> QED
      BY <2>1, <2>2, <3>1 DEF TypeOK, Types
  <2>3. CASE step = "returned"
    <3>1. result.error # "none" /\ (result.error = "ok" <=> DOMAIN result.probs # {})
      BY <2>3 DEF Inv, ResultInv, Fits
    <3> QED
      BY <2>1, <2>3, <3>1 DEF TypeOK, Types
  <2> QED
    BY <2>2, <2>3
<1> QED
  BY <1>1, Always, PTL

\* However many attempts, and whatever the server asks for, the waits between them
\* are no longer than one cap for each retry: the delay is capped after it wrapped.
THEOREM IdleIsBounded == Spec => []IdleBounded
<1>1. Inv => IdleBounded
  <2> SUFFICES ASSUME Inv PROVE IdleBounded
    OBVIOUS
  <2>1. /\ attempt \in 1 .. MaxAttempts /\ step \in Steps /\ waited \in Nat
        /\ step = "waiting" => attempt < MaxAttempts
    BY DEF Inv, StepInv, Types, RepliesInv
  <2>2. ASSUME NEW a \in Nat, a <= MaxAttempts - 1, waited <= a * RetryAfterCap PROVE IdleBounded
    <3>1. PICK e \in Nat, c \in Nat : a + e = MaxAttempts - 1 /\ c = RetryAfterCap
      <4>1. MaxAttempts - 1 - a \in Nat /\ a + (MaxAttempts - 1 - a) = MaxAttempts - 1
        BY <2>2, Numbers
      <4> QED
        BY <4>1, Numbers
    <3>2. (a + e) * c = a * c + e * c /\ a * c \in Nat /\ e * c \in Nat
      BY SMT
    <3>3. waited <= (a + e) * c
      BY <2>1, <2>2, <3>1, <3>2
    <3> QED
      BY <3>1, <3>3 DEF IdleBounded
  <2>3. CASE step = "returned"
    BY <2>3 DEF Inv, WaitInv, IdleBounded
  <2>4. CASE step = "waiting"
    <3>1. attempt \in Nat /\ attempt <= MaxAttempts - 1 /\ waited <= attempt * RetryAfterCap
      BY <2>1, <2>4, Numbers DEF Inv, WaitInv
    <3> QED
      BY <2>2, <3>1
  <2>5. CASE step \notin {"waiting", "returned"}
    <3>1. attempt - 1 \in Nat /\ attempt - 1 <= MaxAttempts - 1
          /\ waited <= (attempt - 1) * RetryAfterCap
      BY <2>1, <2>5, Numbers DEF Inv, WaitInv
    <3> QED
      BY <2>2, <3>1
  <2> QED
    BY <2>3, <2>4, <2>5
<1> QED
  BY <1>1, Always, PTL

\* What Ask hands back for the daily cap is never more than was billed, and is all
\* of it for an answer, and for every reply of openai-logprobs.
THEOREM UsageIsReported == Spec => []UsageReported
<1>1. Inv => UsageReported
  <2> SUFFICES ASSUME Inv PROVE UsageReported
    OBVIOUS
  <2>1. CASE step # "returned"
    <3>1. result = Failure("none") /\ billed = 0
      BY <2>1 DEF Inv, ResultInv
    <3> QED
      BY <2>1, <3>1 DEF UsageReported, Failure, Result
  <2>2. CASE step = "returned"
    BY <2>2 DEF Inv, ResultInv, Fits, UsageReported
  <2> QED
    BY <2>1, <2>2
<1> QED
  BY <1>1, Always, PTL

\* A distribution a backend builds itself, from any masses and any number of
\* options, is one that validateProbabilities accepts: rounded down, its parts
\* fall short of one by less than the tolerance.
THEOREM BuiltIsAccepted == Spec => []BuiltIsADistribution
<1>1. Inv => BuiltIsADistribution
  <2> SUFFICES ASSUME Inv PROVE BuiltIsADistribution
    OBVIOUS
  <2>1. CASE step # "returned"
    <3>1. result.error = "none"
      BY <2>1 DEF Inv, ResultInv, Failure, Result
    <3> QED
      BY <3>1 DEF BuiltIsADistribution
  <2>2. CASE step = "returned"
    BY <2>2 DEF Inv, ResultInv, Fits, BuiltIsADistribution
  <2> QED
    BY <2>1, <2>2
<1> QED
  BY <1>1, Always, PTL

\* What has been waited is behind the clock, or is what the timer is set for; and
\* the clock does not pass the end of the context.
TimeInv ==
  /\ now <= ends
  /\ step \notin {"waiting", "returned"} => waited <= now
  /\ step = "waiting" => waited <= timer

\* A wait moves the timer as far on as what is waited.
LEMMA WaitKeepsTime == ASSUME Inv, TimeInv, ReadNoAnswer PROVE TimeInv'
<1>1. /\ step = "reading" /\ UNCHANGED <<ends, now>> /\ now \in Nat /\ waited \in Nat
      /\ now <= ends /\ waited <= now
  BY DEF ReadNoAnswer, TimeInv, Inv, StepInv, Types
<1>2. CASE ~TriesAgain
  <2>1. step' = "returned"
    BY <1>2 DEF ReadNoAnswer, Return
  <2> QED
    BY <1>1, <2>1 DEF TimeInv
<1>3. CASE TriesAgain
  <2> DEFINE delay == retryDelay(attempt, after)
             wait == IF delay > 0 THEN delay ELSE 0
  <2>1. step' = "waiting" /\ waited' = waited + wait /\ timer' = now + wait
    BY <1>3 DEF ReadNoAnswer
  <2>2. wait \in Nat
    <3>1. attempt \in Nat \ {0} /\ after \in Int
      BY Numbers DEF Inv, StepInv, Types
    <3>2. delay \in Int
      BY <3>1, DelayIs
    <3> HIDE DEF delay
    <3> QED
      BY <3>2
  <2> HIDE DEF wait
  <2> QED
    BY <1>1, <2>1, <2>2 DEF TimeInv
<1> QED
  BY <1>2, <1>3

\* Every step keeps to the clock.
LEMMA TimeKept == ASSUME Inv, TimeInv, [Next]_vars PROVE TimeInv'
<1>1. now \in Nat /\ ends \in Nat /\ timer \in Nat /\ waited \in Nat
  BY BackendAssumption DEF Inv, StepInv, Types
<1>2. CASE \/ Start \/ Send \/ RequestFails \/ ReadGarbage
           \/ \E status \in Statuses \ {"slow"} : Reply(status, -1)
           \/ \E secs \in RetryAfters : Reply("slow", secs)
           \/ \E b \in IF ask.backend = "jev" THEN JevBodies ELSE OpenAIBodies : ReadAnswer(b)
  <2>1. /\ UNCHANGED <<ends, now, timer, waited>>
        /\ step \notin {"waiting", "returned"} /\ step' # "waiting"
    BY <1>2 DEF Start, Send, RequestFails, ReadGarbage, Reply, ReadAnswer, Return
  <2> QED
    BY <2>1 DEF TimeInv
<1>3. CASE ReadNoAnswer
  BY <1>3, WaitKeepsTime
<1>4. CASE Resume
  <2>1. /\ step = "waiting" /\ now >= timer /\ step' = "sending"
        /\ UNCHANGED <<ends, now, timer, waited>>
    BY <1>4 DEF Resume
  <2> QED
    BY <1>1, <2>1 DEF TimeInv
<1>5. CASE Abandon
  <2>1. step' = "returned" /\ UNCHANGED <<ends, now, timer, waited>>
    BY <1>5 DEF Abandon, Return
  <2> QED
    BY <2>1 DEF TimeInv
<1>6. CASE Tick
  <2>1. now < ends /\ now' = now + 1 /\ UNCHANGED <<step, ends, timer, waited>>
    BY <1>1, <1>6 DEF Tick, SelectReady, Done
  <2> QED
    BY <1>1, <2>1 DEF TimeInv
<1>7. CASE UNCHANGED vars
  BY <1>7 DEF vars, TimeInv
<1> QED
  BY <1>2, <1>3, <1>4, <1>5, <1>6, <1>7 DEF Next

\* Whatever waits the server asks for, those before an attempt that is made fit in
\* the life of the context, and the context ends a wait that outlives it.
THEOREM RetriesFitTheDeadline == Spec => []NoRetryPastDeadline
<1>1. Init => TimeInv
  BY BackendAssumption DEF Init, TimeInv
<1>2. Inv /\ TimeInv => NoRetryPastDeadline
  <2> SUFFICES ASSUME Inv, TimeInv PROVE NoRetryPastDeadline
    OBVIOUS
  <2>1. now \in Nat /\ ends \in Nat /\ waited \in Nat
    BY BackendAssumption DEF Inv, StepInv, Types
  <2> QED
    BY <2>1 DEF TimeInv, NoRetryPastDeadline
<1> QED
  BY <1>1, <1>2, Always, TimeKept, PTL DEF Spec
=============================================================================
