-------------------------------- MODULE Sums --------------------------------
(***************************************************************************)
(* Facts about minima, finite sets and sums over them, which the proofs of *)
(* the proxy's accounting and of the reports need.  The library's theorems *)
(* on induction and recursion take an operator as a parameter; here each   *)
(* takes the set of what satisfies the hypothesis, so that it can be       *)
(* cited, and rests on the well-foundedness of < on Nat.                   *)
(***************************************************************************)
EXTENDS Integers, FiniteSetsExt, FiniteSetTheorems, WellFoundedInduction, TLAPS

-----------------------------------------------------------------------------
(* Induction, over numbers and over finite sets.                           *)

\* Every set of natural numbers that is not empty has a least element.
LEMMA LeastNat ==
  ASSUME NEW T, T \subseteq Nat, T # {} PROVE \E m \in T : \A n \in T : m <= n
<1>1. IsWellFoundedOn(OpToRel(<, Nat), Nat)
  BY NatLessThanWellFounded, Zenon
<1>2. PICK m \in T : \A y \in T : <<y, m>> \notin OpToRel(<, Nat)
  BY <1>1, WFMin, Zenon
<1>3. \A y \in T : ~ (y < m)
  BY <1>2 DEF OpToRel
<1> QED
  BY <1>3

\* What holds of 0 and of n + 1 when it holds of n holds of every number.
LEMMA NatInduct ==
  ASSUME NEW T, 0 \in T, \A n \in Nat : n \in T => n + 1 \in T PROVE Nat \subseteq T
<1> SUFFICES ASSUME Nat \ T # {} PROVE FALSE
  OBVIOUS
<1>1. PICK m \in Nat \ T : \A n \in Nat \ T : m <= n
  BY LeastNat
<1>2. m - 1 \in Nat /\ m - 1 \notin Nat \ T
  BY <1>1
<1> QED
  BY <1>1, <1>2

\* What holds of a set whenever it holds of the set less any one of its elements,
\* holds of every finite set, by the number of its elements.
LEMMA SetInduct ==
  ASSUME NEW S, IsFiniteSet(S), NEW T,
         \A s \in SUBSET S : (\A x \in s : s \ {x} \in T) => s \in T
  PROVE  SUBSET S \subseteq T
<1> DEFINE N == {n \in Nat : \A s \in SUBSET S : Cardinality(s) = n => s \in T}
<1>1. 0 \in N
  <2>1. ASSUME NEW s \in SUBSET S, Cardinality(s) = 0 PROVE s = {}
    BY <2>1, FS_Subset, FS_EmptySet
  <2> QED
    BY <2>1
<1>2. ASSUME NEW n \in Nat, n \in N PROVE n + 1 \in N
  <2> SUFFICES ASSUME NEW s \in SUBSET S, Cardinality(s) = n + 1 PROVE s \in T
    OBVIOUS
  <2>1. IsFiniteSet(s)
    BY FS_Subset
  <2>2. ASSUME NEW x \in s PROVE s \ {x} \in T
    <3>1. Cardinality(s \ {x}) = Cardinality(s) - 1
      BY <2>1, FS_RemoveElement
    <3>2. Cardinality(s \ {x}) = n
      BY <3>1
    <3> QED
      BY <1>2, <3>2
  <2> QED
    BY <2>2
<1>3. Nat \subseteq N
  <2> HIDE DEF N
  <2> QED
    BY <1>1, <1>2, NatInduct
<1> QED
  <2> SUFFICES ASSUME NEW s \in SUBSET S PROVE s \in T
    OBVIOUS
  <2>1. Cardinality(s) \in Nat
    BY FS_Subset, FS_CardinalityType
  <2> QED
    BY <1>3, <2>1

\* Every finite set of integers that is not empty has a greatest element.
LEMMA GreatestInt ==
  ASSUME NEW S, IsFiniteSet(S), S \subseteq Int, S # {} PROVE \E m \in S : \A n \in S : n <= m
<1> DEFINE T == {s \in SUBSET S : s # {} => \E m \in s : \A n \in s : n <= m}
<1>1. ASSUME NEW s \in SUBSET S, \A x \in s : s \ {x} \in T PROVE s \in T
  <2> SUFFICES ASSUME s # {} PROVE \E m \in s : \A n \in s : n <= m
    OBVIOUS
  <2>1. PICK x \in s : TRUE
    OBVIOUS
  <2>2. CASE s \ {x} = {}
    BY <2>1, <2>2
  <2>3. CASE s \ {x} # {}
    <3>1. PICK m \in s \ {x} : \A n \in s \ {x} : n <= m
      BY <1>1, <2>3
    <3>2. CASE x <= m
      BY <3>1, <3>2
    <3>3. CASE ~(x <= m)
      BY <2>1, <3>1, <3>3
    <3> QED
      BY <3>2, <3>3
  <2> QED
    BY <2>2, <2>3
<1> HIDE DEF T
<1>2. S \in T
  BY <1>1, SetInduct
<1> QED
  BY <1>2 DEF T

\* Max and Min of a finite set of integers are in it, and bound it.
LEMMA MaxIs ==
  ASSUME NEW S, IsFiniteSet(S), S \subseteq Int, S # {}
  PROVE  Max(S) \in S /\ \A n \in S : n <= Max(S)
<1>1. \E m \in S : \A n \in S : m >= n
  BY GreatestInt
<1> QED
  BY <1>1 DEF Max

-----------------------------------------------------------------------------
(* Sums.  MapThenSumSet takes away one element after another, the one that *)
(* CHOOSE picks.                                                           *)

Pick(s) == CHOOSE x \in s : TRUE

\* it is the sum of f over each subset of S.
Sums(it, f, S) ==
  it = [s \in SUBSET S |-> IF s = {} THEN 0 ELSE f[Pick(s)] + it[s \ {Pick(s)}]]

SumOf(f, S) == MapThenSumSet(LAMBDA x : f[x], S)

\* An element that CHOOSE picks.
LEMMA PickIs == ASSUME NEW s, s # {} PROVE Pick(s) \in s
BY DEF Pick

\* The recursion that defines the sums has a solution, for every finite set.
LEMMA SumsExist ==
  ASSUME NEW S, IsFiniteSet(S), NEW f PROVE \E it : Sums(it, f, S)
<1> DEFINE D(n) == {s \in SUBSET S : Cardinality(s) <= n}
           Def(g, s) == IF s = {} THEN 0 ELSE f[Pick(s)] + g[s \ {Pick(s)}]
           On(g, n) == g = [s \in D(n) |-> Def(g, s)]
           N == {n \in Nat : \E g : On(g, n)}
<1>1. \A s \in SUBSET S : IsFiniteSet(s) /\ Cardinality(s) \in Nat
  BY FS_Subset, FS_CardinalityType
<1>2. 0 \in N
  <2> DEFINE g == [s \in D(0) |-> 0]
  <2>1. \A s \in D(0) : s = {}
    BY <1>1, FS_EmptySet
  <2>2. On(g, 0)
    BY <2>1
  <2> QED
    BY <2>2
<1>3. ASSUME NEW n \in Nat, n \in N PROVE n + 1 \in N
  <2>1. PICK g : On(g, n)
    BY <1>3
  <2> DEFINE k == [s \in D(n + 1) |-> Def(g, s)]
  <2>2. D(n) \subseteq D(n + 1)
    BY <1>1
  <2>3. \A s \in D(n) : k[s] = g[s]
    BY <2>1, <2>2
  <2>4. ASSUME NEW s \in D(n + 1), s # {} PROVE s \ {Pick(s)} \in D(n)
    <3>1. Pick(s) \in s
      BY <2>4, PickIs
    <3>2. Cardinality(s \ {Pick(s)}) = Cardinality(s) - 1
      BY <1>1, <3>1, FS_RemoveElement
    <3>3. Cardinality(s) - 1 <= n /\ s \ {Pick(s)} \in SUBSET S
      BY <1>1
    <3> QED
      BY <3>2, <3>3
  <2>5. ASSUME NEW s \in D(n + 1) PROVE k[s] = Def(k, s)
    <3> HIDE DEF D
    <3>1. CASE s = {}
      BY <3>1
    <3>2. CASE s # {}
      <4>1. k[s] = f[Pick(s)] + g[s \ {Pick(s)}]
        BY <3>2
      <4> HIDE DEF k
      <4>2. k[s \ {Pick(s)}] = g[s \ {Pick(s)}]
        BY <2>3, <2>4, <3>2
      <4> QED
        BY <3>2, <4>1, <4>2
    <3> QED
      BY <3>1, <3>2
  <2>6. On(k, n + 1)
    <3> HIDE DEF D
    <3>1. \A s \in D(n + 1) : Def(g, s) = Def(k, s)
      BY <2>5
    <3> HIDE DEF Def
    <3>2. [s \in D(n + 1) |-> Def(g, s)] = [s \in D(n + 1) |-> Def(k, s)]
      <4> HIDE DEF k
      <4> QED
        BY <3>1
    <3> QED
      BY <3>2
  <2> HIDE DEF k, On
  <2> QED
    BY <2>6
<1>4. Nat \subseteq N
  <2> HIDE DEF N
  <2> QED
    BY <1>2, <1>3, NatInduct
<1>5. PICK g : On(g, Cardinality(S))
  BY <1>1, <1>4
<1>6. D(Cardinality(S)) = SUBSET S
  BY <1>1, FS_Subset
<1>7. Sums(g, f, S)
  BY <1>5, <1>6 DEF Sums
<1> QED
  BY <1>7

\* Two solutions of the recursion, over two sets, agree where the functions do.
LEMMA SumsAgree ==
  ASSUME NEW S, IsFiniteSet(S), NEW R, NEW f, NEW g, NEW it, NEW jt,
         Sums(it, f, S), Sums(jt, g, R)
  PROVE  \A s \in SUBSET S : s \subseteq R /\ (\A x \in s : f[x] = g[x]) => it[s] = jt[s]
<1> DEFINE Same(s) == s \subseteq R /\ (\A x \in s : f[x] = g[x]) => it[s] = jt[s]
           N == {n \in Nat : \A s \in SUBSET S : Cardinality(s) <= n => Same(s)}
<1>1. \A s \in SUBSET S : IsFiniteSet(s) /\ Cardinality(s) \in Nat
  BY FS_Subset, FS_CardinalityType
<1>2. it[{}] = 0 /\ jt[{}] = 0
  BY DEF Sums
<1>3. 0 \in N
  <2>1. ASSUME NEW s \in SUBSET S, Cardinality(s) <= 0 PROVE s = {}
    BY <1>1, <2>1, FS_EmptySet
  <2> QED
    BY <1>2, <2>1
<1>4. ASSUME NEW n \in Nat, n \in N PROVE n + 1 \in N
  <2> SUFFICES ASSUME NEW s \in SUBSET S, Cardinality(s) <= n + 1, s \subseteq R,
                      \A x \in s : f[x] = g[x]
               PROVE  it[s] = jt[s]
    OBVIOUS
  <2>1. CASE s = {}
    BY <1>2, <2>1
  <2>2. CASE s # {}
    <3> DEFINE t == s \ {Pick(s)}
    <3>1. Pick(s) \in s
      BY <2>2, PickIs
    <3>2. Cardinality(t) = Cardinality(s) - 1
      BY <1>1, <3>1, FS_RemoveElement
    <3>3. Cardinality(t) <= n /\ t \in SUBSET S /\ t \subseteq R /\ \A x \in t : f[x] = g[x]
      BY <1>1, <3>2
    <3>4. it[t] = jt[t]
      BY <1>4, <3>3
    <3>5. it[s] = f[Pick(s)] + it[t] /\ jt[s] = g[Pick(s)] + jt[t]
      BY <2>2 DEF Sums
    <3> QED
      BY <3>1, <3>4, <3>5
  <2> QED
    BY <2>1, <2>2
<1>5. Nat \subseteq N
  <2> HIDE DEF N
  <2> QED
    BY <1>3, <1>4, NatInduct
<1>6. ASSUME NEW s \in SUBSET S PROVE Same(s)
  <2>1. Cardinality(s) \in N
    BY <1>1, <1>5
  <2> QED
    BY <1>1, <2>1
<1> QED
  BY <1>6

\* A solution of the recursion is the sum, for each subset.
LEMMA SumIs ==
  ASSUME NEW S, IsFiniteSet(S), NEW f, NEW it, Sums(it, f, S), NEW s \in SUBSET S
  PROVE  it[s] = SumOf(f, s)
<1> DEFINE jt == CHOOSE kt : Sums(kt, f, s)
<1>1. SumOf(f, s) = jt[s]
  BY DEF SumOf, MapThenSumSet, MapThenFoldSet, Sums, Pick
<1>2. Sums(jt, f, s)
  BY SumsExist, FS_Subset
<1> HIDE DEF jt
<1> QED
  BY <1>1, <1>2, SumsAgree

\* The sum over nothing is 0.
LEMMA SumEmpty == ASSUME NEW f PROVE SumOf(f, {}) = 0
<1>1. IsFiniteSet({})
  BY FS_EmptySet
<1>2. PICK it : Sums(it, f, {})
  BY <1>1, SumsExist
<1>3. it[{}] = 0
  BY <1>2 DEF Sums
<1> QED
  BY <1>1, <1>2, <1>3, SumIs

\* The sum is that of the element CHOOSE picks and of the rest.
LEMMA SumPick ==
  ASSUME NEW S, IsFiniteSet(S), S # {}, NEW f
  PROVE  Pick(S) \in S /\ SumOf(f, S) = f[Pick(S)] + SumOf(f, S \ {Pick(S)})
<1>1. PICK it : Sums(it, f, S)
  BY SumsExist
<1>2. Pick(S) \in S /\ it[S] = f[Pick(S)] + it[S \ {Pick(S)}]
  BY <1>1, PickIs DEF Sums
<1>3. it[S] = SumOf(f, S) /\ it[S \ {Pick(S)}] = SumOf(f, S \ {Pick(S)})
  BY <1>1, SumIs
<1> QED
  BY <1>2, <1>3

\* The sum depends on the values of f on S alone.
LEMMA SumSame ==
  ASSUME NEW S, IsFiniteSet(S), NEW f, NEW g, \A x \in S : f[x] = g[x]
  PROVE  SumOf(f, S) = SumOf(g, S)
<1>1. PICK it : Sums(it, f, S)
  BY SumsExist
<1>2. PICK jt : Sums(jt, g, S)
  BY SumsExist
<1>3. it[S] = jt[S]
  BY <1>1, <1>2, SumsAgree
<1> QED
  BY <1>1, <1>2, <1>3, SumIs

\* A sum of integers is one.
LEMMA SumInt ==
  ASSUME NEW S, IsFiniteSet(S), NEW f, \A x \in S : f[x] \in Int
  PROVE  \A s \in SUBSET S : SumOf(f, s) \in Int
<1> DEFINE T == {s \in SUBSET S : SumOf(f, s) \in Int}
<1>1. ASSUME NEW s \in SUBSET S, \A x \in s : s \ {x} \in T PROVE s \in T
  <2>1. CASE s = {}
    BY <2>1, SumEmpty
  <2>2. CASE s # {}
    <3>1. Pick(s) \in s /\ SumOf(f, s) = f[Pick(s)] + SumOf(f, s \ {Pick(s)})
      BY <2>2, SumPick, FS_Subset
    <3> QED
      BY <1>1, <3>1
  <2> QED
    BY <2>1, <2>2
<1> HIDE DEF T
<1>2. SUBSET S \subseteq T
  BY <1>1, SetInduct
<1> QED
  BY <1>2 DEF T

\* The order of the elements does not matter: any of them can be taken first.
LEMMA SumRemove ==
  ASSUME NEW S, IsFiniteSet(S), NEW f, \A x \in S : f[x] \in Int, NEW x \in S
  PROVE  SumOf(f, S) = f[x] + SumOf(f, S \ {x})
<1> DEFINE T == {s \in SUBSET S : \A y \in s : SumOf(f, s) = f[y] + SumOf(f, s \ {y})}
<1>1. ASSUME NEW s \in SUBSET S, \A y \in s : s \ {y} \in T PROVE s \in T
  <2> SUFFICES ASSUME NEW y \in s PROVE SumOf(f, s) = f[y] + SumOf(f, s \ {y})
    OBVIOUS
  <2> DEFINE p == Pick(s)
             r == (s \ {p}) \ {y}
  <2>1. p \in s /\ SumOf(f, s) = f[p] + SumOf(f, s \ {p})
    BY SumPick, FS_Subset
  <2> HIDE DEF p
  <2>2. CASE p = y
    BY <2>1, <2>2
  <2>3. CASE p # y
    <3>1. SumOf(f, s \ {p}) = f[y] + SumOf(f, r)
      BY <1>1, <2>1, <2>3
    <3>2. (s \ {y}) \ {p} = r
      OBVIOUS
    <3>3. SumOf(f, s \ {y}) = f[p] + SumOf(f, (s \ {y}) \ {p})
      BY <1>1, <2>1, <2>3
    <3>4. r \in SUBSET S
      OBVIOUS
    <3> HIDE DEF r
    <3>5. SumOf(f, s \ {y}) = f[p] + SumOf(f, r)
      BY <3>2, <3>3
    <3>6. SumOf(f, r) \in Int /\ f[p] \in Int /\ f[y] \in Int
      BY <2>1, <3>4, SumInt
    <3> QED
      BY <2>1, <3>1, <3>5, <3>6
  <2> QED
    BY <2>2, <2>3
<1> HIDE DEF T
<1>2. S \in T
  BY <1>1, SetInduct
<1> QED
  BY <1>2 DEF T

\* An element more adds its value.
LEMMA SumAdd ==
  ASSUME NEW S, IsFiniteSet(S), NEW x, x \notin S, NEW f, \A y \in S \cup {x} : f[y] \in Int
  PROVE  SumOf(f, S \cup {x}) = SumOf(f, S) + f[x]
<1>1. IsFiniteSet(S \cup {x}) /\ (S \cup {x}) \ {x} = S
  BY FS_AddElement
<1>2. SumOf(f, S) \in Int
  BY SumInt
<1> QED
  BY <1>1, <1>2, SumRemove

\* A sum in which one value changes changes by as much.
LEMMA SumChange ==
  ASSUME NEW S, IsFiniteSet(S), NEW x \in S, NEW f, NEW g,
         \A y \in S : f[y] \in Int /\ g[y] \in Int, \A y \in S \ {x} : g[y] = f[y]
  PROVE  SumOf(g, S) - SumOf(f, S) = g[x] - f[x]
<1>1. IsFiniteSet(S \ {x})
  BY FS_RemoveElement
<1>2. SumOf(f, S) = f[x] + SumOf(f, S \ {x}) /\ SumOf(g, S) = g[x] + SumOf(g, S \ {x})
  BY SumRemove
<1>3. SumOf(g, S \ {x}) = SumOf(f, S \ {x}) /\ SumOf(f, S \ {x}) \in Int
  BY <1>1, SumSame, SumInt
<1> QED
  BY <1>2, <1>3

\* A sum of larger values is larger.
LEMMA SumLess ==
  ASSUME NEW S, IsFiniteSet(S), NEW f, NEW g,
         \A x \in S : f[x] \in Int /\ g[x] \in Int /\ f[x] <= g[x]
  PROVE  SumOf(f, S) <= SumOf(g, S)
<1> DEFINE T == {s \in SUBSET S : SumOf(f, s) <= SumOf(g, s)}
<1>1. ASSUME NEW s \in SUBSET S, \A x \in s : s \ {x} \in T PROVE s \in T
  <2>1. CASE s = {}
    BY <2>1, SumEmpty
  <2>2. CASE s # {}
    <3> DEFINE p == Pick(s)
    <3>1. p \in s /\ SumOf(f, s) = f[p] + SumOf(f, s \ {p}) /\ SumOf(g, s) = g[p] + SumOf(g, s \ {p})
      BY <2>2, SumPick, FS_Subset
    <3> HIDE DEF p
    <3>2. SumOf(f, s \ {p}) \in Int /\ SumOf(g, s \ {p}) \in Int
      BY SumInt
    <3>3. SumOf(f, s \ {p}) <= SumOf(g, s \ {p}) /\ f[p] <= g[p] /\ f[p] \in Int /\ g[p] \in Int
      BY <1>1, <3>1
    <3>4. SumOf(f, s) <= SumOf(g, s)
      BY <3>1, <3>2, <3>3
    <3> QED
      BY <3>4
  <2> QED
    BY <2>1, <2>2
<1> HIDE DEF T
<1>2. S \in T
  BY <1>1, SetInduct
<1> QED
  BY <1>2 DEF T

\* The parts of a set, by the value of a function, have as many elements together
\* as the set.
LEMMA SumParts ==
  ASSUME NEW X, IsFiniteSet(X), NEW S, IsFiniteSet(S), NEW f, \A s \in S : f[s] \in X,
         NEW part, \A x \in X : \A s : s \in part[x] <=> s \in S /\ f[s] = x,
         NEW c, \A x \in X : c[x] = Cardinality(part[x])
  PROVE  SumOf(c, X) = Cardinality(S)
<1> DEFINE Of(Y) == {s \in S : f[s] \in Y}
           T == {Y \in SUBSET X : SumOf(c, Y) = Cardinality(Of(Y))}
<1>1. ASSUME NEW Y \in SUBSET X, \A y \in Y : Y \ {y} \in T PROVE Y \in T
  <2>1. CASE Y = {}
    <3>1. Of(Y) = {}
      BY <2>1
    <3>2. SumOf(c, Y) = 0 /\ Cardinality({}) = 0
      BY <2>1, SumEmpty, FS_EmptySet
    <3> HIDE DEF Of
    <3> QED
      BY <3>1, <3>2
  <2>2. CASE Y # {}
    <3> DEFINE p == Pick(Y)
               A == part[p]
               B == Of(Y \ {p})
    <3>1. p \in Y /\ SumOf(c, Y) = c[p] + SumOf(c, Y \ {p})
      BY <2>2, SumPick, FS_Subset
    <3> HIDE DEF p
    <3>2. A \cap B = {} /\ Of(Y) = A \cup B /\ A \subseteq S /\ B \subseteq S
      BY <3>1
    <3>3. SumOf(c, Y \ {p}) = Cardinality(B) /\ c[p] = Cardinality(A)
      BY <1>1, <3>1
    <3> HIDE DEF A, B, Of
    <3>4. IsFiniteSet(A) /\ IsFiniteSet(B)
      BY <3>2, FS_Subset
    <3>5. /\ Cardinality(A \cup B) = Cardinality(A) + Cardinality(B) - Cardinality(A \cap B)
          /\ Cardinality(A \cap B) = 0 /\ Cardinality(A) \in Nat /\ Cardinality(B) \in Nat
      <4>1. Cardinality({}) = 0
        BY FS_EmptySet
      <4>2. Cardinality(A) \in Nat /\ Cardinality(B) \in Nat
        BY <3>4, FS_CardinalityType
      <4>3. Cardinality(A \cup B) = Cardinality(A) + Cardinality(B) - Cardinality(A \cap B)
        BY <3>4, FS_Union
      <4> QED
        BY <3>2, <4>1, <4>2, <4>3
    <3>6. SumOf(c, Y) = Cardinality(Of(Y))
      BY <3>1, <3>2, <3>3, <3>5
    <3> QED
      BY <3>6
  <2> QED
    BY <2>1, <2>2
<1>2. Of(X) = S
  OBVIOUS
<1> HIDE DEF T, Of
<1>3. X \in T
  BY <1>1, SetInduct
<1>4. SumOf(c, X) = Cardinality(Of(X))
  BY <1>3 DEF T
<1> QED
  BY <1>2, <1>4

\* A sum of natural numbers is one.
LEMMA SumNat ==
  ASSUME NEW S, IsFiniteSet(S), NEW f, \A x \in S : f[x] \in Nat
  PROVE  \A s \in SUBSET S : SumOf(f, s) \in Nat
<1> DEFINE T == {s \in SUBSET S : SumOf(f, s) \in Nat}
<1>1. ASSUME NEW s \in SUBSET S, \A x \in s : s \ {x} \in T PROVE s \in T
  <2>1. CASE s = {}
    BY <2>1, SumEmpty
  <2>2. CASE s # {}
    <3>1. Pick(s) \in s /\ SumOf(f, s) = f[Pick(s)] + SumOf(f, s \ {Pick(s)})
      BY <2>2, SumPick, FS_Subset
    <3> QED
      BY <1>1, <3>1
  <2> QED
    BY <2>1, <2>2
<1> HIDE DEF T
<1>2. SUBSET S \subseteq T
  BY <1>1, SetInduct
<1> QED
  BY <1>2 DEF T

\* A sum over other names of the same elements is the same sum.
LEMMA SumRenamed ==
  ASSUME NEW X, IsFiniteSet(X), NEW Y, IsFiniteSet(Y), NEW to,
         \A y : y \in Y <=> \E x \in X : to[x] = y,
         \A x, w \in X : to[x] = to[w] => x = w,
         NEW g, \A y \in Y : g[y] \in Int, NEW h, \A x \in X : h[x] = g[to[x]]
  PROVE  SumOf(h, X) = SumOf(g, Y)
<1> DEFINE Names(s) == {y \in Y : \E x \in s : to[x] = y}
           T == {s \in SUBSET X : SumOf(h, s) = SumOf(g, Names(s))}
<1>1. ASSUME NEW s \in SUBSET X, \A x \in s : s \ {x} \in T PROVE s \in T
  <2>1. CASE s = {}
    <3>1. Names(s) = {}
      BY <2>1
    <3> HIDE DEF Names
    <3> QED
      BY <2>1, <3>1, SumEmpty
  <2>2. CASE s # {}
    <3>1. PICK x \in s : SumOf(h, s) = h[x] + SumOf(h, s \ {x})
      BY <2>2, SumPick, FS_Subset
    <3>2. Names(s \ {x}) = Names(s) \ {to[x]} /\ to[x] \in Names(s) /\ Names(s) \subseteq Y
      BY <3>1
    <3>3. SumOf(h, s \ {x}) = SumOf(g, Names(s \ {x})) /\ h[x] = g[to[x]]
      BY <1>1, <3>1
    <3> HIDE DEF Names
    <3>4. SumOf(g, Names(s)) = g[to[x]] + SumOf(g, Names(s) \ {to[x]})
      <4>1. IsFiniteSet(Names(s)) /\ \A y \in Names(s) : g[y] \in Int
        BY <3>2, FS_Subset
      <4> QED
        BY <3>2, <4>1, SumRemove
    <3>5. SumOf(h, s) = SumOf(g, Names(s))
      BY <3>1, <3>2, <3>3, <3>4
    <3> QED
      BY <3>5
  <2> QED
    BY <2>1, <2>2
<1>2. Names(X) = Y
  OBVIOUS
<1> HIDE DEF T, Names
<1>3. X \in T
  BY <1>1, SetInduct
<1>4. SumOf(h, X) = SumOf(g, Names(X))
  BY <1>3 DEF T
<1> QED
  BY <1>2, <1>4
=============================================================================
