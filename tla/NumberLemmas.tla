---------------------------- MODULE NumberLemmas ---------------------------
(***************************************************************************)
(* What the proofs need of numbers: least elements, division with rest,    *)
(* arithmetic modulo a number (the widths of the code's unsigned           *)
(* integers), and sums over finite sets.                                   *)
(*                                                                         *)
(* A sum is a recursive function over the subsets of a set, so what is     *)
(* said of it needs induction.  It is done here by least counterexamples:  *)
(* of the subsets that go wrong one goes right as soon as an element is    *)
(* taken out (SmallestWrong).                                              *)
(***************************************************************************)
EXTENDS Integers, FiniteSets, Functions, FiniteSetTheorems,
        WellFoundedInduction, TLAPS

\* The least of a set of numbers.
LEMMA Least ==
  ASSUME NEW T \in SUBSET Nat, T # {}
  PROVE  \E x \in T : \A y \in T : x <= y
<1>1. PICK x \in T : \A y \in T : <<y, x>> \notin OpToRel(<, Nat)
  BY WFMin, NatLessThanWellFounded, Zenon
<1>2. \A y \in T : ~(y < x)
  BY <1>1 DEF OpToRel
<1> QED
  BY <1>2

-----------------------------------------------------------------------------
(***************************************************************************)
(* Division with rest.                                                     *)
(***************************************************************************)
\* What a division leaves: the quotient and the rest.
LEMMA Division ==
  ASSUME NEW n \in Nat, NEW b \in Nat \ {0}
  PROVE  /\ n \div b \in Nat
         /\ n % b \in 0 .. b - 1
         /\ n = b * (n \div b) + (n % b)
<1>1. b \in Nat /\ b > 0
  OBVIOUS
<1>2. n % b \in 0 .. b - 1
  BY <1>1
<1>3. n = b * (n \div b) + (n % b)
  BY <1>1, SMTT(30)
<1>4. n \div b \in Nat
  BY <1>1, SMTT(30)
<1> QED
  BY <1>2, <1>3, <1>4

\* The same for every integer: the rest is never negative.
LEMMA IntegerDivision ==
  ASSUME NEW n \in Int, NEW b \in Nat \ {0}
  PROVE  /\ n \div b \in Int
         /\ n % b \in 0 .. b - 1
         /\ n = b * (n \div b) + (n % b)
<1>1. b \in Nat /\ b > 0
  OBVIOUS
<1>2. n % b \in 0 .. b - 1
  BY <1>1
<1>3. n = b * (n \div b) + (n % b)
  BY <1>1, SMTT(30)
<1>4. n \div b \in Int
  BY <1>1, SMTT(30)
<1> QED
  BY <1>2, <1>3, <1>4

\* Only zero is a multiple of b that is smaller than b.
LEMMA SmallMultiple ==
  ASSUME NEW b \in Nat \ {0}, NEW k \in Int, b * k >= 0, b * k < b
  PROVE  k = 0
<1>1. CASE k >= 1
  <2>1. b * (k - 1) >= 0
    BY <1>1, SMTT(30)
  <2>2. b * (k - 1) = (b * k) - b
    BY SMTT(30)
  <2> QED
    BY <2>1, <2>2
<1>2. CASE k <= -1
  <2>1. b * (0 - k) >= b
    BY <1>2, SMTT(30)
  <2>2. b * (0 - k) = 0 - (b * k)
    BY SMTT(30)
  <2> QED
    BY <2>1, <2>2
<1> QED
  BY <1>1, <1>2

\* A factor cancels.
LEMMA FactorCancels ==
  ASSUME NEW a \in Int, NEW b \in Int, NEW c \in Nat \ {0}, a * c <= b * c
  PROVE  a <= b
<1>1. SUFFICES ASSUME a >= b + 1
               PROVE  FALSE
  OBVIOUS
<1>2. a * c >= (b + 1) * c
  BY <1>1, SMTT(30)
<1>3. (b + 1) * c = b * c + c /\ b * c \in Int /\ a * c \in Int
  BY SMTT(30)
<1> QED
  BY <1>2, <1>3

\* The quotient is known when the number is between two multiples.
LEMMA QuotientIs ==
  ASSUME NEW n \in Nat, NEW q \in Nat \ {0}, NEW p \in Nat,
         q * p <= n, n < q * p + q
  PROVE  n \div q = p
<1>1. PICK a \in Nat, r \in Nat : a = n \div q /\ r < q /\ n = q * a + r
  <2>1. n \div q \in Nat /\ n % q \in 0 .. q - 1 /\ n = q * (n \div q) + (n % q)
    BY Division
  <2> QED
    BY <2>1
<1>2. q * a \in Nat /\ q * p \in Nat
  BY SMTT(30)
<1>3. ~(a >= p + 1)
  <2>1. ASSUME a >= p + 1
        PROVE  FALSE
    <3>1. q * a >= q * (p + 1) /\ q * (p + 1) = q * p + q
      BY <2>1, SMTT(30)
    <3> QED
      BY <1>1, <1>2, <3>1
  <2> QED
    BY <2>1
<1>4. ~(p >= a + 1)
  <2>1. ASSUME p >= a + 1
        PROVE  FALSE
    <3>1. q * p >= q * (a + 1) /\ q * (a + 1) = q * a + q
      BY <2>1, SMTT(30)
    <3> QED
      BY <1>1, <1>2, <3>1
  <2> QED
    BY <2>1
<1> QED
  BY <1>1, <1>3, <1>4

\* What rounding to the nearest multiple of q leaves of the number.
LEMMA NearestMultiple ==
  ASSUME NEW m \in Nat, NEW q \in Nat \ {0}, NEW w,
         w = LET rest == 2 * (m % q)
                 up   == rest > q \/ (rest = q /\ (m \div q) % 2 = 1)
             IN  IF up THEN (m \div q) + 1 ELSE m \div q
  PROVE  /\ w \in Nat
         /\ 2 * ((q * w) - m) <= q
         /\ 2 * (m - (q * w)) <= q
<1>1. /\ m \div q \in Nat
      /\ m % q \in 0 .. q - 1
      /\ m = q * (m \div q) + (m % q)
  BY Division
<1>2. PICK a \in Nat, r \in Nat : /\ a = m \div q /\ r = m % q
                                  /\ r < q /\ m = q * a + r
  BY <1>1
<1>3. \/ w = a /\ 2 * r <= q
      \/ w = a + 1 /\ 2 * r >= q
  <2>1. w = IF 2 * r > q \/ (2 * r = q /\ a % 2 = 1) THEN a + 1 ELSE a
    BY <1>2
  <2> QED
    BY <1>2, <2>1
<1>4. q * (a + 1) = q * a + q /\ q * a \in Nat
  BY SMTT(30)
<1> QED
  BY <1>2, <1>3, <1>4

\* Numbers that differ by a multiple of b leave the same rest.
LEMMA SameRest ==
  ASSUME NEW b \in Nat \ {0}, NEW m \in Int, NEW n \in Int, NEW k \in Int,
         m = n + b * k
  PROVE  m % b = n % b
<1>1. /\ m % b \in 0 .. b - 1 /\ n % b \in 0 .. b - 1
      /\ m \div b \in Int /\ n \div b \in Int
      /\ m = b * (m \div b) + (m % b)
      /\ n = b * (n \div b) + (n % b)
  BY IntegerDivision
<1>2. PICK q \in Int : q = m \div b
  BY <1>1
<1>3. PICK r \in 0 .. b - 1 : r = m % b
  BY <1>1
<1>4. PICK q1 \in Int : q1 = n \div b
  BY <1>1
<1>5. PICK r1 \in 0 .. b - 1 : r1 = n % b
  BY <1>1
<1>6. b * ((q1 + k) - q) = r - r1 /\ b * (q - (q1 + k)) = r1 - r
  <2>1. b * q + r = (b * q1 + r1) + b * k
    BY <1>1, <1>2, <1>3, <1>4, <1>5
  <2>2. /\ b * ((q1 + k) - q) = (b * q1 + b * k) - b * q
        /\ b * (q - (q1 + k)) = b * q - (b * q1 + b * k)
    BY SMTT(30)
  <2>3. b * q \in Int /\ b * q1 \in Int /\ b * k \in Int
    BY SMTT(30)
  <2> QED
    BY <2>1, <2>2, <2>3
<1>7. CASE r >= r1
  <2>1. (q1 + k) - q = 0
    BY <1>6, <1>7, SmallMultiple
  <2>2. b * ((q1 + k) - q) = 0
    BY <2>1
  <2> QED
    BY <1>3, <1>5, <1>6, <2>2
<1>8. CASE r1 >= r
  <2>1. q - (q1 + k) = 0
    BY <1>6, <1>8, SmallMultiple
  <2>2. b * (q - (q1 + k)) = 0
    BY <2>1
  <2> QED
    BY <1>3, <1>5, <1>6, <2>2
<1> QED
  BY <1>7, <1>8

\* A multiple of b leaves no rest.
LEMMA MultipleLeavesNothing ==
  ASSUME NEW b \in Nat \ {0}, NEW d \in Nat
  PROVE  (d * b) % b = 0
<1>1. d * b \in Int /\ b * d \in Int /\ d * b = b * d
  BY SMTT(30)
<1>2. PICK n \in Int : n = d * b
  BY <1>1
<1>3. n = 0 + b * d
  BY <1>1, <1>2
<1>4. n % b = 0 % b /\ 0 % b = 0
  BY <1>3, SameRest
<1> QED
  BY <1>2, <1>4

\* What is added to or taken from a rest may as well be added to or taken
\* from the number first.
LEMMA RestOfSum ==
  ASSUME NEW b \in Nat \ {0}, NEW n \in Int, NEW d \in Int
  PROVE  /\ ((n % b) + d) % b = (n + d) % b
         /\ ((n % b) - d) % b = (n - d) % b
<1>1. /\ n % b \in 0 .. b - 1 /\ n \div b \in Int
      /\ n = b * (n \div b) + (n % b)
  BY IntegerDivision
<1>2. PICK q \in Int : q = n \div b
  BY <1>1
<1>3. PICK r \in Int : r = n % b
  BY <1>1
<1>4. /\ b * q \in Int /\ b * (-q) \in Int /\ b * (-q) = -(b * q)
      /\ -q \in Int
  BY SMTT(30)
<1>5. n = b * q + r
  BY <1>1, <1>2, <1>3
<1>6. r + d = (n + d) + b * (-q) /\ r - d = (n - d) + b * (-q)
  BY <1>4, <1>5
<1>7. (r + d) % b = (n + d) % b
  <2>1. PICK m1 \in Int : m1 = r + d
    OBVIOUS
  <2>2. PICK n1 \in Int : n1 = n + d
    OBVIOUS
  <2>3. PICK k \in Int : k = -q
    BY <1>4
  <2>4. m1 = n1 + b * k
    BY <1>6, <2>1, <2>2, <2>3
  <2>5. m1 % b = n1 % b
    BY <2>4, SameRest
  <2> QED
    BY <2>1, <2>2, <2>5
<1>8. (r - d) % b = (n - d) % b
  <2>1. PICK m1 \in Int : m1 = r - d
    OBVIOUS
  <2>2. PICK n1 \in Int : n1 = n - d
    OBVIOUS
  <2>3. PICK k \in Int : k = -q
    BY <1>4
  <2>4. m1 = n1 + b * k
    BY <1>6, <2>1, <2>2, <2>3
  <2>5. m1 % b = n1 % b
    BY <2>4, SameRest
  <2> QED
    BY <2>1, <2>2, <2>5
<1> QED
  BY <1>3, <1>7, <1>8

-----------------------------------------------------------------------------
(***************************************************************************)
(* Sums.                                                                   *)
(***************************************************************************)
\* Of the subsets of a finite set that go wrong, one goes right when any of
\* its elements is taken out: what proofs by induction come to here.
LEMMA SmallestWrong ==
  ASSUME NEW S, IsFiniteSet(S), NEW Wrong \in SUBSET (SUBSET S), Wrong # {}
  PROVE  \E s \in Wrong : \A x \in s : s \ {x} \notin Wrong
<1> DEFINE Sizes == {Cardinality(s) : s \in Wrong}
<1>1. \A s \in SUBSET S : IsFiniteSet(s) /\ Cardinality(s) \in Nat
  BY FS_Subset, FS_CardinalityType
<1>2. Sizes \in SUBSET Nat /\ Sizes # {}
  BY <1>1
<1>3. PICK n \in Sizes : \A k \in Sizes : n <= k
  BY <1>2, Least
<1>4. PICK s \in Wrong : n = Cardinality(s)
  BY <1>3
<1>5. ASSUME NEW x \in s, s \ {x} \in Wrong
      PROVE  FALSE
  <2>1. Cardinality(s \ {x}) = Cardinality(s) - 1
    <3>1. IsFiniteSet(s) /\ x \in s
      BY <1>1, <1>4, <1>5
    <3> QED
      BY <3>1, FS_RemoveElement
  <2>2. Cardinality(s \ {x}) \in Sizes
    BY <1>5
  <2>3. Cardinality(s) \in Nat /\ Cardinality(s) <= Cardinality(s \ {x})
    BY <1>1, <1>3, <1>4, <2>2
  <2> QED
    BY <2>1, <2>3
<1> QED
  BY <1>5

(***************************************************************************)
(* The recursive function behind the sum.                                  *)
(***************************************************************************)
ChosenFrom(s) == CHOOSE x \in s : TRUE

\* What g should give for s if it is right for smaller sets.
SumStep(g, f, s) ==
  IF s = {} THEN 0 ELSE f[ChosenFrom(s)] + g[s \ {ChosenFrom(s)}]

Adds(g, f, S) == g = [s \in SUBSET S |-> SumStep(g, f, s)]

\* The library's sum, unfolded once.
LEMMA SumUnfolds ==
  ASSUME NEW f, NEW S
  PROVE  SumFunctionOnSet(f, S) = (CHOOSE g : Adds(g, f, S))[S]
BY DEF SumFunctionOnSet, FoldFunctionOnSet, MapThenFoldSet, Adds, SumStep,
       ChosenFrom

\* An element is chosen wherever there is one.
LEMMA ChosenIsIn ==
  ASSUME NEW s, s # {}
  PROVE  ChosenFrom(s) \in s
BY DEF ChosenFrom

\* There is a function that adds up as the recursion says: one for the
\* subsets up to each size, by induction on the size.
LEMMA AddsExists ==
  ASSUME NEW S, IsFiniteSet(S), NEW f
  PROVE  \E g : Adds(g, f, S)
<1> DEFINE Upto(n) == {s \in SUBSET S : Cardinality(s) <= n}
           Right(n, g) == g = [s \in Upto(n) |-> SumStep(g, f, s)]
           Bad == {n \in Nat : \A g : ~Right(n, g)}
<1>1. \A s \in SUBSET S : IsFiniteSet(s) /\ Cardinality(s) \in Nat
  BY FS_Subset, FS_CardinalityType
<1>2. SUFFICES ASSUME Bad # {}
               PROVE  FALSE
  <2>1. Cardinality(S) \in Nat
    BY FS_CardinalityType
  <2>2. PICK g : Right(Cardinality(S), g)
    BY ZenonT(30), <1>2, <2>1
  <2>3. Upto(Cardinality(S)) = SUBSET S
    BY FS_Subset
  <2> QED
    BY <2>2, <2>3 DEF Adds
<1>3. PICK n \in Bad : \A k \in Bad : n <= k
  <2>1. Bad \in SUBSET Nat
    OBVIOUS
  <2> QED
    BY <1>2, <2>1, Least
<1>4. CASE n = 0
  <2> DEFINE g == [s \in Upto(0) |-> 0]
  <2>1. \A s \in Upto(0) : s = {}
    BY <1>1, FS_EmptySet
  <2>2. \A s \in Upto(0) : SumStep(g, f, s) = 0
    BY <2>1 DEF SumStep
  <2>3. Right(0, g)
    BY <2>2
  <2> QED
    BY <1>3, <1>4, <2>3
<1>5. CASE n # 0
  <2>1. n \in Nat /\ n - 1 \in Nat /\ ~(n <= n - 1)
    BY <1>3, <1>5
  <2>2. PICK g : Right(n - 1, g)
    <3>1. n - 1 \notin Bad
      BY <1>3, <2>1
    <3> QED
      BY <2>1, <3>1
  <2> DEFINE h == [s \in Upto(n) |-> SumStep(g, f, s)]
  <2>3. ASSUME NEW s \in Upto(n)
        PROVE  SumStep(g, f, s) = SumStep(h, f, s)
    <3>1. CASE s = {}
      BY <3>1 DEF SumStep
    <3>2. CASE s # {}
      <4> DEFINE t == s \ {ChosenFrom(s)}
      <4>1. Cardinality(t) = Cardinality(s) - 1
        <5>1. IsFiniteSet(s) /\ ChosenFrom(s) \in s
          BY <1>1, <2>3, <3>2, ChosenIsIn
        <5> QED
          BY <5>1, FS_RemoveElement
      <4>2. t \in Upto(n - 1) /\ t \in Upto(n)
        <5>1. /\ s \in SUBSET S /\ Cardinality(s) <= n
              /\ Cardinality(s) \in Nat
          BY <1>1, <2>3
        <5>2. t \in SUBSET S /\ Cardinality(t) <= n - 1 /\ Cardinality(t) <= n
          BY <2>1, <4>1, <5>1
        <5> QED
          BY <5>2
      <4>3. g[t] = SumStep(g, f, t)
        BY <2>2, <4>2
      <4>4. h[t] = SumStep(g, f, t)
        BY <4>2
      <4> QED
        BY <3>2, <4>3, <4>4 DEF SumStep
    <3> QED
      BY <3>1, <3>2
  <2>4. Right(n, h)
    BY <2>3
  <2> QED
    BY <1>3, <2>4
<1> QED
  BY <1>4, <1>5

\* The sum is a value of such a function.
LEMMA AddsIsSum ==
  ASSUME NEW S, IsFiniteSet(S), NEW f
  PROVE  \E g : Adds(g, f, S) /\ SumFunctionOnSet(f, S) = g[S]
BY AddsExists, SumUnfolds

\* The function for a set gives the sums of its subsets too.
LEMMA AddsIsSumOfSubsets ==
  ASSUME NEW S, IsFiniteSet(S), NEW f, NEW g, Adds(g, f, S), NEW T \in SUBSET S
  PROVE  g[T] = SumFunctionOnSet(f, T)
<1>1. IsFiniteSet(T)
  BY FS_Subset
<1>2. PICK h : Adds(h, f, T) /\ SumFunctionOnSet(f, T) = h[T]
  BY <1>1, AddsIsSum
<1> DEFINE Wrong == {s \in SUBSET T : g[s] # h[s]}
<1>3. CASE Wrong = {}
  BY <1>2, <1>3
<1>4. CASE Wrong # {}
  <2>1. PICK s \in Wrong : \A x \in s : s \ {x} \notin Wrong
    BY <1>1, <1>4, SmallestWrong
  <2>2. g[s] = SumStep(g, f, s)
    BY <2>1 DEF Adds
  <2>3. h[s] = SumStep(h, f, s)
    BY <1>2, <2>1 DEF Adds
  <2>4. s # {} => /\ s \ {ChosenFrom(s)} \in SUBSET T
                  /\ s \ {ChosenFrom(s)} \notin Wrong
    BY <2>1, ChosenIsIn
  <2> QED
    BY <2>1, <2>2, <2>3, <2>4 DEF SumStep
<1> QED
  BY <1>3, <1>4

\* So the sum satisfies the recursion.
LEMMA SumRecursion ==
  ASSUME NEW S, IsFiniteSet(S), NEW f
  PROVE  SumFunctionOnSet(f, S) =
           IF S = {} THEN 0
           ELSE f[ChosenFrom(S)] + SumFunctionOnSet(f, S \ {ChosenFrom(S)})
<1>1. PICK g : Adds(g, f, S) /\ SumFunctionOnSet(f, S) = g[S]
  BY AddsIsSum
<1>2. g[S] = SumStep(g, f, S)
  BY <1>1 DEF Adds
<1>3. S # {} => g[S \ {ChosenFrom(S)}] =
                  SumFunctionOnSet(f, S \ {ChosenFrom(S)})
  BY <1>1, AddsIsSumOfSubsets
<1> QED
  BY <1>1, <1>2, <1>3 DEF SumStep

\* A sum of naturals is one.
LEMMA SumType ==
  ASSUME NEW S, IsFiniteSet(S), NEW f, \A x \in S : f[x] \in Nat
  PROVE  SumFunctionOnSet(f, S) \in Nat
<1> DEFINE Wrong == {s \in SUBSET S : SumFunctionOnSet(f, s) \notin Nat}
<1>1. CASE Wrong = {}
  BY <1>1
<1>2. CASE Wrong # {}
  <2>1. PICK s \in Wrong : \A x \in s : s \ {x} \notin Wrong
    BY <1>2, SmallestWrong
  <2>2. IsFiniteSet(s)
    BY <2>1, FS_Subset
  <2>3. s # {} => /\ ChosenFrom(s) \in S
                  /\ SumFunctionOnSet(f, s \ {ChosenFrom(s)}) \in Nat
    BY <2>1, ChosenIsIn
  <2>4. CASE s = {}
    <3>1. SumFunctionOnSet(f, s) = 0
      BY <2>2, <2>4, SumRecursion
    <3> QED
      BY <2>1, <3>1
  <2>5. CASE s # {}
    <3>1. SumFunctionOnSet(f, s) =
            f[ChosenFrom(s)] + SumFunctionOnSet(f, s \ {ChosenFrom(s)})
      BY <2>2, <2>5, SumRecursion
    <3>2. f[ChosenFrom(s)] \in Nat
      BY <2>3, <2>5
    <3> QED
      BY <2>1, <2>3, <2>5, <3>1, <3>2
  <2> QED
    BY <2>4, <2>5
<1> QED
  BY <1>1, <1>2

\* Nothing sums up to zero.
LEMMA SumEmpty ==
  ASSUME NEW f
  PROVE  SumFunctionOnSet(f, {}) = 0
BY SumRecursion, FS_EmptySet

\* Whichever element is taken out, what is left sums up to so much less.
LEMMA SumRemove ==
  ASSUME NEW S, IsFiniteSet(S), NEW f, \A x \in S : f[x] \in Nat, NEW e \in S
  PROVE  SumFunctionOnSet(f, S) = f[e] + SumFunctionOnSet(f, S \ {e})
<1> DEFINE Sum(s) == SumFunctionOnSet(f, s)
           Wrong == {s \in SUBSET S :
                       \E x \in s : Sum(s) # f[x] + Sum(s \ {x})}
<1>1. CASE Wrong = {}
  BY <1>1
<1>2. CASE Wrong # {}
  <2>1. PICK s \in Wrong : \A x \in s : s \ {x} \notin Wrong
    BY <1>2, SmallestWrong
  <2>2. s \in SUBSET S
    BY <2>1
  <2>3. PICK x \in s : Sum(s) # f[x] + Sum(s \ {x})
    BY <2>1
  <2>4. PICK c : c = ChosenFrom(s)
    OBVIOUS
  <2>5. \A t \in SUBSET S : IsFiniteSet(t) /\ Sum(t) \in Nat
    BY FS_Subset, SumType
  <2>6. c \in s /\ Sum(s) = f[c] + Sum(s \ {c})
    BY <2>2, <2>3, <2>4, <2>5, ChosenIsIn, SumRecursion
  <2>7. c # x
    BY <2>3, <2>6
  <2>8. x \in s \ {c} /\ c \in s \ {x}
    BY <2>3, <2>6, <2>7
  <2>9. s \ {c} \in SUBSET S /\ s \ {x} \in SUBSET S
    BY <2>2
  <2>10. Sum(s \ {c}) = f[x] + Sum((s \ {c}) \ {x})
    BY <2>1, <2>6, <2>8, <2>9
  <2>11. Sum(s \ {x}) = f[c] + Sum((s \ {x}) \ {c})
    BY <2>1, <2>3, <2>8, <2>9
  <2>12. (s \ {c}) \ {x} = (s \ {x}) \ {c}
    OBVIOUS
  <2>13. /\ f[c] \in Nat /\ f[x] \in Nat
         /\ Sum((s \ {c}) \ {x}) \in Nat
    BY <2>2, <2>3, <2>5, <2>6
  <2> QED
    BY SMTT(20), <2>3, <2>6, <2>10, <2>11, <2>12, <2>13
<1> QED
  BY <1>1, <1>2

\* A new element adds its value.
LEMMA SumAdd ==
  ASSUME NEW S, IsFiniteSet(S), NEW f, NEW e, e \notin S,
         \A x \in S \cup {e} : f[x] \in Nat
  PROVE  SumFunctionOnSet(f, S \cup {e}) = f[e] + SumFunctionOnSet(f, S)
<1>1. IsFiniteSet(S \cup {e}) /\ (S \cup {e}) \ {e} = S
  BY FS_AddElement
<1> QED
  BY <1>1, SumRemove

\* Only what the function gives for the elements counts.
LEMMA SumSame ==
  ASSUME NEW S, IsFiniteSet(S), NEW f, NEW g, \A x \in S : f[x] = g[x]
  PROVE  SumFunctionOnSet(f, S) = SumFunctionOnSet(g, S)
<1> DEFINE Wrong == {s \in SUBSET S :
                       SumFunctionOnSet(f, s) # SumFunctionOnSet(g, s)}
<1>1. CASE Wrong = {}
  BY <1>1
<1>2. CASE Wrong # {}
  <2>1. PICK s \in Wrong : \A x \in s : s \ {x} \notin Wrong
    BY <1>2, SmallestWrong
  <2>2. IsFiniteSet(s) /\ s \in SUBSET S
    BY <2>1, FS_Subset
  <2>3. SumFunctionOnSet(f, s) # SumFunctionOnSet(g, s)
    BY <2>1
  <2>4. CASE s = {}
    <3>1. SumFunctionOnSet(f, s) = 0 /\ SumFunctionOnSet(g, s) = 0
      BY <2>4, SumEmpty
    <3> QED
      BY <2>3, <3>1
  <2>5. CASE s # {}
    <3>1. PICK c : c = ChosenFrom(s)
      OBVIOUS
    <3>2. c \in s /\ f[c] = g[c]
      BY <2>2, <2>5, <3>1, ChosenIsIn
    <3>3. s \ {c} \in SUBSET S /\ s \ {c} \notin Wrong
      BY <2>1, <2>2, <3>2
    <3>4. SumFunctionOnSet(f, s \ {c}) = SumFunctionOnSet(g, s \ {c})
      BY <3>3
    <3>5. SumFunctionOnSet(f, s) = f[c] + SumFunctionOnSet(f, s \ {c})
      BY <2>2, <2>5, <3>1, SumRecursion
    <3>6. SumFunctionOnSet(g, s) = g[c] + SumFunctionOnSet(g, s \ {c})
      BY <2>2, <2>5, <3>1, SumRecursion
    <3> QED
      BY <2>3, <3>2, <3>4, <3>5, <3>6
  <2> QED
    BY <2>4, <2>5
<1> QED
  BY <1>1, <1>2


\* Larger terms, larger sum.
LEMMA SumMonotone ==
  ASSUME NEW S, NEW f, NEW g, IsFiniteSet(S),
         \A x \in S : f[x] \in Nat /\ g[x] \in Nat /\ f[x] <= g[x]
  PROVE  SumFunctionOnSet(f, S) <= SumFunctionOnSet(g, S)
<1> DEFINE Wrong == {s \in SUBSET S :
                       ~(SumFunctionOnSet(f, s) <= SumFunctionOnSet(g, s))}
<1>1. CASE Wrong = {}
  BY <1>1
<1>2. CASE Wrong # {}
  <2>1. PICK s \in Wrong : \A x \in s : s \ {x} \notin Wrong
    BY <1>2, SmallestWrong
  <2>2. IsFiniteSet(s) /\ s \in SUBSET S
    BY <2>1, FS_Subset
  <2>3. CASE s = {}
    BY <2>1, <2>3, SumEmpty
  <2>4. CASE s # {}
    <3>1. PICK c : c = ChosenFrom(s)
      OBVIOUS
    <3>2. c \in s /\ s \ {c} \in SUBSET S /\ IsFiniteSet(s \ {c})
      BY <2>2, <2>4, <3>1, ChosenIsIn, FS_RemoveElement
    <3>3. SumFunctionOnSet(f, s \ {c}) <= SumFunctionOnSet(g, s \ {c})
      BY <2>1, <3>2
    <3>4. /\ SumFunctionOnSet(f, s \ {c}) \in Nat
          /\ SumFunctionOnSet(g, s \ {c}) \in Nat
      BY <3>2, SumType
    <3>5. /\ SumFunctionOnSet(f, s) = f[c] + SumFunctionOnSet(f, s \ {c})
          /\ SumFunctionOnSet(g, s) = g[c] + SumFunctionOnSet(g, s \ {c})
      BY <2>2, <2>4, <3>1, SumRecursion
    <3>6. f[c] \in Nat /\ g[c] \in Nat /\ f[c] <= g[c]
      BY <2>2, <3>2
    <3>7. SumFunctionOnSet(f, s) <= SumFunctionOnSet(g, s)
      BY <3>3, <3>4, <3>5, <3>6
    <3> QED
      BY <2>1, <3>7
  <2> QED
    BY <2>3, <2>4
<1> QED
  BY <1>1, <1>2

\* Nothing but zeros sums up to zero.
LEMMA SumZero ==
  ASSUME NEW S, NEW f, IsFiniteSet(S), \A x \in S : f[x] = 0
  PROVE  SumFunctionOnSet(f, S) = 0
<1> DEFINE Wrong == {s \in SUBSET S : SumFunctionOnSet(f, s) # 0}
<1>1. CASE Wrong = {}
  BY <1>1
<1>2. CASE Wrong # {}
  <2>1. PICK s \in Wrong : \A x \in s : s \ {x} \notin Wrong
    BY <1>2, SmallestWrong
  <2>2. IsFiniteSet(s) /\ s \in SUBSET S
    BY <2>1, FS_Subset
  <2>3. s # {} => /\ f[ChosenFrom(s)] = 0
                  /\ SumFunctionOnSet(f, s \ {ChosenFrom(s)}) = 0
    BY <2>1, <2>2, ChosenIsIn
  <2>4. s = {} => SumFunctionOnSet(f, s) = 0
    BY SumEmpty
  <2>5. s # {} => SumFunctionOnSet(f, s) =
                    f[ChosenFrom(s)]
                      + SumFunctionOnSet(f, s \ {ChosenFrom(s)})
    BY <2>2, SumRecursion
  <2>6. SumFunctionOnSet(f, s) = 0
    BY <2>3, <2>4, <2>5
  <2> QED
    BY <2>1, <2>6
<1> QED
  BY <1>1, <1>2

\* One term changes.
LEMMA SumBump ==
  ASSUME NEW S, NEW f, NEW g, NEW e \in S, IsFiniteSet(S),
         \A x \in S : f[x] \in Nat /\ g[x] \in Nat,
         \A x \in S \ {e} : f[x] = g[x]
  PROVE  SumFunctionOnSet(g, S) = (SumFunctionOnSet(f, S) - f[e]) + g[e]
<1>1. /\ SumFunctionOnSet(f, S) = f[e] + SumFunctionOnSet(f, S \ {e})
      /\ SumFunctionOnSet(g, S) = g[e] + SumFunctionOnSet(g, S \ {e})
  BY SumRemove
<1>2. IsFiniteSet(S \ {e})
  BY FS_RemoveElement
<1>3. SumFunctionOnSet(f, S \ {e}) = SumFunctionOnSet(g, S \ {e})
  BY <1>2, SumSame
<1>4. SumFunctionOnSet(f, S \ {e}) \in Nat /\ f[e] \in Nat /\ g[e] \in Nat
  BY <1>2, SumType
<1> QED
  BY <1>1, <1>3, <1>4

\* Terms up to k add up to k each at most.
LEMMA SumBounded ==
  ASSUME NEW S, NEW f, NEW k \in Nat, IsFiniteSet(S), \A x \in S : f[x] \in 0 .. k
  PROVE  SumFunctionOnSet(f, S) <= Cardinality(S) * k
<1> DEFINE Sum(s) == SumFunctionOnSet(f, s)
           Wrong == {s \in SUBSET S : ~(Sum(s) <= Cardinality(s) * k)}
<1>1. CASE Wrong = {}
  BY <1>1
<1>2. CASE Wrong # {}
  <2>1. PICK s \in Wrong : \A x \in s : s \ {x} \notin Wrong
    BY <1>2, SmallestWrong
  <2>2. IsFiniteSet(s) /\ s \in SUBSET S
    BY <2>1, FS_Subset
  <2>3. CASE s = {}
    <3>1. Sum(s) = 0 /\ Cardinality(s) = 0
      BY <2>2, <2>3, SumEmpty, FS_EmptySet
    <3> QED
      BY <2>1, <3>1
  <2>4. CASE s # {}
    <3>1. PICK c \in s : TRUE
      BY <2>4
    <3>2. s \ {c} \in SUBSET S /\ IsFiniteSet(s \ {c})
      BY <2>2, FS_Subset
    <3>3. PICK n \in Nat : n = Cardinality(s \ {c})
      BY <3>2, FS_CardinalityType
    <3>4. Cardinality(s) = n + 1
      <4>1. Cardinality(s \ {c}) = Cardinality(s) - 1 /\ Cardinality(s) \in Nat
        BY <2>2, <3>1, FS_RemoveElement, FS_CardinalityType
      <4> QED
        BY <3>3, <4>1
    <3>5. Sum(s) = f[c] + Sum(s \ {c})
      BY <2>2, <3>1, SumRemove
    <3>6. Sum(s \ {c}) <= n * k
      BY <2>1, <3>1, <3>2, <3>3
    <3>7. f[c] \in 0 .. k /\ Sum(s \ {c}) \in Nat
      BY <2>2, <3>1, <3>2, SumType
    <3>8. n * k \in Nat /\ (n + 1) * k = n * k + k
      BY <3>3
    <3> QED
      BY <2>1, <3>4, <3>5, <3>6, <3>7, <3>8
  <2> QED
    BY <2>3, <2>4
<1> QED
  BY <1>1, <1>2

\* Of all terms but one, likewise.
LEMMA SumButOne ==
  ASSUME NEW S, NEW f, NEW k \in Nat, NEW e \in S, IsFiniteSet(S),
         \A x \in S : f[x] \in 0 .. k
  PROVE  SumFunctionOnSet(f, S) <= f[e] + (Cardinality(S) - 1) * k
<1>1. IsFiniteSet(S \ {e}) /\ Cardinality(S \ {e}) = Cardinality(S) - 1
  BY FS_RemoveElement
<1>2. SumFunctionOnSet(f, S \ {e}) <= Cardinality(S \ {e}) * k
  BY <1>1, SumBounded
<1>3. SumFunctionOnSet(f, S) = f[e] + SumFunctionOnSet(f, S \ {e})
  BY SumRemove
<1>4. SumFunctionOnSet(f, S \ {e}) \in Nat /\ f[e] \in Nat
  BY <1>1, SumType
<1>5. Cardinality(S \ {e}) \in Nat
  BY <1>1, FS_CardinalityType
<1>6. PICK m \in Nat : m = Cardinality(S \ {e}) * k
  BY <1>5
<1>7. (Cardinality(S) - 1) * k = m
  BY <1>1, <1>6
<1> QED
  BY <1>2, <1>3, <1>4, <1>6, <1>7

=============================================================================
