------------------------------ MODULE Induction ------------------------------
(***************************************************************************)
(* Induction over the natural numbers, stated about sets instead of about  *)
(* predicates, and what follows for the least and the greatest element of  *)
(* a set of numbers.  Everything is derived from the well-foundedness of   *)
(* the strict subset relation on finite sets.  The last part says what the *)
(* elements are that Only of Lists takes from a sequence.                  *)
(***************************************************************************)
EXTENDS Integers, Lists, FiniteSets, FiniteSetsExt, FiniteSetTheorems, WellFoundedInduction, TLAPS

\* A set of numbers that is not empty has a least element: of the intervals
\* from 0 up to its elements one is included in no other.
LEMMA LeastNumber ==
    ASSUME NEW T, T \subseteq Nat, T # {}
    PROVE  \E x \in T : \A y \in T : x <= y
<1> DEFINE R == StrictSubsetOrdering(Nat)
           S == FiniteSubsetsOf(Nat)
           F == {0 .. n : n \in T}
<1>1. IsWellFoundedOn(R, S)
  BY FS_StrictSubsetOrderingWellFounded
<1>2. F \subseteq S
  <2> SUFFICES ASSUME NEW n \in T PROVE 0 .. n \in S
    OBVIOUS
  <2>1. n \in Nat
    OBVIOUS
  <2>2. 0 .. n \in SUBSET Nat
    OBVIOUS
  <2>3. IsFiniteSet(0 .. n)
    BY <2>1, FS_Interval
  <2>4. QED
    BY <2>2, <2>3 DEF FiniteSubsetsOf
<1>3. F # {}
  OBVIOUS
<1>4. \E x \in F : \A y \in F : ~ (<<y, x>> \in R)
  <2> HIDE DEF R, S, F
  <2>1. QED
    BY <1>1, <1>2, <1>3, WFMin
<1>5. PICK n \in T : \A y \in F : ~ (<<y, 0 .. n>> \in R)
  BY <1>4
<1>6. \A y \in T : n <= y
  <2> SUFFICES ASSUME NEW y \in T, y < n PROVE FALSE
    OBVIOUS
  <2>1. 0 .. y \subseteq 0 .. n /\ 0 .. y # 0 .. n
    OBVIOUS
  <2>2. 0 .. y \in SUBSET Nat /\ 0 .. n \in SUBSET Nat
    OBVIOUS
  <2>3. <<0 .. y, 0 .. n>> \in R
    BY <2>1, <2>2 DEF StrictSubsetOrdering
  <2>4. QED
    BY <2>3, <1>5
<1>7. QED
  BY <1>6

\* Induction: a set that has 0 and the successor of each of its elements.
LEMMA NaturalInduction ==
    ASSUME NEW S, 0 \in S, \A n \in Nat : n \in S => n + 1 \in S
    PROVE  \A n \in Nat : n \in S
<1> DEFINE T == {n \in Nat : n \notin S}
<1> SUFFICES ASSUME T # {} PROVE FALSE
  OBVIOUS
<1>1. PICK x \in T : \A y \in T : x <= y
  <2>1. T \subseteq Nat
    OBVIOUS
  <2> HIDE DEF T
  <2>2. QED
    BY <2>1, LeastNumber
<1>2. x # 0 /\ x - 1 \in Nat /\ x - 1 \notin T
  BY <1>1
<1>3. QED
  BY <1>2

\* Induction downwards, over the numbers from a to b.
LEMMA DownwardInduction ==
    ASSUME NEW a \in Int, NEW b \in Int, NEW S,
           b \in S, \A n \in a + 1 .. b : n \in S => n - 1 \in S
    PROVE  \A n \in a .. b : n \in S
<1> DEFINE T == {k \in Nat : b - k >= a => b - k \in S}
<1>1. 0 \in T
  OBVIOUS
<1>2. \A k \in Nat : k \in T => k + 1 \in T
  <2> SUFFICES ASSUME NEW k \in Nat, k \in T, b - (k + 1) >= a
               PROVE  b - (k + 1) \in S
    OBVIOUS
  <2>1. b - k \in a + 1 .. b /\ b - k \in S
    OBVIOUS
  <2>2. (b - k) - 1 \in S
    BY <2>1
  <2>3. QED
    BY <2>2
<1>3. \A k \in Nat : k \in T
  <2> HIDE DEF T
  <2>1. QED
    BY <1>1, <1>2, NaturalInduction
<1>4. SUFFICES ASSUME NEW n \in a .. b PROVE n \in S
  OBVIOUS
<1>5. PICK k \in Nat : b - k = n
  <2>1. b - n \in Nat /\ b - (b - n) = n
    OBVIOUS
  <2>2. QED
    BY <2>1
<1>6. k \in T
  BY <1>3
<1>7. QED
  BY <1>5, <1>6

\* The same when the step may use everything above.
LEMMA StrongDownwardInduction ==
    ASSUME NEW a \in Int, NEW b \in Int, NEW S,
           \A n \in a .. b : (\A m \in n + 1 .. b : m \in S) => n \in S
    PROVE  \A n \in a .. b : n \in S
<1> DEFINE T == {n \in Int : \A m \in n + 1 .. b : m >= a => m \in S}
<1>1. b \in T
  OBVIOUS
<1>2. \A n \in (a - 1) + 1 .. b : n \in T => n - 1 \in T
  <2> SUFFICES ASSUME NEW n \in a .. b, n \in T,
                      NEW m \in (n - 1) + 1 .. b, m >= a
               PROVE  m \in S
    OBVIOUS
  <2>1. CASE m = n
    <3>1. \A k \in n + 1 .. b : k \in S
      OBVIOUS
    <3>2. QED
      BY <2>1, <3>1
  <2>2. CASE m # n
    BY <2>2
  <2>3. QED
    BY <2>1, <2>2
<1>3. \A n \in a - 1 .. b : n \in T
  <2> HIDE DEF T
  <2>1. a - 1 \in Int
    OBVIOUS
  <2>2. QED
    BY <1>1, <1>2, <2>1, DownwardInduction
<1>4. SUFFICES ASSUME NEW n \in a .. b PROVE n \in S
  OBVIOUS
<1>5. a - 1 \in T
  BY <1>3
<1>6. QED
  BY <1>5

\* Min of FiniteSetsExt is the least element.
LEMMA MinIsLeast ==
    ASSUME NEW T, T \subseteq Nat, T # {}
    PROVE  Min(T) \in T /\ \A y \in T : Min(T) <= y
  BY LeastNumber DEF Min

\* Max of FiniteSetsExt is the greatest element of a set with a bound.
LEMMA MaxIsGreatest ==
    ASSUME NEW T, T \subseteq Nat, T # {}, NEW b \in Nat, \A y \in T : y <= b
    PROVE  Max(T) \in T /\ \A y \in T : y <= Max(T)
<1> DEFINE U == {b - y : y \in T}
<1>1. U \subseteq Nat
  <2> SUFFICES ASSUME NEW y \in T PROVE b - y \in Nat
    OBVIOUS
  <2>1. y \in Nat /\ y <= b
    OBVIOUS
  <2>2. QED
    BY <2>1
<1>2. U # {}
  OBVIOUS
<1>3. PICK u \in U : \A v \in U : u <= v
  <2> HIDE DEF U
  <2>1. QED
    BY <1>1, <1>2, LeastNumber
<1>4. PICK x \in T : u = b - x
  OBVIOUS
<1>5. \A y \in T : x >= y
  <2> SUFFICES ASSUME NEW y \in T PROVE x >= y
    OBVIOUS
  <2>1. b - x <= b - y
    BY <1>3, <1>4
  <2>2. x \in Nat /\ y \in Nat
    OBVIOUS
  <2>3. QED
    BY <2>1, <2>2
<1>6. QED
  BY <1>5 DEF Max

-----------------------------------------------------------------------------
(* What Only picks *)

IsPick(f, s, S) ==
    f = [n \in 0 .. Len(s) |->
           IF n = 0 THEN <<>>
           ELSE IF s[n] \in S THEN Append(f[n - 1], s[n]) ELSE f[n - 1]]

\* There is a function as the recursion of Only describes it.
LEMMA PickExists ==
    ASSUME NEW A, NEW s \in Seq(A), NEW S
    PROVE  \E f : IsPick(f, s, S)
<1> DEFINE Part(f, m) ==
             f = [n \in 0 .. m |->
                    IF n = 0 THEN <<>>
                    ELSE IF s[n] \in S THEN Append(f[n - 1], s[n]) ELSE f[n - 1]]
           D == {d \in Nat : \E f : Part(f, d)}
<1>1. 0 \in D
  <2> DEFINE g == [n \in 0 .. 0 |-> <<>>]
  <2>1. Part(g, 0)
    OBVIOUS
  <2> HIDE DEF Part, g
  <2> QED
    BY <2>1
<1>2. ASSUME NEW d \in Nat, d \in D PROVE d + 1 \in D
  <2>1. PICK f : Part(f, d)
    BY <1>2
  <2> DEFINE v == IF s[d + 1] \in S THEN Append(f[d], s[d + 1]) ELSE f[d]
             g == [n \in 0 .. d + 1 |-> IF n = d + 1 THEN v ELSE f[n]]
  <2>2. \A n \in 0 .. d + 1 :
            g[n] = IF n = 0 THEN <<>>
                   ELSE IF s[n] \in S THEN Append(g[n - 1], s[n]) ELSE g[n - 1]
    <3> SUFFICES ASSUME NEW n \in 0 .. d + 1
                 PROVE  g[n] = IF n = 0 THEN <<>>
                               ELSE IF s[n] \in S THEN Append(g[n - 1], s[n])
                               ELSE g[n - 1]
      OBVIOUS
    <3>1. CASE n = d + 1
      <4>1. g[n] = v /\ g[n - 1] = f[d] /\ n # 0
        BY <3>1
      <4> HIDE DEF g
      <4> QED
        BY <4>1, <3>1
    <3>2. CASE n # d + 1
      <4>1. n \in 0 .. d /\ g[n] = f[n] /\ (n # 0 => g[n - 1] = f[n - 1])
        BY <3>2
      <4>2. f[n] = IF n = 0 THEN <<>>
                   ELSE IF s[n] \in S THEN Append(f[n - 1], s[n]) ELSE f[n - 1]
        BY <2>1, <4>1
      <4> HIDE DEF g
      <4> QED
        BY <4>1, <4>2
    <3> QED
      BY <3>1, <3>2
  <2>3. Part(g, d + 1)
    BY <2>2
  <2> HIDE DEF Part, g
  <2> QED
    BY <2>3
<1> HIDE DEF D
<1>3. \A d \in Nat : d \in D
  BY <1>1, <1>2, NaturalInduction
<1>4. Len(s) \in D
  BY <1>3
<1> QED
  BY <1>4 DEF D, IsPick

\* Only is the last value of that function.
LEMMA OnlyIsPick ==
    ASSUME NEW A, NEW s \in Seq(A), NEW S
    PROVE  \E f : /\ Only(s, S) = f[Len(s)]
                  /\ f[0] = <<>>
                  /\ \A n \in 1 .. Len(s) :
                       f[n] = IF s[n] \in S THEN Append(f[n - 1], s[n]) ELSE f[n - 1]
<1> DEFINE F == CHOOSE f : IsPick(f, s, S)
<1>1. IsPick(F, s, S)
  BY PickExists
<1>2. Only(s, S) = F[Len(s)]
  BY DEF Only, IsPick
<1> HIDE DEF F
<1>3. F[0] = <<>>
  BY <1>1 DEF IsPick
<1>4. ASSUME NEW n \in 1 .. Len(s)
      PROVE  F[n] = IF s[n] \in S THEN Append(F[n - 1], s[n]) ELSE F[n - 1]
  <2>1. n \in 0 .. Len(s) /\ n # 0
    OBVIOUS
  <2> QED
    BY <1>1, <2>1 DEF IsPick
<1> QED
  BY <1>2, <1>3, <1>4

\* Each element is picked from a position of its own, in order, and nothing
\* that is in S is passed over.
Picks(h, p, s, S) ==
    /\ h \in [DOMAIN p -> DOMAIN s]
    /\ \A k \in DOMAIN p : p[k] = s[h[k]] /\ p[k] \in S
    /\ \A k, l \in DOMAIN p : k < l => h[k] < h[l]
    /\ \A i \in DOMAIN s : s[i] \in S => \E k \in DOMAIN p : h[k] = i

\* What Only yields is picked from its argument.
LEMMA OnlyPicks ==
    ASSUME NEW A, NEW s \in Seq(A), NEW S
    PROVE  /\ Only(s, S) \in Seq(A)
           /\ \E h : Picks(h, Only(s, S), s, S)
<1>1. PICK f : /\ Only(s, S) = f[Len(s)]
               /\ f[0] = <<>>
               /\ \A n \in 1 .. Len(s) :
                    f[n] = IF s[n] \in S THEN Append(f[n - 1], s[n]) ELSE f[n - 1]
  BY OnlyIsPick
<1> DEFINE Map(h, n) ==
             /\ f[n] \in Seq(A)
             /\ h \in [DOMAIN f[n] -> 1 .. n]
             /\ \A k \in DOMAIN f[n] : f[n][k] = s[h[k]] /\ f[n][k] \in S
             /\ \A k, l \in DOMAIN f[n] : k < l => h[k] < h[l]
             /\ \A i \in 1 .. n : s[i] \in S => \E k \in DOMAIN f[n] : h[k] = i
           D == {n \in Nat : n <= Len(s) => \E h : Map(h, n)}
<1>2. 0 \in D
  <2>1. f[0] = <<>> /\ DOMAIN f[0] = {}
    BY <1>1
  <2> DEFINE g == [k \in {} |-> 0]
  <2>2. Map(g, 0)
    BY <2>1
  <2> HIDE DEF Map, g
  <2> QED
    BY <2>2
<1>3. ASSUME NEW n \in Nat, n \in D PROVE n + 1 \in D
  <2> SUFFICES ASSUME n + 1 <= Len(s) PROVE \E h : Map(h, n + 1)
    OBVIOUS
  <2>1. PICK h : Map(h, n)
    BY <1>3
  <2>2. f[n + 1] = IF s[n + 1] \in S THEN Append(f[n], s[n + 1]) ELSE f[n]
    <3>1. n + 1 \in 1 .. Len(s) /\ n + 1 - 1 = n
      OBVIOUS
    <3> QED
      BY <1>1, <3>1
  <2>3. s[n + 1] \in A
    OBVIOUS
  <2>4. CASE s[n + 1] \notin S
    <3>1. f[n + 1] = f[n]
      BY <2>2, <2>4
    <3>2. Map(h, n + 1)
      BY <2>1, <3>1, <2>4
    <3> QED
      BY <3>2
  <2>5. CASE s[n + 1] \in S
    <3> DEFINE m == Len(f[n])
               g == [k \in 1 .. m + 1 |-> IF k = m + 1 THEN n + 1 ELSE h[k]]
    <3>1. /\ f[n + 1] = Append(f[n], s[n + 1]) /\ f[n] \in Seq(A) /\ m \in Nat
          /\ DOMAIN f[n] = 1 .. m /\ DOMAIN f[n + 1] = 1 .. m + 1
          /\ f[n + 1] \in Seq(A)
      BY <2>1, <2>2, <2>3, <2>5
    <3>2. /\ f[n + 1][m + 1] = s[n + 1]
          /\ \A k \in 1 .. m : f[n + 1][k] = f[n][k]
      BY <3>1, <2>3
    <3>3. /\ h \in [1 .. m -> 1 .. n]
          /\ \A k \in 1 .. m : f[n][k] = s[h[k]] /\ f[n][k] \in S
          /\ \A k, l \in 1 .. m : k < l => h[k] < h[l]
          /\ \A i \in 1 .. n : s[i] \in S => \E k \in 1 .. m : h[k] = i
      BY <2>1, <3>1
    <3> HIDE DEF m
    <3>4. /\ g[m + 1] = n + 1 /\ \A k \in 1 .. m : g[k] = h[k]
          /\ g \in [1 .. m + 1 -> 1 .. n + 1]
      BY <3>1, <3>3
    <3> HIDE DEF g
    <3>5. \A k \in 1 .. m + 1 : f[n + 1][k] = s[g[k]] /\ f[n + 1][k] \in S
      BY <3>1, <3>2, <3>3, <3>4, <2>5
    <3>6. \A k, l \in 1 .. m + 1 : k < l => g[k] < g[l]
      BY <3>1, <3>3, <3>4
    <3>7. \A i \in 1 .. n + 1 : s[i] \in S => \E k \in 1 .. m + 1 : g[k] = i
      <4> SUFFICES ASSUME NEW i \in 1 .. n + 1, s[i] \in S
                   PROVE  \E k \in 1 .. m + 1 : g[k] = i
        OBVIOUS
      <4>1. CASE i = n + 1
        <5>1. m + 1 \in 1 .. m + 1 /\ g[m + 1] = i
          BY <3>1, <3>4, <4>1
        <5> QED
          BY <5>1
      <4>2. CASE i # n + 1
        <5>1. i \in 1 .. n
          BY <4>2
        <5>2. PICK k \in 1 .. m : h[k] = i
          BY <3>3, <5>1
        <5>3. k \in 1 .. m + 1 /\ g[k] = i
          BY <3>1, <3>4, <5>2
        <5> QED
          BY <5>3
      <4> QED
        BY <4>1, <4>2
    <3>8. Map(g, n + 1)
      BY <3>1, <3>4, <3>5, <3>6, <3>7
    <3> QED
      BY <3>8
  <2> QED
    BY <2>4, <2>5
<1> HIDE DEF D
<1>4. Len(s) \in D
  BY <1>2, <1>3, NaturalInduction
<1>5. PICK h : Map(h, Len(s))
  BY <1>4 DEF D
<1>6. DOMAIN s = 1 .. Len(s)
  OBVIOUS
<1>7. Only(s, S) \in Seq(A)
  BY <1>1, <1>5
<1>8. Picks(h, Only(s, S), s, S)
  BY <1>1, <1>5, <1>6 DEF Picks
<1> QED
  BY <1>7, <1>8
=============================================================================
