----------------------------- MODULE SumsProofs -----------------------------
(***************************************************************************)
(* What a sum computes, for lists of any length.  A recursive function is  *)
(* by definition some function that satisfies its equation: the proofs     *)
(* show that there is one and that no two differ.                          *)
(***************************************************************************)
EXTENDS Sums, Integers, WellFoundedInduction, TLAPS

\* Induction: a set with 0 that has the successor of each of its numbers has all
\* the numbers.
LEMMA Induction ==
    ASSUME NEW S, 0 \in S, \A n \in Nat : n \in S => n + 1 \in S
    PROVE  \A n \in Nat : n \in S
<1> DEFINE Missing == {n \in Nat : n \notin S}
           Smaller == {ij \in Nat \X Nat : ij[1] < ij[2]}
<1>1. IsWellFoundedOn(Smaller, Nat)
    BY NatLessThanWellFounded DEF OpToRel
<1> SUFFICES ASSUME Missing # {} PROVE FALSE
    OBVIOUS
<1>2. PICK n \in Missing : \A m \in Missing : <<m, n>> \notin Smaller
  <2>1. Missing \subseteq Nat
      OBVIOUS
  <2> HIDE DEF Missing, Smaller
  <2> QED
      BY <1>1, <2>1, WFMin
<1>3. n \in Nat /\ n # 0 /\ n - 1 \in Nat /\ (n - 1) + 1 = n
    OBVIOUS
<1>4. n - 1 \in S
  <2>1. <<n - 1, n>> \in Smaller
      BY <1>3
  <2>2. n - 1 \notin Missing
      BY <1>2, <2>1
  <2> QED
      BY <1>3, <2>2
<1> QED
    BY <1>3, <1>4

-----------------------------------------------------------------------------

\* f adds up the first n of w.
IsSum(f, w, n) == f = [i \in 0 .. n |-> IF i = 0 THEN 0 ELSE f[i - 1] + w[i]]

\* Every list has partial sums.
LEMMA SumExists ==
    ASSUME NEW w, NEW n \in Nat
    PROVE  \E f : IsSum(f, w, n)
<1> DEFINE S == {k \in Nat : \E f : IsSum(f, w, k)}
<1>1. 0 \in S
  <2> DEFINE f == [i \in 0 .. 0 |-> 0]
  <2>1. IsSum(f, w, 0)
      BY DEF IsSum
  <2> QED
      BY <2>1
<1>2. ASSUME NEW k \in Nat, k \in S PROVE k + 1 \in S
  <2>1. PICK f : IsSum(f, w, k)
      BY <1>2
  <2> DEFINE g == [i \in 0 .. k + 1 |-> IF i = k + 1 THEN f[k] + w[k + 1] ELSE f[i]]
  <2>2. ASSUME NEW i \in 0 .. k + 1
        PROVE  g[i] = IF i = 0 THEN 0 ELSE g[i - 1] + w[i]
    <3>1. CASE i = k + 1
        BY <3>1
    <3>2. CASE i # k + 1
      <4>1. i \in 0 .. k /\ g[i] = f[i] /\ (i # 0 => g[i - 1] = f[i - 1])
          BY <3>2
      <4>2. f[i] = IF i = 0 THEN 0 ELSE f[i - 1] + w[i]
          BY <2>1, <4>1 DEF IsSum
      <4> QED
          BY <4>1, <4>2
    <3> QED
        BY <3>1, <3>2
  <2>3. IsSum(g, w, k + 1)
      BY <2>2 DEF IsSum
  <2> QED
      BY <2>3
<1> HIDE DEF S
<1>3. n \in S
    BY <1>1, <1>2, Induction
<1> QED
    BY <1>3 DEF S

\* Partial sums agree, however many elements each of them covers.
LEMMA SumUnique ==
    ASSUME NEW w, NEW m \in Nat, NEW n \in Nat, m <= n,
           NEW f, NEW g, IsSum(f, w, m), IsSum(g, w, n)
    PROVE  \A i \in 0 .. m : f[i] = g[i]
<1> DEFINE S == {i \in Nat : i <= m => f[i] = g[i]}
<1>1. 0 \in S
    BY DEF IsSum
<1>2. ASSUME NEW i \in Nat, i \in S PROVE i + 1 \in S
  <2> SUFFICES ASSUME i + 1 <= m PROVE f[i + 1] = g[i + 1]
      BY <1>2
  <2>1. f[i] = g[i] /\ i + 1 \in 0 .. m /\ i + 1 \in 0 .. n /\ i + 1 # 0 /\ (i + 1) - 1 = i
      BY <1>2
  <2>2. f[i + 1] = f[i] + w[i + 1]
      BY <2>1 DEF IsSum
  <2>3. g[i + 1] = g[i] + w[i + 1]
      BY <2>1 DEF IsSum
  <2> QED
      BY <2>1, <2>2, <2>3
<1> HIDE DEF S
<1>3. \A i \in Nat : i \in S
    BY <1>1, <1>2, Induction
<1> QED
    BY <1>3 DEF S

\* The sum is the last of the partial sums.
LEMMA SumIsSum ==
    ASSUME NEW w, NEW n \in Nat
    PROVE  \E f : IsSum(f, w, n) /\ SumTo(w, n) = f[n]
<1> DEFINE f == CHOOSE f : f = [i \in 0 .. n |-> IF i = 0 THEN 0 ELSE f[i - 1] + w[i]]
<1>1. IsSum(f, w, n)
    BY SumExists DEF IsSum
<1>2. SumTo(w, n) = f[n]
    BY DEF SumTo
<1> QED
    BY <1>1, <1>2

\* A sum of nothing is nothing, and one more element is added to the sum so far.
LEMMA SumStep ==
    ASSUME NEW w
    PROVE  /\ SumTo(w, 0) = 0
           /\ \A n \in Nat : SumTo(w, n + 1) = SumTo(w, n) + w[n + 1]
<1>1. SumTo(w, 0) = 0
  <2>1. PICK f : IsSum(f, w, 0) /\ SumTo(w, 0) = f[0]
      BY SumIsSum
  <2> QED
      BY <2>1 DEF IsSum
<1>2. ASSUME NEW n \in Nat PROVE SumTo(w, n + 1) = SumTo(w, n) + w[n + 1]
  <2>1. PICK f : IsSum(f, w, n) /\ SumTo(w, n) = f[n]
      BY SumIsSum
  <2>2. n + 1 \in Nat /\ n <= n + 1 /\ n \in 0 .. n
      OBVIOUS
  <2>3. PICK g : IsSum(g, w, n + 1) /\ SumTo(w, n + 1) = g[n + 1]
      BY <2>2, SumIsSum
  <2>4. f[n] = g[n]
      BY <2>1, <2>2, <2>3, SumUnique
  <2>5. g[n + 1] = g[n] + w[n + 1]
    <3>1. n + 1 \in 0 .. n + 1 /\ n + 1 # 0 /\ (n + 1) - 1 = n
        OBVIOUS
    <3> QED
        BY <2>3, <3>1 DEF IsSum
  <2> QED
      BY <2>1, <2>3, <2>4, <2>5
<1> QED
    BY <1>1, <1>2

\* A sum of natural numbers is one.
THEOREM SumType ==
    ASSUME NEW w, NEW n \in Nat, \A i \in 1 .. n : w[i] \in Nat
    PROVE  SumTo(w, n) \in Nat
<1> DEFINE S == {k \in Nat : k <= n => SumTo(w, k) \in Nat}
<1>1. 0 \in S
    BY SumStep
<1>2. ASSUME NEW k \in Nat, k \in S PROVE k + 1 \in S
  <2> SUFFICES ASSUME k + 1 <= n PROVE SumTo(w, k + 1) \in Nat
      OBVIOUS
  <2>1. SumTo(w, k) \in Nat /\ w[k + 1] \in Nat
      BY <1>2
  <2>2. SumTo(w, k + 1) = SumTo(w, k) + w[k + 1]
      BY SumStep
  <2> QED
      BY <2>1, <2>2
<1> HIDE DEF S
<1>3. n \in S
    BY <1>1, <1>2, Induction
<1> QED
    BY <1>3 DEF S

\* Only the elements that are added count.
THEOREM SumAgrees ==
    ASSUME NEW v, NEW w, NEW n \in Nat, \A i \in 1 .. n : v[i] = w[i]
    PROVE  SumTo(v, n) = SumTo(w, n)
<1> DEFINE S == {k \in Nat : k <= n => SumTo(v, k) = SumTo(w, k)}
<1>1. 0 \in S
    BY SumStep
<1>2. ASSUME NEW k \in Nat, k \in S PROVE k + 1 \in S
  <2> SUFFICES ASSUME k + 1 <= n PROVE SumTo(v, k + 1) = SumTo(w, k + 1)
      OBVIOUS
  <2>1. SumTo(v, k) = SumTo(w, k) /\ v[k + 1] = w[k + 1]
      BY <1>2
  <2>2. /\ SumTo(v, k + 1) = SumTo(v, k) + v[k + 1]
        /\ SumTo(w, k + 1) = SumTo(w, k) + w[k + 1]
      BY SumStep
  <2> QED
      BY <2>1, <2>2
<1> HIDE DEF S
<1>3. n \in S
    BY <1>1, <1>2, Induction
<1> QED
    BY <1>3 DEF S

\* Who gets no more for each element and as much for all gets as much for each:
\* the full score says that nothing is missing.
THEOREM SumComplete ==
    ASSUME NEW v, NEW w, NEW n \in Nat,
           \A i \in 1 .. n : v[i] \in Nat /\ w[i] \in Nat /\ v[i] <= w[i]
    PROVE  /\ SumTo(v, n) <= SumTo(w, n)
           /\ SumTo(v, n) = SumTo(w, n) => \A i \in 1 .. n : v[i] = w[i]
<1> DEFINE S == {k \in Nat : k <= n =>
                  /\ SumTo(v, k) <= SumTo(w, k)
                  /\ SumTo(v, k) = SumTo(w, k) => \A i \in 1 .. k : v[i] = w[i]}
<1>1. 0 \in S
    BY SumStep
<1>2. ASSUME NEW k \in Nat, k \in S PROVE k + 1 \in S
  <2> SUFFICES ASSUME k + 1 <= n
               PROVE  /\ SumTo(v, k + 1) <= SumTo(w, k + 1)
                      /\ SumTo(v, k + 1) = SumTo(w, k + 1) => \A i \in 1 .. k + 1 : v[i] = w[i]
      OBVIOUS
  <2>1. v[k + 1] \in Nat /\ w[k + 1] \in Nat /\ v[k + 1] <= w[k + 1]
      OBVIOUS
  <2>2. SumTo(v, k) \in Nat /\ SumTo(w, k) \in Nat
      BY SumType
  <2>3. /\ SumTo(v, k) <= SumTo(w, k)
        /\ SumTo(v, k) = SumTo(w, k) => \A i \in 1 .. k : v[i] = w[i]
      BY <1>2
  <2>4. /\ SumTo(v, k + 1) = SumTo(v, k) + v[k + 1]
        /\ SumTo(w, k + 1) = SumTo(w, k) + w[k + 1]
      BY SumStep
  <2>5. SumTo(v, k + 1) = SumTo(w, k + 1) =>
            SumTo(v, k) = SumTo(w, k) /\ v[k + 1] = w[k + 1]
      BY <2>1, <2>2, <2>3, <2>4
  <2>6. \A i \in 1 .. k + 1 : i \in 1 .. k \/ i = k + 1
      OBVIOUS
  <2>7. SumTo(v, k + 1) <= SumTo(w, k + 1)
      BY <2>1, <2>2, <2>3, <2>4
  <2> QED
      BY <2>3, <2>5, <2>6, <2>7
<1> HIDE DEF S
<1>3. n \in S
    BY <1>1, <1>2, Induction
<1> QED
    BY <1>3 DEF S
=============================================================================
