--------------------------- MODULE IterationProofs ---------------------------
(***************************************************************************)
(* Lemmas about repeating a step: induction over the naturals as a         *)
(* statement about sets, the sequence of results of n steps, and the       *)
(* function behind FoldLeft.  The code's loops over extrinsics, state      *)
(* changes and blocks are all of this form.                                *)
(***************************************************************************)
EXTENDS Integers, SequencesExt, SequenceTheorems, FiniteSetTheorems, TLAPS

LessThan == {p \in Nat \X Nat : p[1] < p[2]}

\* The order of the natural numbers is well founded.
LEMMA LessThanWellFounded == IsWellFoundedOn(LessThan, Nat)
<1> SUFFICES IsWellFoundedOn(OpToRel(<, Nat), Nat)
  BY DEF OpToRel, LessThan
<1> QED
  BY NatLessThanWellFounded

\* A set with 0 and with the successor of each member has all the naturals.
LEMMA InductiveSet ==
  ASSUME NEW T, 0 \in T, \A n \in Nat : n \in T => n + 1 \in T
  PROVE  Nat \subseteq T
<1> DEFINE Rest == Nat \ T
<1> SUFFICES ASSUME Rest # {} PROVE FALSE
  OBVIOUS
<1>1. PICK m \in Rest : \A k \in Rest : <<k, m>> \notin LessThan
  BY LessThanWellFounded, WFMin
<1>2. m \in Nat /\ m # 0
  OBVIOUS
<1>3. m - 1 \in Nat /\ (m - 1) + 1 = m
  BY <1>2
<1>4. m - 1 \in Rest
  BY <1>3
<1>5. <<m - 1, m>> \in LessThan
  BY <1>2, <1>3 DEF LessThan
<1>6. QED
  BY <1>1, <1>4, <1>5

\* A set with 0 and, with each k - 1, also k up to n, has all of 0..n.
LEMMA InductiveInterval ==
  ASSUME NEW n \in Nat, NEW T, 0 \in T, \A k \in 1..n : k - 1 \in T => k \in T
  PROVE  0..n \subseteq T
<1> DEFINE U == {k \in Nat : k <= n => k \in T}
<1>1. 0 \in U
  OBVIOUS
<1>2. ASSUME NEW k \in Nat, k \in U
      PROVE  k + 1 \in U
  <2>1. CASE k + 1 <= n
    <3>1. k \in T /\ k + 1 \in 1..n /\ (k + 1) - 1 = k
      BY <1>2, <2>1
    <3>2. QED
      BY <3>1
  <2>2. QED
    BY <2>1
<1> HIDE DEF U
<1>3. Nat \subseteq U
  BY <1>1, <1>2, InductiveSet
<1>4. QED
  BY <1>3 DEF U

-----------------------------------------------------------------------------
\* h[0..n] are the results of n steps, the i-th of them step[i], from x.
AreSteps(h, S, n, step, x) ==
  /\ h \in [0..n -> S]
  /\ h[0] = x
  /\ \A i \in 1..n : h[i] = step[i][h[i - 1]]

\* g is the function that FoldLeft defines over the sets of positions.
IsFold(g, S, n, step, x) ==
  \A s \in SUBSET (1..n) :
    IF s = {} THEN g[s] = x
    ELSE g[s \ {Max(s)}] \in S => g[s] = step[Max(s)][g[s \ {Max(s)}]]

\* They exist.
LEMMA StepsCanBeTaken ==
  ASSUME NEW S, NEW n \in Nat, NEW step \in [1..n -> [S -> S]], NEW x \in S
  PROVE  \E h : AreSteps(h, S, n, step, x)
<1> DEFINE Upto(k) == \E f \in [0..k -> S] :
                        f[0] = x /\ \A i \in 1..k : f[i] = step[i][f[i - 1]]
           T == {k \in 0..n : Upto(k)}
<1>1. 0 \in T
  <2> DEFINE f == [i \in 0..0 |-> x]
  <2>1. f \in [0..0 -> S] /\ f[0] = x /\ \A i \in 1..0 : f[i] = step[i][f[i - 1]]
    OBVIOUS
  <2> HIDE DEF f
  <2>2. QED
    BY <2>1
<1>2. ASSUME NEW k \in 1..n, k - 1 \in T
      PROVE  k \in T
  <2>1. PICK g \in [0..(k - 1) -> S] :
               g[0] = x /\ \A i \in 1..(k - 1) : g[i] = step[i][g[i - 1]]
    BY <1>2
  <2> DEFINE f == [i \in 0..k |-> IF i = k THEN step[k][g[k - 1]] ELSE g[i]]
  <2>2. g[k - 1] \in S /\ step[k][g[k - 1]] \in S
    BY <2>1
  <2>3. f \in [0..k -> S]
    BY <2>1, <2>2
  <2>4. f[0] = x /\ \A i \in 1..k : f[i] = step[i][f[i - 1]]
    BY <2>1
  <2> HIDE DEF f
  <2>5. Upto(k)
    BY <2>3, <2>4
  <2> HIDE DEF Upto
  <2>6. QED
    BY <2>5
<1>3. \A k \in 1..n : k - 1 \in T => k \in T
  BY <1>2
<1> HIDE DEF T
<1>4. 0..n \subseteq T
  BY <1>1, <1>3, InductiveInterval
<1>5. n \in T
  BY <1>4
<1>6. Upto(n)
  BY <1>5 DEF T
<1>7. QED
  BY <1>6 DEF AreSteps

\* The first m steps of two sequences of steps are the same.
SameSteps(step, other, m, S) == \A i \in 1..m : \A a \in S : step[i][a] = other[i][a]

\* Two sequences of results agree as long as their steps do.
LEMMA StepsAgree ==
  ASSUME NEW S, NEW n \in Nat, NEW m \in 0..n, NEW x, NEW step, NEW other, NEW h, NEW g,
         AreSteps(h, S, n, step, x), AreSteps(g, S, m, other, x),
         SameSteps(step, other, m, S)
  PROVE  \A k \in 0..m : h[k] = g[k]
<1> DEFINE T == {k \in 0..m : h[k] = g[k]}
<1>1. 0 \in T
  BY DEF AreSteps
<1>2. ASSUME NEW k \in 1..m, k - 1 \in T
      PROVE  k \in T
  <2>1. k \in 1..n /\ k - 1 \in 0..m /\ h[k - 1] = g[k - 1]
    BY <1>2
  <2>2. g[k - 1] \in S
    BY <2>1 DEF AreSteps
  <2>3. h[k] = step[k][h[k - 1]] /\ g[k] = other[k][g[k - 1]]
    BY <2>1 DEF AreSteps
  <2>4. QED
    BY <2>1, <2>2, <2>3 DEF SameSteps
<1>3. \A k \in 1..m : k - 1 \in T => k \in T
  BY <1>2
<1> HIDE DEF T
<1>4. 0..m \subseteq T
  BY <1>1, <1>3, InductiveInterval
<1>5. QED
  BY <1>4 DEF T

\* The greatest number of an initial interval.
LEMMA MaxOfInterval ==
  ASSUME NEW k \in Nat \ {0}
  PROVE  1..k # {} /\ Max(1..k) = k /\ (1..k) \ {Max(1..k)} = 1..(k - 1)
<1>1. k \in 1..k /\ \A y \in 1..k : k >= y
  OBVIOUS
<1>2. \A z \in 1..k : (\A y \in 1..k : z >= y) => z = k
  OBVIOUS
<1>3. Max(1..k) = k
  BY <1>1, <1>2 DEF Max
<1>4. QED
  BY <1>1, <1>3

\* The Max of the community modules is the greatest member.
LEMMA MaxOfSubset ==
  ASSUME NEW n \in Nat
  PROVE  \A s \in (SUBSET (1..n)) \ {{}} : Max(s) \in s /\ \A y \in s : Max(s) >= y
<1> DEFINE T == {k \in 0..n : \A s \in (SUBSET (1..k)) \ {{}} : \E x \in s : \A y \in s : x >= y}
<1>1. 0 \in T
  <2>1. \A s \in SUBSET (1..0) : s = {}
    OBVIOUS
  <2>2. QED
    BY <2>1
<1>2. ASSUME NEW k \in 1..n, k - 1 \in T
      PROVE  k \in T
  <2> SUFFICES ASSUME NEW s \in (SUBSET (1..k)) \ {{}}
               PROVE  \E x \in s : \A y \in s : x >= y
    OBVIOUS
  <2>1. CASE k \in s
    BY <2>1
  <2>2. CASE k \notin s
    <3>1. \A y \in s : y \in 1..(k - 1)
      BY <2>2
    <3>2. s \in (SUBSET (1..(k - 1))) \ {{}}
      BY <3>1
    <3>3. QED
      BY <1>2, <3>2
  <2>3. QED
    BY <2>1, <2>2
<1>3. \A k \in 1..n : k - 1 \in T => k \in T
  BY <1>2
<1> HIDE DEF T
<1>4. 0..n \subseteq T
  BY <1>1, <1>3, InductiveInterval
<1>5. n \in T
  BY <1>4
<1>6. \A s \in (SUBSET (1..n)) \ {{}} : \E x \in s : \A y \in s : x >= y
  BY <1>5 DEF T
<1>7. QED
  BY <1>6 DEF Max

(***************************************************************************)
(* The function that FoldLeft defines over the sets of positions exists,   *)
(* when each step leads from S to S.                                       *)
(***************************************************************************)
LEMMA FoldCanBeTaken ==
  ASSUME NEW S, NEW n \in Nat, NEW step \in [1..n -> [S -> S]], NEW x \in S
  PROVE  \E g \in [SUBSET (1..n) -> S] : IsFold(g, S, n, step, x)
<1> DEFINE Is(g, k) == \A s \in SUBSET (1..k) :
                         g[s] = IF s = {} THEN x ELSE step[Max(s)][g[s \ {Max(s)}]]
           T == {k \in 0..n : \E g \in [SUBSET (1..k) -> S] : Is(g, k)}
<1>1. 0 \in T
  <2> DEFINE g == [s \in SUBSET (1..0) |-> x]
  <2>1. \A s \in SUBSET (1..0) : s = {}
    OBVIOUS
  <2>2. g \in [SUBSET (1..0) -> S] /\ Is(g, 0)
    BY <2>1
  <2> HIDE DEF g, Is
  <2>3. \E q \in [SUBSET (1..0) -> S] : Is(q, 0)
    BY <2>2
  <2>4. 0 \in 0..n
    OBVIOUS
  <2>5. QED
    BY <2>3, <2>4, Zenon
<1>2. ASSUME NEW k \in 1..n, k - 1 \in T
      PROVE  k \in T
  <2>1. PICK g \in [SUBSET (1..(k - 1)) -> S] : Is(g, k - 1)
    BY <1>2
  <2> DEFINE h == [s \in SUBSET (1..k) |-> IF k \in s THEN step[k][g[s \ {k}]] ELSE g[s]]
  <2>2. ASSUME NEW s \in SUBSET (1..k), k \in s
        PROVE  s # {} /\ Max(s) = k /\ s \ {k} \in SUBSET (1..(k - 1))
    <3>1. k \in s /\ \A y \in s : k >= y
      BY <2>2
    <3>2. \A z \in s : (\A y \in s : z >= y) => z = k
      BY <2>2
    <3>3. Max(s) = k
      BY <3>1, <3>2 DEF Max
    <3>4. QED
      BY <2>2, <3>3
  <2>3. ASSUME NEW s \in SUBSET (1..k), k \notin s
        PROVE  /\ s \in SUBSET (1..(k - 1))
               /\ s \ {Max(s)} \in SUBSET (1..(k - 1))
    <3>1. \A y \in s : y \in 1..k /\ y # k
      BY <2>3
    <3>2. \A y \in s : y \in 1..(k - 1)
      BY <3>1
    <3>3. QED
      BY <3>2
  <2>4. h \in [SUBSET (1..k) -> S]
    <3>1. \A s \in SUBSET (1..k) : k \in s => step[k][g[s \ {k}]] \in S
      BY <2>1, <2>2
    <3>2. \A s \in SUBSET (1..k) : k \notin s => g[s] \in S
      BY <2>1, <2>3
    <3>3. QED
      BY <3>1, <3>2
  <2>5. Is(h, k)
    <3> SUFFICES ASSUME NEW s \in SUBSET (1..k)
                 PROVE  h[s] = IF s = {} THEN x ELSE step[Max(s)][h[s \ {Max(s)}]]
      OBVIOUS
    <3>1. CASE k \in s
      BY <2>2, <3>1
    <3>2. CASE k \notin s
      BY <2>1, <2>3, <3>2
    <3>3. QED
      BY <3>1, <3>2
  <2> HIDE DEF h, Is
  <2>6. \E q \in [SUBSET (1..k) -> S] : Is(q, k)
    BY <2>4, <2>5
  <2>7. QED
    BY <2>6
<1>3. \A k \in 1..n : k - 1 \in T => k \in T
  BY <1>2
<1> HIDE DEF T
<1>4. 0..n \subseteq T
  BY <1>1, <1>3, InductiveInterval
<1>5. n \in T
  BY <1>4
<1>6. PICK g \in [SUBSET (1..n) -> S] : Is(g, n)
  BY <1>5 DEF T
<1>7. IsFold(g, S, n, step, x)
  BY <1>6 DEF IsFold
<1>8. QED
  BY <1>7

\* What FoldLeft yields is the last of n steps.
LEMMA FoldIsSteps ==
  ASSUME NEW S, NEW n \in Nat, NEW step \in [1..n -> [S -> S]], NEW x \in S, NEW f,
         IsFold(f, S, n, step, x)
  PROVE  \E h : AreSteps(h, S, n, step, x) /\ f[1..n] = h[n]
<1>1. 1..0 = {} /\ f[1..0] = x
  <2>1. 1..0 = {} /\ {} \in SUBSET (1..n)
    OBVIOUS
  <2>2. QED
    BY <2>1 DEF IsFold
<1>2. ASSUME NEW k \in 1..n, f[1..(k - 1)] \in S
      PROVE  f[1..k] = step[k][f[1..(k - 1)]]
  <2>1. k \in Nat \ {0} /\ 1..k \subseteq 1..n
    OBVIOUS
  <2>2. 1..k # {} /\ Max(1..k) = k /\ (1..k) \ {Max(1..k)} = 1..(k - 1)
    BY <2>1, MaxOfInterval
  <2>3. QED
    BY <1>2, <2>1, <2>2 DEF IsFold
<1> DEFINE T == {k \in 0..n : f[1..k] \in S}
<1>3. \A k \in 1..n : k - 1 \in T => k \in T
  BY <1>2
<1>4. 0 \in T
  BY <1>1
<1> HIDE DEF T
<1>5. 0..n \subseteq T
  BY <1>3, <1>4, InductiveInterval
<1>6. \A k \in 0..n : f[1..k] \in S
  BY <1>5 DEF T
<1> DEFINE h == [k \in 0..n |-> f[1..k]]
<1>7. h \in [0..n -> S] /\ h[0] = x /\ f[1..n] = h[n]
  BY <1>1, <1>6
<1>8. \A i \in 1..n : h[i] = step[i][h[i - 1]]
  BY <1>2, <1>6
<1> HIDE DEF h
<1>9. AreSteps(h, S, n, step, x)
  BY <1>7, <1>8 DEF AreSteps
<1>10. QED
  BY <1>7, <1>9

-----------------------------------------------------------------------------
(***************************************************************************)
(* Sums over finite sets.  SumFunction adds in an order picked by CHOOSE;  *)
(* the sum does not depend on it.                                          *)
(***************************************************************************)
Pick(s) == CHOOSE x \in s : TRUE

\* g maps each subset of D to the sum of b over it.
IsSum(g, b, D) ==
  /\ g \in [SUBSET D -> Nat]
  /\ \A s \in SUBSET D : g[s] = IF s = {} THEN 0 ELSE b[Pick(s)] + g[s \ {Pick(s)}]

\* What holds of {} and of each set if of all that are smaller by one.
LEMMA InductiveSubsets ==
  ASSUME NEW D, IsFiniteSet(D), NEW F, {} \in F,
         \A s \in (SUBSET D) \ {{}} : (\A x \in s : s \ {x} \in F) => s \in F
  PROVE  SUBSET D \subseteq F
<1> DEFINE U == {k \in 0..Cardinality(D) : \A s \in SUBSET D : Cardinality(s) = k => s \in F}
<1>1. Cardinality(D) \in Nat /\ \A s \in SUBSET D : IsFiniteSet(s) /\ Cardinality(s) \in 0..Cardinality(D)
  BY FS_Subset, FS_CardinalityType
<1>2. 0 \in U
  BY <1>1, FS_EmptySet
<1>3. ASSUME NEW k \in 1..Cardinality(D), k - 1 \in U
      PROVE  k \in U
  <2> SUFFICES ASSUME NEW s \in SUBSET D, Cardinality(s) = k PROVE s \in F
    BY <1>1
  <2>1. s # {}
    BY <1>1, FS_EmptySet
  <2>2. ASSUME NEW x \in s PROVE s \ {x} \in F
    <3>1. Cardinality(s \ {x}) = k - 1
      BY <1>1, FS_RemoveElement
    <3>2. QED
      BY <1>3, <3>1
  <2>3. QED
    BY <2>1, <2>2
<1>4. \A k \in 1..Cardinality(D) : k - 1 \in U => k \in U
  BY <1>3
<1> HIDE DEF U
<1>5. 0..Cardinality(D) \subseteq U
  BY <1>1, <1>2, <1>4, InductiveInterval
<1>6. \A s \in SUBSET D : Cardinality(s) \in U
  BY <1>1, <1>5
<1>7. QED
  BY <1>6 DEF U

\* The member that is taken out first is a member.
LEMMA PickIsMember == ASSUME NEW s, s # {} PROVE Pick(s) \in s
  BY DEF Pick

\* The recursion of a sum over a finite set has a solution.
LEMMA SumExists ==
  ASSUME NEW D, IsFiniteSet(D), NEW b \in [D -> Nat]
  PROVE  \E g : IsSum(g, b, D)
<1> DEFINE Upto(g, k) ==
             \A s \in SUBSET D : Cardinality(s) <= k =>
               g[s] = IF s = {} THEN 0 ELSE b[Pick(s)] + g[s \ {Pick(s)}]
           n == Cardinality(D)
           T == {k \in 0..n : \E g \in [SUBSET D -> Nat] : Upto(g, k)}
<1>1. n \in Nat /\ \A s \in SUBSET D : IsFiniteSet(s) /\ Cardinality(s) \in 0..n
  BY FS_Subset, FS_CardinalityType
<1>2. ASSUME NEW s \in SUBSET D, s # {}
      PROVE  /\ Pick(s) \in D
             /\ s \ {Pick(s)} \in SUBSET D
             /\ Cardinality(s \ {Pick(s)}) = Cardinality(s) - 1
  BY <1>1, <1>2, PickIsMember, FS_RemoveElement
<1> HIDE DEF n
<1>3. 0 \in T
  <2> DEFINE g == [s \in SUBSET D |-> 0]
  <2>1. \A s \in SUBSET D : Cardinality(s) <= 0 => s = {}
    BY <1>1, FS_EmptySet
  <2>2. g \in [SUBSET D -> Nat] /\ Upto(g, 0)
    BY <2>1
  <2> HIDE DEF g, Upto
  <2>3. \E q \in [SUBSET D -> Nat] : Upto(q, 0)
    BY <2>2
  <2>4. 0 \in 0..n
    BY <1>1
  <2>5. QED
    BY <2>3, <2>4, Zenon
<1>4. ASSUME NEW k \in 1..n, k - 1 \in T
      PROVE  k \in T
  <2>1. PICK g \in [SUBSET D -> Nat] : Upto(g, k - 1)
    BY <1>4
  <2> DEFINE h == [s \in SUBSET D |-> IF s # {} /\ Cardinality(s) = k
                                      THEN b[Pick(s)] + g[s \ {Pick(s)}] ELSE g[s]]
  <2>2. h \in [SUBSET D -> Nat]
    BY <1>2, <2>1
  <2>3. Upto(h, k)
    <3> SUFFICES ASSUME NEW s \in SUBSET D, Cardinality(s) <= k
                 PROVE  h[s] = IF s = {} THEN 0 ELSE b[Pick(s)] + h[s \ {Pick(s)}]
      OBVIOUS
    <3>1. CASE s = {}
      <4>1. Cardinality(s) = 0
        BY <3>1, FS_EmptySet
      <4>2. QED
        BY <1>1, <2>1, <3>1, <4>1
    <3>2. CASE s # {}
      <4>1. h[s \ {Pick(s)}] = g[s \ {Pick(s)}]
        BY <1>1, <1>2, <3>2
      <4>2. CASE Cardinality(s) = k
        BY <3>2, <4>1, <4>2
      <4>3. CASE Cardinality(s) # k
        <5>1. Cardinality(s) <= k - 1
          BY <1>1, <4>3
        <5>2. QED
          BY <2>1, <3>2, <4>1, <4>3, <5>1
      <4>4. QED
        BY <4>2, <4>3
    <3>3. QED
      BY <3>1, <3>2
  <2> HIDE DEF h, Upto
  <2>4. \E q \in [SUBSET D -> Nat] : Upto(q, k)
    BY <2>2, <2>3
  <2>5. QED
    BY <2>4
<1>5. \A k \in 1..n : k - 1 \in T => k \in T
  BY <1>4
<1> HIDE DEF T
<1>6. 0..n \subseteq T
  BY <1>1, <1>3, <1>5, InductiveInterval
<1>7. n \in T
  BY <1>1, <1>6
<1>8. PICK g \in [SUBSET D -> Nat] : Upto(g, n)
  BY <1>7 DEF T
<1>9. \A s \in SUBSET D : Cardinality(s) <= n
  BY <1>1
<1>10. \A s \in SUBSET D : g[s] = IF s = {} THEN 0 ELSE b[Pick(s)] + g[s \ {Pick(s)}]
  BY <1>8, <1>9
<1>11. IsSum(g, b, D)
  BY <1>8, <1>10 DEF IsSum
<1>12. QED
  BY <1>11

\* The sum does not depend on which member is taken out first.
LEMMA SumRemove ==
  ASSUME NEW D, IsFiniteSet(D), NEW b \in [D -> Nat], NEW g, IsSum(g, b, D)
  PROVE  \A s \in SUBSET D : \A x \in s : g[s] = b[x] + g[s \ {x}]
<1> DEFINE F == {s \in SUBSET D : \A x \in s : g[s] = b[x] + g[s \ {x}]}
<1>1. {} \in F
  OBVIOUS
<1>2. ASSUME NEW s \in (SUBSET D) \ {{}}, \A x \in s : s \ {x} \in F
      PROVE  s \in F
  <2> SUFFICES ASSUME NEW x \in s PROVE g[s] = b[x] + g[s \ {x}]
    OBVIOUS
  <2> DEFINE p == Pick(s)
  <2>1. p \in s /\ p \in D /\ x \in D
    BY PickIsMember
  <2>2. g[s] = b[p] + g[s \ {p}]
    BY DEF IsSum
  <2>3. CASE x = p
    BY <2>2, <2>3
  <2>4. CASE x # p
    <3>1. g[s \ {p}] = b[x] + g[(s \ {p}) \ {x}]
      BY <1>2, <2>1, <2>4
    <3>2. g[s \ {x}] = b[p] + g[(s \ {x}) \ {p}]
      BY <1>2, <2>1, <2>4
    <3>3. (s \ {p}) \ {x} = (s \ {x}) \ {p}
      OBVIOUS
    <3>4. b[x] \in Nat /\ b[p] \in Nat /\ g[(s \ {p}) \ {x}] \in Nat
      BY <2>1 DEF IsSum
    <3> DEFINE r == g[(s \ {p}) \ {x}]
    <3>5. g[s] = b[p] + (b[x] + r)
      BY <2>2, <3>1
    <3>6. g[s \ {x}] = b[p] + r
      BY <3>2, <3>3
    <3>7. b[x] \in Nat /\ b[p] \in Nat /\ r \in Nat
      BY <3>4
    <3> HIDE DEF r, p
    <3>8. QED
      BY <3>5, <3>6, <3>7
  <2>5. QED
    BY <2>3, <2>4
<1>3. \A s \in (SUBSET D) \ {{}} : (\A x \in s : s \ {x} \in F) => s \in F
  BY <1>2
<1> HIDE DEF F
<1>4. SUBSET D \subseteq F
  BY <1>1, <1>3, InductiveSubsets
<1>5. QED
  BY <1>4 DEF F

\* Sums of functions that agree on a set agree.
LEMMA SumAgrees ==
  ASSUME NEW D, IsFiniteSet(D), NEW b \in [D -> Nat], NEW c \in [D -> Nat],
         NEW g, IsSum(g, b, D), NEW h, IsSum(h, c, D),
         NEW E \in SUBSET D, \A x \in E : b[x] = c[x]
  PROVE  g[E] = h[E]
<1> DEFINE F == {s \in SUBSET D : s \subseteq E => g[s] = h[s]}
<1>1. {} \in F
  BY DEF IsSum
<1>2. ASSUME NEW s \in (SUBSET D) \ {{}}, \A x \in s : s \ {x} \in F
      PROVE  s \in F
  <2> SUFFICES ASSUME s \subseteq E PROVE g[s] = h[s]
    OBVIOUS
  <2>1. Pick(s) \in s
    BY PickIsMember
  <2>2. g[s \ {Pick(s)}] = h[s \ {Pick(s)}] /\ b[Pick(s)] = c[Pick(s)]
    BY <1>2, <2>1
  <2>3. QED
    BY <2>2 DEF IsSum
<1>3. \A s \in (SUBSET D) \ {{}} : (\A x \in s : s \ {x} \in F) => s \in F
  BY <1>2
<1> HIDE DEF F
<1>4. SUBSET D \subseteq F
  BY <1>1, <1>3, InductiveSubsets
<1>5. QED
  BY <1>4 DEF F

\* SumFunction is such a sum, of the whole domain.
LEMMA SumFunctionIs ==
  ASSUME NEW D, IsFiniteSet(D), NEW b \in [D -> Nat]
  PROVE  \E g : IsSum(g, b, D) /\ SumFunction(b) = g[D]
<1> DEFINE Is(f) == f = [s \in SUBSET D |-> IF s = {} THEN 0 ELSE b[Pick(s)] + f[s \ {Pick(s)}]]
           f == CHOOSE g : Is(g)
<1>1. DOMAIN b = D
  OBVIOUS
<1>2. SumFunction(b) = f[D]
  BY <1>1, Zenon DEF SumFunction, SumFunctionOnSet, FoldFunctionOnSet, MapThenFoldSet, Pick
<1>3. PICK g : IsSum(g, b, D)
  BY SumExists
<1>4. Is(g)
  BY <1>3 DEF IsSum
<1>5. Is(f)
  BY <1>4
<1> HIDE DEF f
<1> DEFINE F == {s \in SUBSET D : f[s] \in Nat}
<1>6. {} \in F
  BY <1>5
<1>7. ASSUME NEW s \in (SUBSET D) \ {{}}, \A x \in s : s \ {x} \in F
      PROVE  s \in F
  <2>1. Pick(s) \in s
    BY PickIsMember
  <2>2. f[s \ {Pick(s)}] \in Nat /\ b[Pick(s)] \in Nat
    BY <1>7, <2>1
  <2>3. f[s] = b[Pick(s)] + f[s \ {Pick(s)}]
    BY <1>5
  <2>4. QED
    BY <2>2, <2>3
<1>8. \A s \in (SUBSET D) \ {{}} : (\A x \in s : s \ {x} \in F) => s \in F
  BY <1>7
<1> HIDE DEF F
<1>9. SUBSET D \subseteq F
  BY <1>6, <1>8, InductiveSubsets
<1>10. IsSum(f, b, D)
  BY <1>5, <1>9 DEF F, IsSum
<1>11. QED
  BY <1>2, <1>10

(***************************************************************************)
(* A sum is a natural, at least each of its parts, and changes by what one *)
(* part changes.                                                           *)
(***************************************************************************)
LEMMA SumOfUpdate ==
  ASSUME NEW D, IsFiniteSet(D), NEW b \in [D -> Nat], NEW x \in D, NEW v \in Nat
  PROVE  /\ SumFunction(b) \in Nat
         /\ b[x] <= SumFunction(b)
         /\ SumFunction([b EXCEPT ![x] = v]) = SumFunction(b) - b[x] + v
<1> DEFINE c == [b EXCEPT ![x] = v]
<1>1. c \in [D -> Nat] /\ c[x] = v /\ \A y \in D \ {x} : b[y] = c[y]
  OBVIOUS
<1> HIDE DEF c
<1>2. PICK g : IsSum(g, b, D) /\ SumFunction(b) = g[D]
  BY SumFunctionIs
<1>3. PICK h : IsSum(h, c, D) /\ SumFunction(c) = h[D]
  BY <1>1, SumFunctionIs
<1>4. g[D] = b[x] + g[D \ {x}]
  BY <1>2, SumRemove
<1>5. h[D] = v + h[D \ {x}]
  BY <1>1, <1>3, SumRemove
<1>6. g[D \ {x}] = h[D \ {x}]
  BY <1>1, <1>2, <1>3, SumAgrees
<1>7. g[D] \in Nat /\ g[D \ {x}] \in Nat /\ b[x] \in Nat
  BY <1>2 DEF IsSum
<1>8. QED
  BY <1>2, <1>3, <1>4, <1>5, <1>6, <1>7 DEF c
=============================================================================
