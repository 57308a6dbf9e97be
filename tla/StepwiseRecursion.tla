------------------------- MODULE StepwiseRecursion -------------------------
(***************************************************************************)
(* Induction and recursion up to a number, from the well-founded induction  *)
(* of the library: what the proofs about lists that are built item by item, *)
(* about loops and about searches that go on step by step rest on.          *)
(***************************************************************************)
EXTENDS WellFoundedInduction, TLAPS

\* The well-founded induction of the library, for the natural numbers.
LEMMA LeastNumber ==
    ASSUME NEW T, T \subseteq Nat, T # {}
    PROVE  \E x \in T : \A y \in T : x <= y
<1>1. IsWellFoundedOn(OpToRel(<, Nat), Nat)
  BY NatLessThanWellFounded
<1>2. PICK x \in T : \A y \in T : ~(<<y, x>> \in OpToRel(<, Nat))
  BY <1>1, WFMin
<1>3. \A y \in T : ~(y < x)
  BY <1>2 DEF OpToRel
<1>4. QED
  BY <1>3

\* The same as an induction over the numbers up to n.
LEMMA InductionUpTo ==
    ASSUME NEW n \in Nat, NEW G, 0 \in G, \A i \in 1..n : i - 1 \in G => i \in G
    PROVE  0..n \subseteq G
<1> DEFINE T == (0..n) \ G
<1> SUFFICES ASSUME T # {} PROVE FALSE
  OBVIOUS
<1>1. IsWellFoundedOn(OpToRel(<, Nat), Nat)
  BY NatLessThanWellFounded
<1>2. T \subseteq Nat
  OBVIOUS
<1>3. PICK x \in T : \A y \in T : ~(<<y, x>> \in OpToRel(<, Nat))
  BY <1>1, <1>2, WFMin
<1>4. \A y \in T : ~(y < x)
  BY <1>2, <1>3 DEF OpToRel
<1>5. x # 0 /\ x \in 0..n
  OBVIOUS
<1>6. x - 1 \in 0..n /\ x - 1 < x /\ x \in 1..n
  BY <1>5
<1>7. x - 1 \in G
  BY <1>4, <1>6
<1>8. QED
  BY <1>6, <1>7

\* f begins with a and goes on step by step, up to m.
Computes(f, m, S, a, step) ==
    f \in [0..m -> S] /\ f[0] = a /\ \A i \in 1..m : f[i] = step[i][f[i - 1]]

\* What is computed from its last value step by step exists.
LEMMA RecursionUpTo ==
    ASSUME NEW n \in Nat, NEW S, NEW a \in S, NEW step \in [1..n -> [S -> S]]
    PROVE  \E f : Computes(f, n, S, a, step)
<1> DEFINE G == {m \in 0..n : \E f : Computes(f, m, S, a, step)}
<1>1. 0 \in G
  <2>1. Computes([i \in 0..0 |-> a], 0, S, a, step) /\ 0 \in 0..n
    BY DEF Computes
  <2>2. QED
    BY <2>1
<1>2. ASSUME NEW m \in 1..n, m - 1 \in G PROVE m \in G
  <2>1. PICK f : Computes(f, m - 1, S, a, step)
    BY <1>2
  <2>2. m - 1 \in 0..n /\ m - 1 \in 0..(m - 1) /\ m \in 0..n
    OBVIOUS
  <2> DEFINE g == [i \in 0..m |-> IF i = m THEN step[m][f[m - 1]] ELSE f[i]]
  <2>3. f[m - 1] \in S /\ step[m] \in [S -> S]
    BY <2>1, <2>2 DEF Computes
  <2>4. g \in [0..m -> S]
    BY <2>1, <2>3 DEF Computes
  <2>5. g[0] = a /\ g[m] = step[m][g[m - 1]]
    BY <2>1, <2>2 DEF Computes
  <2>6. ASSUME NEW i \in 1..(m - 1) PROVE g[i] = step[i][g[i - 1]]
    <3>1. i \in 0..m /\ i - 1 \in 0..m /\ i # m /\ i - 1 # m
      OBVIOUS
    <3>2. QED
      BY <2>1, <3>1 DEF Computes
  <2>7. Computes(g, m, S, a, step)
    <3>1. \A i \in 1..m : i = m \/ i \in 1..(m - 1)
      OBVIOUS
    <3> HIDE DEF g
    <3>2. QED
      BY <2>4, <2>5, <2>6, <3>1 DEF Computes
  <2>8. QED
    BY <2>2, <2>7
<1> HIDE DEF G
<1>3. 0..n \subseteq G
  BY <1>1, <1>2, InductionUpTo
<1>4. n \in G
  BY <1>3
<1>5. QED
  BY <1>4 DEF G
=============================================================================
