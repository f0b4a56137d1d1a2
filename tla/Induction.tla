------------------------------- MODULE Induction -------------------------------
(***************************************************************************)
(* Induction over the numbers up to a bound, by least counterexample, and  *)
(* what it says of recursive functions.                                    *)
(***************************************************************************)
EXTENDS Integers, WellFoundedInduction, TLAPS

\* The least element of a set of numbers: induction by least counterexample.
LEMMA LeastElement ==
  ASSUME NEW T \in SUBSET Nat, T # {}
  PROVE  \E x \in T : \A y \in T : x <= y
<1> DEFINE R == {ss \in Nat \X Nat : ss[1] < ss[2]}
<1>1. IsWellFoundedOn(R, Nat)
  BY NatLessThanWellFounded DEF OpToRel
<1>2. PICK x \in T : \A y \in T : ~(<<y, x>> \in R)
  BY <1>1, WFMin
<1>3. ASSUME NEW y \in T, ~(x <= y) PROVE FALSE
  <2>1. x \in Nat /\ y \in Nat /\ y < x
    BY <1>3
  <2>2. <<y, x>> \in Nat \X Nat /\ <<y, x>>[1] < <<y, x>>[2]
    BY <2>1
  <2> QED
    BY <1>2, <2>2
<1> QED
  BY <1>3

\* A set that has 0 and every successor up to L has all the numbers up to L.
LEMMA UpTo ==
  ASSUME NEW L \in Nat, NEW T, 0 \in T, \A n \in 1..L : n - 1 \in T => n \in T
  PROVE  0..L \subseteq T
<1> DEFINE U == (0..L) \ T
<1>1. SUFFICES ASSUME U # {} PROVE FALSE
  OBVIOUS
<1>2. U \in SUBSET Nat
  OBVIOUS
<1>3. PICK x \in U : \A y \in U : x <= y
  BY <1>1, <1>2, LeastElement
<1>4. x \in 1..L /\ x - 1 \in T
  BY <1>3
<1> QED
  BY <1>3, <1>4

\* What each step makes of the one before determines a function on 0..L.
LEMMA Recursion ==
  ASSUME NEW S, NEW s0 \in S, NEW L \in Nat, NEW G \in [1..L -> [S -> S]]
  PROVE  \E f \in [0..L -> S] : f[0] = s0 /\ \A n \in 1..L : f[n] = G[n][f[n - 1]]
<1> DEFINE Upto(n, f) == f[0] = s0 /\ \A i \in 1..n : f[i] = G[i][f[i - 1]]
           Exists(n) == \E f \in [0..n -> S] : Upto(n, f)
           T == {n \in 0..L : ~Exists(n)}
<1>1. ASSUME T # {} PROVE FALSE
  <2> HIDE DEF Exists
  <2>1. T \in SUBSET Nat
    OBVIOUS
  <2>2. PICK x \in T : \A y \in T : x <= y
    BY <1>1, <2>1, LeastElement
  <2>3. x \in 0..L /\ ~Exists(x)
    OBVIOUS
  <2>4. Exists(0)
    <3>1. [n \in 0..0 |-> s0] \in [0..0 -> S] /\ Upto(0, [n \in 0..0 |-> s0])
      OBVIOUS
    <3> QED
      BY <3>1 DEF Exists
  <2>5. x \in 1..L /\ x - 1 \in 0..L
    BY <2>3, <2>4
  <2>6. Exists(x - 1)
    BY <2>2, <2>5
  <2>7. PICK f \in [0..x - 1 -> S] : Upto(x - 1, f)
    BY <2>6 DEF Exists
  <2> DEFINE g == [n \in 0..x |-> IF n = x THEN G[x][f[x - 1]] ELSE f[n]]
  <2>8. g \in [0..x -> S]
    <3>1. f[x - 1] \in S /\ G[x][f[x - 1]] \in S
      BY <2>5, <2>7
    <3> QED
      BY <2>5, <3>1
  <2>9. Upto(x, g)
    BY <2>5, <2>7
  <2>10. Exists(x)
    BY <2>8, <2>9 DEF Exists
  <2> QED
    BY <2>3, <2>10
<1>2. Exists(L)
  BY <1>1
<1> QED
  BY <1>2

\* A recursive definition whose step keeps a set has its values in the set, and
\* there is a function that it defines.
LEMMA Recursive ==
  ASSUME NEW S, NEW s0 \in S, NEW L \in Nat, NEW G \in [1..L -> [S -> S]],
         NEW g, g[0] = s0, \A n \in 1..L : g[n - 1] \in S => g[n] = G[n][g[n - 1]]
  PROVE  \A n \in 0..L : g[n] \in S
<1> DEFINE T == {n \in 0..L : g[n] \in S}
<1>1. 0 \in T
  OBVIOUS
<1>2. ASSUME NEW n \in 1..L, n - 1 \in T PROVE n \in T
  <2>1. g[n - 1] \in S /\ g[n] = G[n][g[n - 1]]
    BY <1>2
  <2>2. G[n] \in [S -> S]
    OBVIOUS
  <2>3. G[n][g[n - 1]] \in S
    BY <2>1, <2>2
  <2> QED
    BY <2>1, <2>3
<1> HIDE DEF T
<1>3. 0..L \subseteq T
  BY <1>1, <1>2, UpTo
<1> QED
  BY <1>3 DEF T
===============================================================================
