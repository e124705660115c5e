---- MODULE Induction ----
(***************************************************************************)
(* Induction over the natural numbers, stated with sets: {n \in Nat : P(n)} *)
(* takes the place of the predicate.                                       *)
(***************************************************************************)
EXTENDS Integers, WellFoundedInduction, TLAPS

\* A set of natural numbers that is not empty has a least element.
LEMMA LeastElement ==
    ASSUME NEW S, S \subseteq Nat, S # {}
    PROVE  \E least \in S : \A n \in S : least <= n
<1> DEFINE Less == {ss \in Nat \X Nat : ss[1] < ss[2]}
<1>1. IsWellFoundedOn(Less, Nat)
  BY NatLessThanWellFounded DEF OpToRel
<1>2. PICK least \in S : \A n \in S : ~(<<n, least>> \in Less)
  <2> HIDE DEF Less
  <2> QED
    BY <1>1, WFMin
<1>3. \A n \in S : ~(n < least)
  BY <1>2
<1> QED
  BY <1>3

\* What holds of 0, and of i + 1 whenever it holds of i < n, holds up to n.
LEMMA InductionUpTo ==
    ASSUME NEW n \in Nat, NEW S, 0 \in S, \A i \in 0 .. n - 1 : i \in S => i + 1 \in S
    PROVE  0 .. n \subseteq S
<1> SUFFICES ASSUME NEW i \in 0 .. n, i \notin S PROVE FALSE
  OBVIOUS
<1> DEFINE Rest == {j \in 0 .. n : j \notin S}
<1>1. PICK least \in Rest : \A j \in Rest : least <= j
  <2>1. Rest \subseteq Nat /\ Rest # {}
    OBVIOUS
  <2> HIDE DEF Rest
  <2> QED
    BY <2>1, LeastElement
<1>2. least \in 0 .. n /\ least \notin S /\ least # 0
  OBVIOUS
<1>3. least - 1 \in 0 .. n - 1 /\ least - 1 + 1 = least
  BY <1>2
<1>4. least - 1 \in S
  <2>1. least - 1 \in 0 .. n /\ ~(least <= least - 1)
    BY <1>3
  <2> QED
    BY <2>1, <1>1
<1>5. least \in S
  BY <1>3, <1>4
<1> QED
  BY <1>2, <1>5

\* f starts at `start` and goes from each value to the next by `step`.
Iterates(f, n, start, step) ==
    f[0] = start /\ \A i \in 1 .. n : f[i] = step[i][f[i - 1]]

\* A function is defined up to n by its value at 0 and a step from each value to
\* the next.
LEMMA RecursionUpTo ==
    ASSUME NEW n \in Nat, NEW V, NEW start \in V, NEW step \in [1 .. n -> [V -> V]]
    PROVE  \E f \in [0 .. n -> V] : Iterates(f, n, start, step)
<1> DEFINE S == {k \in 0 .. n : \E f \in [0 .. k -> V] : Iterates(f, k, start, step)}
<1>1. 0 \in S
  <2> DEFINE f == [i \in 0 .. 0 |-> start]
  <2>1. f \in [0 .. 0 -> V] /\ Iterates(f, 0, start, step)
    BY DEF Iterates
  <2> HIDE DEF f
  <2> QED
    BY <2>1
<1>2. ASSUME NEW k \in 0 .. n - 1, k \in S PROVE k + 1 \in S
  <2>1. PICK f \in [0 .. k -> V] : Iterates(f, k, start, step)
    BY <1>2
  <2> DEFINE g == [i \in 0 .. k + 1 |-> IF i <= k THEN f[i] ELSE step[k + 1][f[k]]]
  <2>2. step[k + 1][f[k]] \in V
    <3>1. k + 1 \in 1 .. n /\ f[k] \in V
      OBVIOUS
    <3> QED
      BY <3>1
  <2>3. g \in [0 .. k + 1 -> V]
    BY <2>2
  <2>4. g[0] = start
    BY <2>1 DEF Iterates
  <2>5. ASSUME NEW i \in 1 .. k + 1 PROVE g[i] = step[i][g[i - 1]]
    <3>1. g[i - 1] = f[i - 1]
      OBVIOUS
    <3>2. CASE i <= k
      BY <3>1, <3>2, <2>1 DEF Iterates
    <3>3. CASE i = k + 1
      <4>1. g[i] = step[k + 1][f[k]] /\ i - 1 = k
        BY <3>3
      <4> QED
        BY <4>1, <3>1, <3>3
    <3> QED
      BY <3>2, <3>3
  <2> HIDE DEF g
  <2>6. k + 1 \in 0 .. n /\ Iterates(g, k + 1, start, step)
    BY <2>4, <2>5 DEF Iterates
  <2> QED
    BY <2>3, <2>6
<1> HIDE DEF S
<1>3. n \in S
  <2>1. 0 .. n \subseteq S
    BY <1>1, <1>2, InductionUpTo
  <2> QED
    BY <2>1
<1> QED
  BY <1>3 DEF S

====
