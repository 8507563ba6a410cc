---------------------------- MODULE LeastElement ----------------------------
(***************************************************************************)
(* A set of natural numbers that is not empty has a least element, which   *)
(* is what CHOOSE picks in FiniteSetsExt's Min.  From this follow the two  *)
(* facts that recursive functions over a range of numbers need: induction  *)
(* over a set of numbers, and that a first value and a step define a       *)
(* function.                                                               *)
(***************************************************************************)
EXTENDS Integers, FiniteSetsExt, WellFoundedInduction, TLAPS

\* < on the natural numbers is well founded, as a set of pairs.
LEMMA LessIsWellFounded == IsWellFoundedOn({ss \in Nat \X Nat : ss[1] < ss[2]}, Nat)
<1>1. IsWellFoundedOn(OpToRel(<, Nat), Nat)
  BY NatLessThanWellFounded
<1> QED BY <1>1 DEF OpToRel

\* Every set of natural numbers with an element has one that no other is below.
LEMMA LeastNat ==
    ASSUME NEW T \in SUBSET Nat, T # {}
    PROVE  \E x \in T : \A y \in T : x <= y
<1> DEFINE R == {ss \in Nat \X Nat : ss[1] < ss[2]}
<1>1. IsWellFoundedOn(R, Nat)
  BY LessIsWellFounded
<1>2. \E x \in T : \A y \in T : <<y, x>> \notin R
  <2> HIDE DEF R
  <2> QED BY <1>1, WFMin
<1>3. PICK x \in T : \A y \in T : <<y, x>> \notin R
  BY <1>2
<1>4. \A y \in T : <<y, x>> \in Nat \X Nat /\ <<y, x>>[1] = y /\ <<y, x>>[2] = x
  OBVIOUS
<1>5. \A y \in T : ~(y < x)
  BY <1>3, <1>4
<1>6. \A y \in T : x <= y
  BY <1>5
<1> QED BY <1>6

\* Min, by which the system hands out its lowest free descriptor, is in its set.
LEMMA MinIn ==
    ASSUME NEW T \in SUBSET Nat, T # {}
    PROVE  Min(T) \in T
<1>1. \E x \in T : \A y \in T : x =< y
  BY LeastNat
<1> QED BY <1>1 DEF Min

\* Induction up to a number, over a set of numbers.
LEMMA Upwards ==
    ASSUME NEW n \in Nat, NEW T \in SUBSET (0 .. n), 0 \in T,
           \A i \in 1 .. n : i - 1 \in T => i \in T
    PROVE  T = 0 .. n
<1> DEFINE Out == (0 .. n) \ T
<1>1. SUFFICES ASSUME Out # {} PROVE FALSE
  OBVIOUS
<1>2. Out \in SUBSET Nat
  OBVIOUS
<1>3. \E m \in Out : \A y \in Out : m <= y
  <2> HIDE DEF Out
  <2> QED BY <1>1, <1>2, LeastNat
<1>4. PICK m \in Out : \A y \in Out : m <= y
  BY <1>3
<1>5. m \in 1 .. n /\ m - 1 \in 0 .. n
  BY <1>4
<1>6. m - 1 \notin Out
  BY <1>4, <1>5
<1> QED BY <1>4, <1>5, <1>6

\* A function to the natural numbers, given by its value at 0 and a step, exists.
LEMMA StepsDefine ==
    ASSUME NEW n \in Nat, NEW x \in Nat, NEW G \in [(1 .. n) \X Nat -> Nat]
    PROVE  \E f \in [0 .. n -> Nat] :
             f[0] = x /\ \A i \in 1 .. n : f[i] = G[<<i, f[i - 1]>>]
<1> DEFINE Good(f, m) == /\ f \in [0 .. m -> Nat] /\ f[0] = x
                         /\ \A i \in 1 .. m : f[i] = G[<<i, f[i - 1]>>]
           T == {m \in 0 .. n : \E f : Good(f, m)}
<1>1. 0 \in T
  <2>1. Good([i \in 0 .. 0 |-> x], 0)
    OBVIOUS
  <2> HIDE DEF Good
  <2> QED BY <2>1
<1>2. ASSUME NEW m \in 1 .. n, m - 1 \in T PROVE m \in T
  <2>1. PICK f : Good(f, m - 1)
    BY <1>2
  <2> DEFINE y == G[<<m, f[m - 1]>>]
             g == [i \in 0 .. m |-> IF i = m THEN y ELSE f[i]]
  <2>2. m - 1 \in 0 .. m - 1 /\ f[m - 1] \in Nat /\ <<m, f[m - 1]>> \in (1 .. n) \X Nat
    BY <2>1
  <2>3. y \in Nat
    BY <2>2
  <2>4. g \in [0 .. m -> Nat] /\ g[0] = x
    <3> HIDE DEF y
    <3> QED BY <2>1, <2>3
  <2>5. ASSUME NEW i \in 1 .. m PROVE g[i] = G[<<i, g[i - 1]>>]
    <3>1. CASE i = m
      <4>1. g[i] = y /\ g[i - 1] = f[m - 1]
        <5> HIDE DEF y
        <5> QED BY <3>1
      <4> HIDE DEF g
      <4> QED BY <3>1, <4>1
    <3>2. CASE i # m
      <4>1. i \in 1 .. m - 1 /\ i - 1 \in 0 .. m /\ i - 1 # m
        BY <3>2
      <4>2. g[i] = f[i] /\ g[i - 1] = f[i - 1]
        <5> HIDE DEF y
        <5> QED BY <3>2, <4>1
      <4> HIDE DEF g
      <4> QED BY <2>1, <4>1, <4>2
    <3> QED BY <3>1, <3>2
  <2>6. Good(g, m)
    <3> HIDE DEF g
    <3> QED BY <2>4, <2>5
  <2> HIDE DEF Good
  <2> QED BY <2>6
<1>3. T = 0 .. n
  <2>1. T \in SUBSET (0 .. n)
    OBVIOUS
  <2> HIDE DEF T
  <2> QED BY <1>1, <1>2, <2>1, Upwards
<1>4. n \in T
  <2> HIDE DEF T
  <2> QED BY <1>3
<1> QED BY <1>4
-----------------------------------------------------------------------------
(* The same for values of any kind.  The recursive equation, the range of  *)
(* its step and that of its result are named, so that the provers take the *)
(* facts about them as wholes.                                             *)
Steps(f, n, x, G)     == f = [i \in 0 .. n |-> IF i = 0 THEN x ELSE G[<<i, f[i - 1]>>]]
StaysWithin(G, n, S)  == \A i \in 1 .. n : \A s \in S : G[<<i, s>>] \in S
Within(f, n, S)       == \A i \in 0 .. n : f[i] \in S

\* A recursive equation over 0 .. n has a solution.
LEMMA StepsExist ==
    ASSUME NEW n \in Nat, NEW x, NEW G
    PROVE  \E f : Steps(f, n, x, G)
<1> DEFINE Found == {m \in 0 .. n : \E f : Steps(f, m, x, G)}
<1>1. 0 \in Found
  <2>1. Steps([i \in 0 .. 0 |-> x], 0, x, G)
    BY DEF Steps
  <2> QED BY <2>1
<1>2. ASSUME NEW m \in 1 .. n, m - 1 \in Found PROVE m \in Found
  <2>1. PICK f : Steps(f, m - 1, x, G)
    BY <1>2
  <2> DEFINE g == [i \in 0 .. m |-> IF i = m THEN G[<<m, f[m - 1]>>] ELSE f[i]]
  <2>2. ASSUME NEW i \in 0 .. m
        PROVE  g[i] = IF i = 0 THEN x ELSE G[<<i, g[i - 1]>>]
    <3>1. CASE i = m
      <4>1. g[i] = G[<<m, f[m - 1]>>] /\ g[i - 1] = f[m - 1] /\ i # 0
        BY <3>1
      <4> HIDE DEF g
      <4> QED BY <3>1, <4>1
    <3>2. CASE i # m
      <4>1. i \in 0 .. m - 1 /\ (i # 0 => i - 1 \in 0 .. m /\ i - 1 # m)
        BY <3>2
      <4>2. g[i] = f[i] /\ (i # 0 => g[i - 1] = f[i - 1])
        BY <3>2, <4>1
      <4>3. f[i] = IF i = 0 THEN x ELSE G[<<i, f[i - 1]>>]
        BY <2>1, <4>1 DEF Steps
      <4> HIDE DEF g
      <4> QED BY <4>2, <4>3
    <3> QED BY <3>1, <3>2
  <2>3. Steps(g, m, x, G)
    <3>1. g = [i \in 0 .. m |-> g[i]]
      OBVIOUS
    <3> HIDE DEF g
    <3> QED BY <2>2, <3>1 DEF Steps
  <2> HIDE DEF g
  <2> QED BY <2>3
<1>3. Found \in SUBSET (0 .. n)
  OBVIOUS
<1>4. Found = 0 .. n
  <2> HIDE DEF Found
  <2> QED BY <1>1, <1>2, <1>3, Upwards
<1>5. n \in Found
  <2> HIDE DEF Found
  <2> QED BY <1>4
<1> QED BY <1>5

\* What the users need of such a function.
LEMMA StepsAre ==
    ASSUME NEW n \in Nat, NEW x, NEW G, NEW f, Steps(f, n, x, G)
    PROVE  f[0] = x /\ \A i \in 1 .. n : f[i] = G[<<i, f[i - 1]>>]
<1>1. \A i \in 0 .. n : f[i] = IF i = 0 THEN x ELSE G[<<i, f[i - 1]>>]
  BY DEF Steps
<1>2. f[0] = x
  <2>1. 0 \in 0 .. n
    OBVIOUS
  <2>2. f[0] = IF 0 = 0 THEN x ELSE G[<<0, f[0 - 1]>>]
    BY <1>1, <2>1, Zenon
  <2> QED BY <2>2, Zenon
<1>3. ASSUME NEW i \in 1 .. n PROVE f[i] = G[<<i, f[i - 1]>>]
  <2>1. i \in 0 .. n /\ i # 0
    OBVIOUS
  <2> QED BY <1>1, <2>1
<1> QED BY <1>2, <1>3

\* Its values stay where its first value is and its steps lead.
LEMMA StepsStay ==
    ASSUME NEW n \in Nat, NEW x, NEW G, NEW S, NEW f,
           Steps(f, n, x, G), x \in S, StaysWithin(G, n, S)
    PROVE  Within(f, n, S)
<1> DEFINE T == {i \in 0 .. n : f[i] \in S}
<1>1. f[0] = x /\ \A i \in 1 .. n : f[i] = G[<<i, f[i - 1]>>]
  BY StepsAre
<1>2. 0 \in T
  BY <1>1
<1>3. ASSUME NEW i \in 1 .. n, i - 1 \in T PROVE i \in T
  <2>1. f[i - 1] \in S
    BY <1>3
  <2>2. G[<<i, f[i - 1]>>] \in S
    BY <2>1 DEF StaysWithin
  <2> QED BY <1>1, <2>2
<1>4. T \in SUBSET (0 .. n)
  OBVIOUS
<1>5. T = 0 .. n
  <2> HIDE DEF T
  <2> QED BY <1>2, <1>3, <1>4, Upwards
<1> QED BY <1>5 DEF Within
=============================================================================
