----------------------------- MODULE Iteration -----------------------------
(***************************************************************************)
(* Facts about the natural numbers the proofs of several components rest    *)
(* on: the least element of a set, induction, the existence of what is      *)
(* defined by iteration, and one on products.  A predicate is given by the  *)
(* set where it holds.                                                      *)
(***************************************************************************)
EXTENDS Integers, FiniteSets, FiniteSetTheorems, TLAPS

(* Every set of natural numbers has a least element.                        *)
LEMMA LeastElement ==
  ASSUME NEW S \in SUBSET Nat, S # {}
  PROVE  \E x \in S : \A y \in S : x <= y
<1> DEFINE Upto == {0 .. x : x \in S}
<1>1. Upto \subseteq FiniteSubsetsOf(Nat) /\ Upto # {}
  <2>1. \A x \in S : IsFiniteSet(0 .. x)
    BY FS_Interval
  <2>2. ASSUME NEW u \in Upto PROVE u \in FiniteSubsetsOf(Nat)
    <3>1. PICK x \in S : u = 0 .. x
      OBVIOUS
    <3>2. u \in SUBSET Nat /\ IsFiniteSet(u)
      BY <2>1, <3>1
    <3> HIDE DEF Upto
    <3> QED BY <3>2 DEF FiniteSubsetsOf
  <2> QED BY <2>2
<1>2. PICK m \in Upto : \A u \in Upto : << u, m >> \notin StrictSubsetOrdering(Nat)
  <2>1. IsWellFoundedOn(StrictSubsetOrdering(Nat), FiniteSubsetsOf(Nat))
    BY FS_StrictSubsetOrderingWellFounded
  <2> HIDE DEF Upto
  <2> QED BY <1>1, <2>1, WFMin
<1>3. PICK x \in S : m = 0 .. x
  OBVIOUS
<1>4. \A y \in S : x <= y
  <2> SUFFICES ASSUME NEW y \in S, y < x PROVE FALSE
    OBVIOUS
  <2>1. 0 .. y \subseteq 0 .. x /\ 0 .. y # 0 .. x
    <3>1. x \in 0 .. x /\ x \notin 0 .. y
      OBVIOUS
    <3> QED BY <3>1
  <2>2. 0 .. y \in SUBSET Nat /\ 0 .. x \in SUBSET Nat
    OBVIOUS
  <2>3. << 0 .. y, 0 .. x >> \in StrictSubsetOrdering(Nat)
    BY <2>1, <2>2 DEF StrictSubsetOrdering
  <2>4. 0 .. y \in Upto
    OBVIOUS
  <2> HIDE DEF Upto
  <2> QED BY <1>2, <1>3, <2>3, <2>4
<1> QED BY <1>4

LEMMA Induction ==
  ASSUME NEW S, 0 \in S, \A n \in Nat : n \in S => n + 1 \in S
  PROVE  \A n \in Nat : n \in S
<1> SUFFICES ASSUME Nat \ S # {} PROVE FALSE
  OBVIOUS
<1>1. PICK x \in Nat \ S : \A y \in Nat \ S : x <= y
  BY LeastElement
<1>2. x # 0 /\ x - 1 \in Nat /\ x - 1 < x /\ (x - 1) + 1 = x
  BY <1>1
<1>3. x - 1 \in S
  BY <1>1, <1>2
<1> QED BY <1>1, <1>2, <1>3

(* Iterating a function defines a sequence of values ...                    *)
LEMMA IterationExists ==
  ASSUME NEW D, NEW start \in D, NEW step \in [D -> D]
  PROVE  \E f \in [Nat -> D] :
           f[0] = start /\ \A i \in Nat : f[i + 1] = step[f[i]]
<1> DEFINE Upto(h, n) == /\ h[0] = start
                         /\ \A i \in 0 .. n - 1 : h[i + 1] = step[h[i]]
           Some == {n \in Nat : \E h \in [0 .. n -> D] : Upto(h, n)}
<1>1. \A n \in Nat : n \in Some
  <2>1. 0 \in Some
    <3>1. [i \in 0 .. 0 |-> start] \in [0 .. 0 -> D]
      OBVIOUS
    <3>2. Upto([i \in 0 .. 0 |-> start], 0)
      OBVIOUS
    <3> QED BY <3>1, <3>2
  <2>2. ASSUME NEW n \in Nat, n \in Some PROVE n + 1 \in Some
    <3>1. PICK h \in [0 .. n -> D] : Upto(h, n)
      BY <2>2
    <3> DEFINE g == [i \in 0 .. n + 1 |-> IF i <= n THEN h[i] ELSE step[h[n]]]
    <3>2. g \in [0 .. n + 1 -> D]
      <4>1. \A i \in 0 .. n : h[i] \in D
        BY <3>1
      <4>2. n \in 0 .. n /\ \A i \in 0 .. n + 1 : i <= n => i \in 0 .. n
        OBVIOUS
      <4>3. step[h[n]] \in D
        BY <4>1, <4>2
      <4> QED BY <4>1, <4>2, <4>3
    <3> HIDE DEF Upto
    <3>3. Upto(g, n + 1)
      <4> USE DEF Upto
      <4>1. g[0] = start
        BY <3>1
      <4>2. ASSUME NEW i \in 0 .. (n + 1) - 1 PROVE g[i + 1] = step[g[i]]
        <5>1. CASE i = n
          BY <5>1
        <5>2. CASE i # n
          <6>1. i \in 0 .. n - 1 /\ i + 1 \in 0 .. n
            BY <5>2
          <6> QED BY <3>1, <6>1
        <5> QED BY <5>1, <5>2
      <4> QED BY <4>1, <4>2
    <3> QED BY <3>2, <3>3
  <2> HIDE DEF Some
  <2> QED BY <2>1, <2>2, Induction
<1>2. ASSUME NEW n \in Nat, NEW m \in Nat, n <= m,
             NEW g \in [0 .. n -> D], Upto(g, n),
             NEW h \in [0 .. m -> D], Upto(h, m)
      PROVE  g[n] = h[n]
  <2> DEFINE Same == {i \in Nat : i <= n => g[i] = h[i]}
  <2>1. 0 \in Same
    BY <1>2
  <2>2. ASSUME NEW i \in Nat, i \in Same PROVE i + 1 \in Same
    <3> SUFFICES ASSUME i + 1 <= n PROVE g[i + 1] = h[i + 1]
      OBVIOUS
    <3>1. i \in 0 .. n - 1 /\ i \in 0 .. m - 1 /\ g[i] = h[i]
      BY <1>2, <2>2
    <3> QED BY <1>2, <3>1
  <2>3. n \in Same
    <3> HIDE DEF Same
    <3> QED BY <2>1, <2>2, Induction
  <2> QED BY <2>3
<1> DEFINE H(n) == CHOOSE h \in [0 .. n -> D] : Upto(h, n)
           f == [n \in Nat |-> H(n)[n]]
<1>3. \A n \in Nat : H(n) \in [0 .. n -> D] /\ Upto(H(n), n)
  <2> SUFFICES ASSUME NEW n \in Nat
               PROVE  H(n) \in [0 .. n -> D] /\ Upto(H(n), n)
    OBVIOUS
  <2>1. \E h \in [0 .. n -> D] : Upto(h, n)
    BY <1>1
  <2> HIDE DEF Upto
  <2> QED BY <2>1
<1> HIDE DEF H
<1>4. f \in [Nat -> D]
  <2>1. \A n \in Nat : H(n) \in [0 .. n -> D] /\ n \in 0 .. n
    BY <1>3
  <2> QED BY <2>1
<1>5. f[0] = start
  BY <1>3
<1>6. ASSUME NEW i \in Nat PROVE f[i + 1] = step[f[i]]
  <2>0. i \in Nat /\ i + 1 \in Nat /\ i \in 0 .. (i + 1) - 1
    OBVIOUS
  <2>1. H(i + 1)[i + 1] = step[H(i + 1)[i]]
    <3>1. Upto(H(i + 1), i + 1)
      BY <1>3, <2>0
    <3> QED BY <2>0, <3>1
  <2>2. H(i)[i] = H(i + 1)[i]
    <3>1. /\ H(i) \in [0 .. i -> D] /\ Upto(H(i), i)
          /\ H(i + 1) \in [0 .. i + 1 -> D] /\ Upto(H(i + 1), i + 1)
      <4> HIDE DEF Upto
      <4> QED BY <1>3, <2>0
    <3> HIDE DEF Upto
    <3> QED BY <1>2, <2>0, <3>1
  <2> QED BY <2>1, <2>2
<1> HIDE DEF f
<1> QED BY <1>4, <1>5, <1>6
(* The same with the function spaces named.                                 *)
Maps(E) == [E -> E]
Iterates(f, E, z, g) ==
  f \in [Nat -> E] /\ f[0] = z /\ \A i \in Nat : f[i + 1] = g[f[i]]

LEMMA Iterated ==
  ASSUME NEW E, NEW z \in E, NEW g \in Maps(E)
  PROVE  \E f : Iterates(f, E, z, g)
BY IterationExists DEF Iterates, Maps

(* ... and so does folding a sequence of functions.                         *)
Folded(u, N, E, z, g) ==
  /\ u \in [0 .. N -> E]
  /\ u = [n \in 0 .. N |-> IF n = 0 THEN z ELSE g[n][u[n - 1]]]

LEMMA FoldExists ==
  ASSUME NEW D, NEW N \in Nat, NEW start \in D, NEW step \in [1 .. N -> Maps(D)]
  PROVE  \E u : Folded(u, N, D, start, step)
<1> DEFINE P == Nat \X D
           first == << 0, start >>
           apply == [p \in P |-> << p[1] + 1, IF p[1] + 1 \in 1 .. N
                                              THEN step[p[1] + 1][p[2]] ELSE p[2] >>]
<1>1. apply \in Maps(P)
  <2>1. ASSUME NEW p \in P
        PROVE  << p[1] + 1, IF p[1] + 1 \in 1 .. N THEN step[p[1] + 1][p[2]] ELSE p[2] >> \in P
    <3>1. p[1] \in Nat /\ p[2] \in D
      OBVIOUS
    <3>2. p[1] + 1 \in 1 .. N => step[p[1] + 1] \in [D -> D]
      BY DEF Maps
    <3>3. p[1] + 1 \in 1 .. N => step[p[1] + 1][p[2]] \in D
      BY <3>1, <3>2
    <3> QED BY <3>1, <3>3
  <2> QED BY <2>1 DEF Maps
<1>2. first \in P
  OBVIOUS
<1>3. \E f : Iterates(f, P, first, apply)
  <2> HIDE DEF P, first, apply
  <2> QED BY <1>1, <1>2, Iterated
<1>4. PICK f \in [Nat -> P] : f[0] = first /\ \A i \in Nat : f[i + 1] = apply[f[i]]
  BY <1>3 DEF Iterates
<1>5. ASSUME NEW i \in Nat
      PROVE  /\ f[i + 1][1] = f[i][1] + 1
             /\ f[i][1] + 1 \in 1 .. N => f[i + 1][2] = step[f[i][1] + 1][f[i][2]]
  <2>1. f[i] \in P /\ f[i + 1] = apply[f[i]]
    BY <1>4
  <2> QED BY <2>1
<1>6. \A i \in Nat : f[i][1] = i
  <2> DEFINE S == {i \in Nat : f[i][1] = i}
  <2>1. 0 \in S
    BY <1>4
  <2>2. ASSUME NEW i \in Nat, i \in S PROVE i + 1 \in S
    <3>1. f[i][1] = i
      BY <2>2
    <3>2. f[i + 1][1] = f[i][1] + 1
      BY <1>5
    <3> QED BY <3>1, <3>2
  <2>3. \A i \in Nat : i \in S
    <3> HIDE DEF S
    <3> QED BY <2>1, <2>2, Induction
  <2> QED BY <2>3
<1> DEFINE u == [n \in 0 .. N |-> f[n][2]]
<1>7. u \in [0 .. N -> D]
  <2>1. \A n \in 0 .. N : n \in Nat
    OBVIOUS
  <2>2. \A n \in Nat : f[n] \in P
    OBVIOUS
  <2>3. \A n \in Nat : f[n][2] \in D
    BY <2>2
  <2> QED BY <2>1, <2>3
<1>8. ASSUME NEW n \in 0 .. N
      PROVE  u[n] = IF n = 0 THEN start ELSE step[n][u[n - 1]]
  <2>1. CASE n = 0
    BY <1>4, <2>1
  <2>2. CASE n # 0
    <3> DEFINE m == n - 1
    <3>1. m \in Nat /\ m \in 0 .. N /\ m + 1 = n /\ n \in 1 .. N
      BY <2>2
    <3>2. u[n] = f[n][2] /\ u[m] = f[m][2]
      BY <3>1
    <3> HIDE DEF m, u
    <3>3. f[m + 1][2] = step[m + 1][f[m][2]]
      <4>1. f[m][1] = m
        BY <1>6, <3>1
      <4>2. f[m][1] + 1 \in 1 .. N => f[m + 1][2] = step[f[m][1] + 1][f[m][2]]
        BY <1>5, <3>1
      <4> QED BY <3>1, <4>1, <4>2
    <3>4. u[n] = step[n][u[m]]
      BY <3>1, <3>2, <3>3
    <3> QED BY <2>2, <3>4 DEF m
  <2> QED BY <2>1, <2>2
<1>9. u = [n \in 0 .. N |-> IF n = 0 THEN start ELSE step[n][u[n - 1]]]
  BY <1>8
<1> HIDE DEF u
<1> QED BY <1>7, <1>9 DEF Folded

(* Products with a variable factor: the measures count rounds and frames.   *)
LEMMA Distribute ==
  ASSUME NEW k \in Nat, NEW n \in Nat
  PROVE  n * k \in Nat /\ (n + 1) * k = n * k + k
OBVIOUS
=============================================================================
