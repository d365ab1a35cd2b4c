--------------------------- MODULE DashboardProofs ---------------------------
(***************************************************************************)
(* Theorems about Dashboard for any devices, tabs and sockets, any cap and *)
(* any number of polls.                                                    *)
(*                                                                         *)
(* The lists of the dashboard are filtered while others walk them, so the  *)
(* proofs rest on what a filter does to a sequence. Those lemmas are       *)
(* proved by induction on the part of the sequence that has been filtered. *)
(***************************************************************************)
EXTENDS Dashboard, FiniteSetTheorems, SequenceTheorems, TLAPS

-----------------------------------------------------------------------------
(* Induction. A set with every next number has every number.               *)
LEMMA LeastElement ==
  ASSUME NEW T \in SUBSET Nat, T # {}
  PROVE  \E x \in T : \A y \in T : x <= y
<1> DEFINE R == OpToRel(<, Nat)
<1>1. IsWellFoundedOn(R, Nat)
  BY NatLessThanWellFounded
<1>2. \A x, y \in T : y < x => <<y, x>> \in R
  BY DEF OpToRel
<1> HIDE DEF R
<1>3. PICK x \in T : \A y \in T : ~(<<y, x>> \in R)
  BY <1>1, WFMin
<1>4. \A y \in T : ~(y < x)
  BY <1>2, <1>3
<1> QED
  BY <1>4

LEMMA UpTo ==
  ASSUME NEW n \in Nat, NEW S, 0 \in S, \A i \in 0 .. n - 1 : i \in S => i + 1 \in S
  PROVE  0 .. n \subseteq S
<1> SUFFICES ASSUME NEW k \in 0 .. n, k \notin S
             PROVE  FALSE
  OBVIOUS
<1> DEFINE T == {i \in 0 .. n : i \notin S}
<1>1. T \in SUBSET Nat /\ k \in T
  OBVIOUS
<1>2. PICK x \in T : \A y \in T : x <= y
  <2> HIDE DEF T
  <2> QED
    BY <1>1, LeastElement
<1>3. x \in 1 .. n /\ x - 1 \notin T
  BY <1>2
<1>4. x - 1 \in 0 .. n - 1 /\ x - 1 \in S /\ (x - 1) + 1 = x
  BY <1>3
<1> QED
  BY <1>2, <1>4

-----------------------------------------------------------------------------
(* Kept does what its definition says, one element at a time.              *)
LEMMA KeptSteps ==
  ASSUME NEW T, NEW q \in Seq(T), NEW S
  PROVE  /\ Kept(q, S)[0] = <<>>
         /\ \A n \in 1 .. Len(q) :
              /\ q[n] \in S => Kept(q, S)[n] = Kept(q, S)[n - 1]
              /\ q[n] \notin S => Kept(q, S)[n] = Append(Kept(q, S)[n - 1], q[n])
<1> DEFINE L == Len(q)
           Turn(g, n) == IF n = 0 THEN <<>>
                         ELSE IF q[n] \in S THEN g[n - 1] ELSE Append(g[n - 1], q[n])
           Good == {m \in 0 .. L : \E g \in [0 .. m -> Seq(T)] :
                                      \A n \in 0 .. m : g[n] = Turn(g, n)}
<1>0. L \in Nat
  OBVIOUS
<1>1. 0 \in Good
  <2> DEFINE g == [n \in 0 .. 0 |-> <<>>]
  <2>1. g \in [0 .. 0 -> Seq(T)] /\ \A n \in 0 .. 0 : g[n] = Turn(g, n)
    OBVIOUS
  <2> HIDE DEF g, Turn
  <2> QED
    BY <1>0, <2>1
<1>2. ASSUME NEW m \in 0 .. L - 1, m \in Good
      PROVE  m + 1 \in Good
  <2>1. PICK g \in [0 .. m -> Seq(T)] : \A n \in 0 .. m : g[n] = Turn(g, n)
    BY <1>2
  <2> DEFINE h == [n \in 0 .. m + 1 |-> IF n = m + 1 THEN Turn(g, n) ELSE g[n]]
  <2>2. m + 1 \in 1 .. L /\ q[m + 1] \in T /\ g[m] \in Seq(T) /\ (m + 1) - 1 = m
    BY ElementOfSeq
  <2>3. Turn(g, m + 1) \in Seq(T)
    BY <2>2
  <2>4. h \in [0 .. m + 1 -> Seq(T)]
    <3> HIDE DEF Turn
    <3> QED
      BY <2>3
  <2>5. ASSUME NEW n \in 0 .. m + 1
        PROVE  h[n] = Turn(h, n)
    <3>1. n # 0 => n - 1 \in 0 .. m /\ n - 1 # m + 1 /\ h[n - 1] = g[n - 1]
      OBVIOUS
    <3>2. Turn(h, n) = Turn(g, n)
      <4> HIDE DEF h
      <4> QED
        BY <3>1
    <3>3. h[n] = Turn(g, n)
      <4> HIDE DEF Turn
      <4> QED
        BY <2>1
    <3> QED
      BY <3>2, <3>3
  <2>6. m + 1 \in 0 .. L
    BY <2>2
  <2> HIDE DEF h, Turn
  <2> QED
    BY <2>4, <2>5, <2>6
<1>3. L \in Good
  <2> HIDE DEF Good, L, Turn
  <2>1. \A m \in 0 .. L - 1 : m \in Good => m + 1 \in Good
    BY <1>2
  <2>2. 0 .. L \subseteq Good
    BY <1>0, <1>1, <2>1, UpTo
  <2> QED
    BY <1>0, <2>2
<1>4. PICK g \in [0 .. L -> Seq(T)] : \A n \in 0 .. L : g[n] = Turn(g, n)
  BY <1>3
<1> DEFINE Is(k) == k = [n \in 0 .. L |-> Turn(k, n)]
<1>5. Is(g)
  <2> HIDE DEF Turn
  <2> QED
    BY <1>4
<1>6. Kept(q, S) = CHOOSE k : Is(k)
  BY DEF Kept
<1>7. Is(Kept(q, S))
  <2> HIDE DEF Is
  <2> QED
    BY <1>5, <1>6
<1>8. \A n \in 0 .. L : Kept(q, S)[n] = Turn(Kept(q, S), n)
  <2> HIDE DEF Turn
  <2> QED
    BY <1>7
<1>9. 0 \in 0 .. L /\ \A n \in 1 .. L : n \in 0 .. L /\ n # 0
  BY <1>0
<1> HIDE DEF L
<1>10. Kept(q, S)[0] = <<>>
  BY <1>8, <1>9
<1>11. ASSUME NEW n \in 1 .. L
       PROVE  Kept(q, S)[n] = IF q[n] \in S THEN Kept(q, S)[n - 1]
                              ELSE Append(Kept(q, S)[n - 1], q[n])
  BY <1>8, <1>9
<1> QED
  BY <1>10, <1>11 DEF L
(* A sequence with one element more.                                       *)
LEMMA AppendShape ==
  ASSUME NEW T, NEW s \in Seq(T), NEW e \in T
  PROVE  /\ Append(s, e) \in Seq(T) /\ Len(Append(s, e)) = Len(s) + 1
         /\ \A i \in 1 .. Len(s) : Append(s, e)[i] = s[i]
         /\ Append(s, e)[Len(s) + 1] = e
         /\ Range(Append(s, e)) = Range(s) \union {e}
<1>1. /\ Append(s, e) \in Seq(T) /\ Len(Append(s, e)) = Len(s) + 1
      /\ \A i \in 1 .. Len(s) : Append(s, e)[i] = s[i]
      /\ Append(s, e)[Len(s) + 1] = e
  BY AppendProperties
<1>2. Len(s) \in Nat /\ 1 .. Len(s) + 1 = (1 .. Len(s)) \union {Len(s) + 1}
  OBVIOUS
<1>3. /\ Range(Append(s, e)) = {Append(s, e)[i] : i \in 1 .. Len(s) + 1}
      /\ Range(s) = {s[i] : i \in 1 .. Len(s)}
  BY <1>1, RangeEquality
<1> QED
  BY <1>1, <1>2, <1>3

(* The same with what it means for the length, the places and the range.   *)
LEMMA KeptStarts ==
  ASSUME NEW T, NEW q \in Seq(T), NEW S
  PROVE  Kept(q, S)[0] \in Seq(T) /\ Len(Kept(q, S)[0]) = 0 /\ Range(Kept(q, S)[0]) = {}
<1>1. Kept(q, S)[0] = <<>> /\ <<>> \in Seq(T) /\ Len(<<>>) = 0
  BY KeptSteps
<1>2. Range(<<>>) = {}
  BY DEF Range
<1> QED
  BY <1>1, <1>2, Zenon

LEMMA KeptGrows ==
  ASSUME NEW T, NEW q \in Seq(T), NEW S, NEW n \in 0 .. Len(q) - 1,
         Kept(q, S)[n] \in Seq(T)
  PROVE  LET old == Kept(q, S)[n]
             new == Kept(q, S)[n + 1]
         IN  /\ q[n + 1] \in S => new = old
             /\ q[n + 1] \notin S =>
                  /\ new \in Seq(T) /\ Len(new) = Len(old) + 1
                  /\ \A i \in 1 .. Len(old) : new[i] = old[i]
                  /\ new[Len(old) + 1] = q[n + 1]
<1> DEFINE old == Kept(q, S)[n]
           new == Kept(q, S)[n + 1]
           e == q[n + 1]
<1>1. n + 1 \in 1 .. Len(q) /\ (n + 1) - 1 = n /\ e \in T /\ old \in Seq(T)
  BY ElementOfSeq
<1>2. (e \in S => new = old) /\ (e \notin S => new = Append(old, e))
  BY <1>1, KeptSteps
<1> HIDE DEF old, new, e
<1>3. /\ Append(old, e) \in Seq(T) /\ Len(Append(old, e)) = Len(old) + 1
      /\ \A i \in 1 .. Len(old) : Append(old, e)[i] = old[i]
      /\ Append(old, e)[Len(old) + 1] = e
  <2>1. ASSUME NEW s \in Seq(T), NEW x \in T
        PROVE  /\ Append(s, x) \in Seq(T) /\ Len(Append(s, x)) = Len(s) + 1
               /\ \A i \in 1 .. Len(s) : Append(s, x)[i] = s[i]
               /\ Append(s, x)[Len(s) + 1] = x
    BY AppendShape
  <2> QED
    BY <1>1, <2>1, Zenon
<1>4. /\ e \in S => new = old
      /\ e \notin S => /\ new \in Seq(T) /\ Len(new) = Len(old) + 1
                       /\ \A i \in 1 .. Len(old) : new[i] = old[i]
                       /\ new[Len(old) + 1] = e
  BY <1>2, <1>3, Zenon
<1> QED
  BY <1>4, Zenon DEF old, new, e

LEMMA KeptRange ==
  ASSUME NEW T, NEW q \in Seq(T), NEW S, NEW n \in 0 .. Len(q) - 1,
         Kept(q, S)[n] \in Seq(T), q[n + 1] \notin S, NEW x
  PROVE  x \in Range(Kept(q, S)[n + 1]) <=> x \in Range(Kept(q, S)[n]) \/ x = q[n + 1]
<1>1. /\ n + 1 \in 1 .. Len(q) /\ (n + 1) - 1 = n /\ q[n + 1] \in T
      /\ Kept(q, S)[n + 1] = Append(Kept(q, S)[n], q[n + 1])
  BY ElementOfSeq, KeptSteps
<1>2. ASSUME NEW s \in Seq(T), NEW e \in T
      PROVE  Range(Append(s, e)) = Range(s) \union {e}
  BY AppendShape
<1>3. Range(Kept(q, S)[n + 1]) = Range(Kept(q, S)[n]) \union {q[n + 1]}
  BY <1>1, <1>2, Zenon
<1> QED
  BY <1>3

(* What is left of the first n elements is those of them outside S.        *)
LEMMA KeptSets ==
  ASSUME NEW T, NEW q \in Seq(T), NEW S
  PROVE  \A k \in 0 .. Len(q) :
           /\ Kept(q, S)[k] \in Seq(T) /\ Len(Kept(q, S)[k]) <= k
           /\ \A x : x \in Range(Kept(q, S)[k]) <=> x \notin S /\ \E i \in 1 .. k : x = q[i]
<1> DEFINE K == Kept(q, S)
           First(n) == {q[i] : i \in 1 .. n}
           Good == {n \in 0 .. Len(q) : /\ K[n] \in Seq(T) /\ Len(K[n]) <= n
                                        /\ Range(K[n]) = First(n) \ S}
<1>0. Len(q) \in Nat
  OBVIOUS
<1>1. 0 \in Good
  <2>1. K[0] \in Seq(T) /\ Len(K[0]) = 0 /\ Range(K[0]) = {}
    BY KeptStarts
  <2>2. First(0) = {}
    OBVIOUS
  <2> HIDE DEF K, First
  <2> QED
    BY <1>0, <2>1, <2>2
<1>2. ASSUME NEW n \in 0 .. Len(q) - 1, n \in Good
      PROVE  n + 1 \in Good
  <2>1. n + 1 \in 0 .. Len(q) /\ K[n] \in Seq(T)
    BY <1>2
  <2>2. /\ q[n + 1] \in S => K[n + 1] = K[n]
        /\ q[n + 1] \notin S => /\ K[n + 1] \in Seq(T) /\ Len(K[n + 1]) = Len(K[n]) + 1
    BY <2>1, KeptGrows
  <2>7. q[n + 1] \notin S => Range(K[n + 1]) = Range(K[n]) \union {q[n + 1]}
    BY <2>1, KeptRange
  <2>3. First(n + 1) = First(n) \union {q[n + 1]}
    <3>1. 1 .. n + 1 = (1 .. n) \union {n + 1}
      OBVIOUS
    <3> QED
      BY <3>1
  <2> HIDE DEF K, First
  <2>4. K[n] \in Seq(T) /\ Len(K[n]) <= n /\ Range(K[n]) = First(n) \ S
    BY <1>2
  <2> QED
    BY <2>1, <2>2, <2>3, <2>4, <2>7
<1>3. 0 .. Len(q) \subseteq Good
  <2> HIDE DEF Good
  <2>1. \A n \in 0 .. Len(q) - 1 : n \in Good => n + 1 \in Good
    BY <1>2
  <2> QED
    BY <1>0, <1>1, <2>1, UpTo
<1> QED
  BY <1>3

LEMMA KeptElements ==
  ASSUME NEW T, NEW q \in Seq(T), NEW S, NEW k \in 0 .. Len(q), NEW x
  PROVE  /\ Kept(q, S)[k] \in Seq(T) /\ Len(Kept(q, S)[k]) <= k
         /\ x \in Range(Kept(q, S)[k]) <=> x \notin S /\ \E i \in 1 .. k : x = q[i]
<1>1. \A n \in 0 .. Len(q) :
        /\ Kept(q, S)[n] \in Seq(T) /\ Len(Kept(q, S)[n]) <= n
        /\ \A y : y \in Range(Kept(q, S)[n]) <=> y \notin S /\ \E i \in 1 .. n : y = q[i]
  BY KeptSets
<1> QED
  BY <1>1, Zenon

(* Filtering on only adds at the end: what was kept of the first m         *)
(* elements stands first in what is kept in the end.                       *)
LEMMA KeptFirst ==
  ASSUME NEW T, NEW q \in Seq(T), NEW S, NEW m \in 0 .. Len(q)
  PROVE  /\ Len(Kept(q, S)[m]) <= Len(Without(q, S))
         /\ \A i \in 1 .. Len(Kept(q, S)[m]) : Without(q, S)[i] = Kept(q, S)[m][i]
<1> DEFINE K == Kept(q, S)
           Starts(s) == /\ Len(K[m]) <= Len(s)
                        /\ \A i \in 1 .. Len(K[m]) : s[i] = K[m][i]
           Good == {k \in 0 .. Len(q) - m : Starts(K[m + k])}
<1>0. Len(q) \in Nat /\ Len(q) - m \in Nat /\ m + 0 = m /\ m \in Nat
  OBVIOUS
<1>1. Len(K[m]) \in Nat
  BY KeptElements
<1>2. 0 \in Good
  <2> HIDE DEF K
  <2> QED
    BY <1>0, <1>1
<1>3. ASSUME NEW k \in 0 .. Len(q) - m - 1, k \in Good
      PROVE  k + 1 \in Good
  <2> DEFINE n == m + k
  <2>1. n \in 0 .. Len(q) - 1 /\ n + 1 = m + (k + 1) /\ k + 1 \in 0 .. Len(q) - m
    BY <1>0
  <2>2. K[n] \in Seq(T) /\ Len(K[n]) \in Nat
    BY <2>1, KeptElements
  <2>3. /\ q[n + 1] \in S => K[n + 1] = K[n]
        /\ q[n + 1] \notin S => /\ Len(K[n + 1]) = Len(K[n]) + 1
                                /\ \A i \in 1 .. Len(K[n]) : K[n + 1][i] = K[n][i]
    BY <2>1, <2>2, KeptGrows
  <2>4. Starts(K[n])
    BY <1>3
  <2> HIDE DEF K, n
  <2>5. \A i \in 1 .. Len(K[m]) : i \in 1 .. Len(K[n])
    BY <1>1, <2>2, <2>4
  <2>6. q[n + 1] \notin S => Starts(K[n + 1])
    BY <1>1, <2>2, <2>3, <2>4, <2>5
  <2>7. Starts(K[n + 1])
    BY <2>3, <2>4, <2>6
  <2> QED
    BY <2>1, <2>7
<1>4. Len(q) - m \in Good
  <2> HIDE DEF Good
  <2>1. \A k \in 0 .. (Len(q) - m) - 1 : k \in Good => k + 1 \in Good
    BY <1>3
  <2>2. 0 .. Len(q) - m \subseteq Good
    BY <1>0, <1>2, <2>1, UpTo
  <2> QED
    BY <1>0, <2>2
<1>5. m + (Len(q) - m) = Len(q)
  BY <1>0
<1> QED
  BY <1>4, <1>5 DEF Without

(* Elements keep their order: each one left was further back before.       *)
LEMMA KeptPlaces ==
  ASSUME NEW T, NEW q \in Seq(T), NEW S
  PROVE  \E f \in [1 .. Len(Without(q, S)) -> 1 .. Len(q)] :
           /\ \A i \in 1 .. Len(Without(q, S)) : Without(q, S)[i] = q[f[i]]
           /\ \A i, j \in 1 .. Len(Without(q, S)) : i < j => f[i] < f[j]
<1> DEFINE K == Kept(q, S)
           Places(f, n) == /\ \A i \in 1 .. Len(K[n]) : K[n][i] = q[f[i]]
                           /\ \A i, j \in 1 .. Len(K[n]) : i < j => f[i] < f[j]
           Good == {n \in 0 .. Len(q) :
                      \E f \in [1 .. Len(K[n]) -> 1 .. n] : Places(f, n)}
<1>0. Len(q) \in Nat
  OBVIOUS
<1>1. 0 \in Good
  <2>1. Len(K[0]) = 0 /\ 1 .. 0 = {}
    BY KeptStarts
  <2> DEFINE f == [i \in {} |-> 0]
  <2>2. f \in [1 .. Len(K[0]) -> 1 .. 0]
    <3> HIDE DEF K
    <3> QED
      BY <2>1
  <2>3. Places(f, 0)
    <3> HIDE DEF K, f
    <3> QED
      BY <2>1
  <2> HIDE DEF K, f, Places
  <2> QED
    BY <1>0, <2>2, <2>3
<1>2. ASSUME NEW n \in 0 .. Len(q) - 1, n \in Good
      PROVE  n + 1 \in Good
  <2>1. n \in 0 .. Len(q) /\ n + 1 \in 0 .. Len(q)
    OBVIOUS
  <2>3. K[n] \in Seq(T) /\ Len(K[n]) \in Nat
    BY <2>1, KeptElements
  <2>2. /\ q[n + 1] \in S => K[n + 1] = K[n]
        /\ q[n + 1] \notin S => /\ Len(K[n + 1]) = Len(K[n]) + 1
                                /\ \A i \in 1 .. Len(K[n]) : K[n + 1][i] = K[n][i]
                                /\ K[n + 1][Len(K[n]) + 1] = q[n + 1]
    BY <2>3, KeptGrows
  <2> HIDE DEF K
  <2>4. PICK f \in [1 .. Len(K[n]) -> 1 .. n] : Places(f, n)
    BY <1>2
  <2>5. CASE q[n + 1] \in S
    <3>1. f \in [1 .. Len(K[n + 1]) -> 1 .. n + 1] /\ Places(f, n + 1)
      BY <2>1, <2>2, <2>3, <2>4, <2>5
    <3> QED
      BY <2>1, <3>1
  <2>6. CASE q[n + 1] \notin S
    <3> DEFINE l == Len(K[n])
               g == [i \in 1 .. l + 1 |-> IF i = l + 1 THEN n + 1 ELSE f[i]]
    <3>1. /\ Len(K[n + 1]) = l + 1 /\ K[n + 1][l + 1] = q[n + 1]
          /\ \A i \in 1 .. l : K[n + 1][i] = K[n][i]
      BY <2>2, <2>6
    <3>2. \A i \in 1 .. l : f[i] \in 1 .. n /\ i # l + 1 /\ i \in 1 .. l + 1
      <4> HIDE DEF Places
      <4> QED
        BY <2>3, <2>4
    <3>3. \A i \in 1 .. l + 1 : i = l + 1 \/ i \in 1 .. l
      BY <2>3
    <3>4. /\ g[l + 1] = n + 1 /\ \A i \in 1 .. l : g[i] = f[i]
          /\ g \in [1 .. l + 1 -> 1 .. n + 1]
      BY <2>1, <2>3, <3>2, <3>3
    <3> HIDE DEF g
    <3>5. \A i \in 1 .. l + 1 : K[n + 1][i] = q[g[i]]
      BY <2>4, <3>1, <3>3, <3>4
    <3>6. ASSUME NEW i \in 1 .. l + 1, NEW j \in 1 .. l + 1, i < j
          PROVE  g[i] < g[j]
      <4>1. i \in 1 .. l
        BY <2>3, <3>6
      <4>2. CASE j \in 1 .. l
        BY <2>4, <3>4, <3>6, <4>1, <4>2
      <4>3. CASE j = l + 1
        <5>1. f[i] \in 1 .. n
          BY <3>2, <4>1
        <5> QED
          BY <3>4, <4>1, <4>3, <5>1
      <4> QED
        BY <3>3, <4>2, <4>3
    <3>7. g \in [1 .. Len(K[n + 1]) -> 1 .. n + 1] /\ Places(g, n + 1)
      BY <3>1, <3>4, <3>5, <3>6
    <3> HIDE DEF Places
    <3> QED
      BY <2>1, <3>7
  <2> QED
    BY <2>5, <2>6
<1>3. Len(q) \in Good
  <2> HIDE DEF Good
  <2>1. \A n \in 0 .. Len(q) - 1 : n \in Good => n + 1 \in Good
    BY <1>2
  <2>2. 0 .. Len(q) \subseteq Good
    BY <1>0, <1>1, <2>1, UpTo
  <2> QED
    BY <1>0, <2>2
<1> QED
  BY <1>3 DEF Without

(* Of a list without duplicates, as many of the first n elements are gone  *)
(* as there are of them in S.                                              *)
LEMMA KeptCount ==
  ASSUME NEW T, IsFiniteSet(T), NEW q \in Seq(T), IsInjective(q), NEW S
  PROVE  \A n \in 0 .. Len(q) :
           n - Len(Kept(q, S)[n]) = Cardinality(S \intersect {q[i] : i \in 1 .. n})
<1> DEFINE K == Kept(q, S)
           Out(n) == S \intersect {q[i] : i \in 1 .. n}
           Good == {n \in 0 .. Len(q) : n - Len(K[n]) = Cardinality(Out(n))}
<1>0. Len(q) \in Nat
  OBVIOUS
<1>1. 0 \in Good
  <2>1. Len(K[0]) = 0
    BY KeptStarts
  <2>2. Out(0) = {}
    OBVIOUS
  <2>3. Cardinality(Out(0)) = 0
    BY <2>2, FS_EmptySet
  <2> HIDE DEF K, Out
  <2> QED
    BY <1>0, <2>1, <2>3
<1>2. ASSUME NEW n \in 0 .. Len(q) - 1, n \in Good
      PROVE  n + 1 \in Good
  <2>1. /\ n + 1 \in 1 .. Len(q) /\ (n + 1) - 1 = n /\ q[n + 1] \in T
        /\ n \in 0 .. Len(q) /\ n + 1 \in 0 .. Len(q)
    BY ElementOfSeq
  <2>2. K[n] \in Seq(T) /\ Len(K[n]) \in Nat
    BY <2>1, KeptElements
  <2>3. /\ q[n + 1] \in S => K[n + 1] = K[n]
        /\ q[n + 1] \notin S => Len(K[n + 1]) = Len(K[n]) + 1
    BY <2>2, KeptGrows
  <2>4. 1 .. n + 1 = (1 .. n) \union {n + 1}
    OBVIOUS
  <2>5. \A i \in 1 .. n : i \in 1 .. Len(q) /\ i # n + 1
    OBVIOUS
  <2>6. DOMAIN q = 1 .. Len(q) /\ \A i \in 1 .. Len(q) : q[i] \in T
    BY ElementOfSeq
  <2>7. Out(n) \subseteq T /\ q[n + 1] \notin Out(n)
    BY <2>1, <2>5, <2>6 DEF IsInjective
  <2>8. /\ q[n + 1] \in S => Out(n + 1) = Out(n) \union {q[n + 1]}
        /\ q[n + 1] \notin S => Out(n + 1) = Out(n)
    BY <2>4
  <2> HIDE DEF K, Out
  <2>9. IsFiniteSet(Out(n)) /\ Cardinality(Out(n)) \in Nat
    BY <2>7, FS_Subset, FS_CardinalityType
  <2>10. n - Len(K[n]) = Cardinality(Out(n))
    BY <1>2
  <2>11. CASE q[n + 1] \in S
    <3>1. Cardinality(Out(n + 1)) = Cardinality(Out(n)) + 1
      BY <2>7, <2>8, <2>9, <2>11, FS_AddElement
    <3> QED
      BY <2>1, <2>2, <2>3, <2>9, <2>10, <2>11, <3>1
  <2>12. CASE q[n + 1] \notin S
    BY <2>1, <2>2, <2>3, <2>8, <2>9, <2>10, <2>12
  <2> QED
    BY <2>11, <2>12
<1>3. 0 .. Len(q) \subseteq Good
  <2> HIDE DEF Good
  <2>1. \A n \in 0 .. Len(q) - 1 : n \in Good => n + 1 \in Good
    BY <1>2
  <2> QED
    BY <1>0, <1>1, <2>1, UpTo
<1> QED
  BY <1>3
-----------------------------------------------------------------------------
(* What a filter makes of a whole sequence.                                *)
LEMMA WithoutShape ==
  ASSUME NEW T, NEW q \in Seq(T), NEW S
  PROVE  /\ Without(q, S) \in Seq(T) /\ Len(Without(q, S)) <= Len(q)
         /\ Range(Without(q, S)) = Range(q) \ S
<1>1. Len(q) \in 0 .. Len(q) /\ Range(q) = {q[i] : i \in 1 .. Len(q)}
  BY RangeEquality
<1>2. Without(q, S) \in Seq(T) /\ Len(Without(q, S)) <= Len(q)
  BY <1>1, KeptElements DEF Without
<1>3. ASSUME NEW x
      PROVE  x \in Range(Without(q, S)) <=> x \notin S /\ \E i \in 1 .. Len(q) : x = q[i]
  BY <1>1, KeptElements DEF Without
<1> QED
  BY <1>1, <1>2, <1>3

(* It brings no element twice that was there once.                         *)
LEMMA WithoutDistinct ==
  ASSUME NEW T, NEW q \in Seq(T), NEW S, IsInjective(q)
  PROVE  IsInjective(Without(q, S))
<1>1. PICK f \in [1 .. Len(Without(q, S)) -> 1 .. Len(q)] :
        /\ \A i \in 1 .. Len(Without(q, S)) : Without(q, S)[i] = q[f[i]]
        /\ \A i, j \in 1 .. Len(Without(q, S)) : i < j => f[i] < f[j]
  BY KeptPlaces
<1>2. Without(q, S) \in Seq(T)
  BY WithoutShape
<1> DEFINE w == Without(q, S)
<1>3. DOMAIN w = 1 .. Len(w) /\ Len(w) \in Nat /\ DOMAIN q = 1 .. Len(q)
  BY <1>2
<1> HIDE DEF w
<1>4. ASSUME NEW i \in 1 .. Len(w), NEW j \in 1 .. Len(w), i < j
      PROVE  w[i] # w[j]
  <2>1. f[i] \in 1 .. Len(q) /\ f[j] \in 1 .. Len(q) /\ f[i] < f[j]
    BY <1>1, <1>4 DEF w
  <2>2. w[i] = q[f[i]] /\ w[j] = q[f[j]]
    BY <1>1 DEF w
  <2>3. f[i] # f[j]
    BY <2>1
  <2> QED
    BY <1>3, <2>1, <2>2, <2>3 DEF IsInjective
<1>5. \A i, j \in 1 .. Len(w) : i # j => i < j \/ j < i
  BY <1>3
<1>6. \A i, j \in DOMAIN w : w[i] = w[j] => i = j
  BY <1>3, <1>4, <1>5
<1> QED
  BY <1>6 DEF w, IsInjective

(* A sequence without duplicates is no longer than its elements are many,  *)
(* so the bound of the types is none.                                      *)
LEMMA DistinctBounded ==
  ASSUME NEW T, IsFiniteSet(T), NEW q
  PROVE  q \in {r \in BoundedSeq(T, Cardinality(T)) : IsInjective(r)}
         <=> q \in Seq(T) /\ IsInjective(q)
<1>1. Cardinality(T) \in Nat
  BY FS_CardinalityType
<1>2. ASSUME q \in BoundedSeq(T, Cardinality(T))
      PROVE  q \in Seq(T)
  <2>1. PICK m \in 0 .. Cardinality(T) : q \in [1 .. m -> T]
    BY <1>2 DEF BoundedSeq, SeqOf
  <2> QED
    BY <1>1, <2>1, SeqDef
<1>3. ASSUME q \in Seq(T), IsInjective(q)
      PROVE  q \in BoundedSeq(T, Cardinality(T))
  <2>1. q \in [1 .. Len(q) -> T] /\ Len(q) \in Nat
    BY <1>3
  <2>2. q \in Injection(1 .. Len(q), T)
    BY <1>3, <2>1 DEF Injection
  <2>3. Cardinality(1 .. Len(q)) <= Cardinality(T)
    BY <2>2, FS_Injection
  <2>4. Cardinality(1 .. Len(q)) = Len(q)
    <3>1. Cardinality(1 .. Len(q)) = IF 1 > Len(q) THEN 0 ELSE Len(q) - 1 + 1
      BY <2>1, FS_Interval
    <3> QED
      BY <2>1, <3>1
  <2>5. Len(q) \in 0 .. Cardinality(T)
    BY <1>1, <2>1, <2>3, <2>4
  <2> QED
    BY <2>1, <2>5 DEF BoundedSeq, SeqOf
<1> QED
  BY <1>2, <1>3

(* What enters a list it is not in leaves it without duplicates.           *)
LEMMA AppendDistinct ==
  ASSUME NEW T, NEW q \in Seq(T), IsInjective(q), NEW e \in T, e \notin Range(q)
  PROVE  Append(q, e) \in Seq(T) /\ IsInjective(Append(q, e))
<1> DEFINE w == Append(q, e)
<1>1. /\ w \in Seq(T) /\ Len(w) = Len(q) + 1 /\ w[Len(q) + 1] = e
      /\ \A i \in 1 .. Len(q) : w[i] = q[i]
  BY AppendShape
<1>2. /\ DOMAIN w = 1 .. Len(q) + 1 /\ DOMAIN q = 1 .. Len(q) /\ Len(q) \in Nat
      /\ \A i \in 1 .. Len(q) + 1 : i \in 1 .. Len(q) \/ i = Len(q) + 1
  BY <1>1
<1>3. \A i \in 1 .. Len(q) : q[i] # e
  BY <1>2 DEF Range
<1> HIDE DEF w
<1>4. \A i, j \in DOMAIN w : w[i] = w[j] => i = j
  BY <1>1, <1>2, <1>3 DEF IsInjective
<1> QED
  BY <1>1, <1>4 DEF IsInjective, w

(* Both for the queue of requests.                                         *)
LEMMA QueueChanges ==
  ASSUME NEW q \in Queues
  PROVE  /\ \A S : Without(q, S) \in Queues
         /\ \A d \in Devices : Queued(q, d) \in Queues
<1>1. IsFiniteSet(Devices)
  BY DashboardAssumption
<1>2. \A r : r \in Queues <=> r \in Seq(Devices) /\ IsInjective(r)
  BY <1>1, DistinctBounded DEF Queues
<1>3. ASSUME NEW S
      PROVE  Without(q, S) \in Queues
  BY <1>2, WithoutShape, WithoutDistinct
<1>4. ASSUME NEW d \in Devices
      PROVE  Queued(q, d) \in Queues
  BY <1>2, AppendDistinct DEF Queued
<1> QED
  BY <1>3, <1>4

(* And for the list of sockets.                                            *)
SocketLists == {q \in BoundedSeq(Sockets, Cardinality(Sockets)) : IsInjective(q)}

LEMMA SocketListChanges ==
  ASSUME NEW q \in SocketLists
  PROVE  /\ \A S : Without(q, S) \in SocketLists
         /\ \A s \in Sockets : s \notin Range(q) => Append(q, s) \in SocketLists
<1>1. IsFiniteSet(Sockets)
  BY DashboardAssumption
<1>2. \A r : r \in SocketLists <=> r \in Seq(Sockets) /\ IsInjective(r)
  BY <1>1, DistinctBounded DEF SocketLists
<1>3. ASSUME NEW S
      PROVE  Without(q, S) \in SocketLists
  BY <1>2, WithoutShape, WithoutDistinct
<1>4. ASSUME NEW s \in Sockets, s \notin Range(q)
      PROVE  Append(q, s) \in SocketLists
  BY <1>2, <1>4, AppendDistinct
<1> QED
  BY <1>3, <1>4

LEMMA SocketListShape ==
  ASSUME NEW q \in SocketLists
  PROVE  /\ q \in Seq(Sockets) /\ IsInjective(q)
         /\ Len(q) \in Nat /\ Len(q) <= Cardinality(Sockets)
         /\ Cardinality(Sockets) \in Nat /\ IsFiniteSet(Sockets)
<1>1. IsFiniteSet(Sockets) /\ Cardinality(Sockets) \in Nat
  BY DashboardAssumption, FS_CardinalityType
<1>2. q \in Seq(Sockets) /\ IsInjective(q)
  BY <1>1, DistinctBounded DEF SocketLists
<1>3. PICK m \in 0 .. Cardinality(Sockets) : q \in [1 .. m -> Sockets]
  BY DEF SocketLists, BoundedSeq, SeqOf
<1>4. Len(q) = m
  BY <1>1, <1>2, <1>3
<1> QED
  BY <1>1, <1>2, <1>3, <1>4
-----------------------------------------------------------------------------
(* The list of a tab: entries, no two of the same device.                  *)
DevicesOf(l) == [i \in DOMAIN l |-> l[i].device]

Cards(l) == l \in Seq(Entry) /\ IsInjective(DevicesOf(l))

(* No two places of a list hold the same device.                           *)
LEMMA CardsApart ==
  ASSUME NEW l \in Seq(Entry)
  PROVE  /\ Cards(l) <=> \A i, j \in 1 .. Len(l) : l[i].device = l[j].device => i = j
         /\ DevicesOf(l) \in Seq(Devices) /\ Len(DevicesOf(l)) = Len(l)
         /\ \A i \in 1 .. Len(l) : l[i] \in Entry /\ DevicesOf(l)[i] = l[i].device
<1>1. DOMAIN l = 1 .. Len(l) /\ Len(l) \in Nat /\ \A i \in 1 .. Len(l) : l[i] \in Entry
  BY ElementOfSeq
<1>2. \A e \in Entry : e.device \in Devices
  BY DEF Entry
<1>3. DevicesOf(l) \in [1 .. Len(l) -> Devices]
  BY <1>1, <1>2 DEF DevicesOf
<1>4. DevicesOf(l) \in Seq(Devices) /\ Len(DevicesOf(l)) = Len(l)
  BY <1>1, <1>3
<1>5. \A i \in 1 .. Len(l) : DevicesOf(l)[i] = l[i].device
  BY <1>1 DEF DevicesOf
<1>6. DOMAIN DevicesOf(l) = 1 .. Len(l)
  BY <1>3
<1> QED
  BY <1>1, <1>4, <1>5, <1>6 DEF Cards, IsInjective

LEMMA CardsBounded ==
  ASSUME NEW l
  PROVE  Cards(l) <=> /\ l \in BoundedSeq(Entry, Cardinality(Devices))
                      /\ IsInjective(DevicesOf(l))
<1>1. IsFiniteSet(Devices) /\ Cardinality(Devices) \in Nat
  BY DashboardAssumption, FS_CardinalityType
<1>2. ASSUME l \in BoundedSeq(Entry, Cardinality(Devices))
      PROVE  l \in Seq(Entry)
  <2>1. PICK m \in 0 .. Cardinality(Devices) : l \in [1 .. m -> Entry]
    BY <1>2 DEF BoundedSeq, SeqOf
  <2> QED
    BY <1>1, <2>1, SeqDef
<1>3. ASSUME Cards(l)
      PROVE  l \in BoundedSeq(Entry, Cardinality(Devices))
  <2>1. l \in Seq(Entry) /\ l \in [1 .. Len(l) -> Entry] /\ Len(l) \in Nat
    BY <1>3 DEF Cards
  <2>2. /\ DevicesOf(l) \in Seq(Devices) /\ IsInjective(DevicesOf(l))
        /\ Len(DevicesOf(l)) = Len(l)
    BY <1>3, <2>1, CardsApart DEF Cards
  <2>3. DevicesOf(l) \in BoundedSeq(Devices, Cardinality(Devices))
    BY <1>1, <2>2, DistinctBounded
  <2>4. PICK m \in 0 .. Cardinality(Devices) : DevicesOf(l) \in [1 .. m -> Devices]
    BY <2>3 DEF BoundedSeq, SeqOf
  <2>5. Len(l) = m
    BY <1>1, <2>2, <2>4
  <2> QED
    BY <2>1, <2>5 DEF BoundedSeq, SeqOf
<1> QED
  BY <1>2, <1>3 DEF Cards

(* What the reducer does to such a list leaves such a list.                *)
LEMMA CardsWithout ==
  ASSUME NEW l, Cards(l), NEW S
  PROVE  Cards(Without(l, S))
<1>0. l \in Seq(Entry)
  BY DEF Cards
<1>1. PICK f \in [1 .. Len(Without(l, S)) -> 1 .. Len(l)] :
        /\ \A i \in 1 .. Len(Without(l, S)) : Without(l, S)[i] = l[f[i]]
        /\ \A i, j \in 1 .. Len(Without(l, S)) : i < j => f[i] < f[j]
  BY <1>0, KeptPlaces
<1> DEFINE w == Without(l, S)
<1>2. w \in Seq(Entry) /\ Len(w) \in Nat
  BY <1>0, WithoutShape
<1> HIDE DEF w
<1>3. ASSUME NEW i \in 1 .. Len(w), NEW j \in 1 .. Len(w), i < j
      PROVE  w[i].device # w[j].device
  <2>1. f[i] \in 1 .. Len(l) /\ f[j] \in 1 .. Len(l) /\ f[i] < f[j]
    BY <1>1, <1>3 DEF w
  <2>2. w[i] = l[f[i]] /\ w[j] = l[f[j]]
    BY <1>1 DEF w
  <2>3. f[i] # f[j]
    BY <2>1
  <2>4. \A m, n \in 1 .. Len(l) : l[m].device = l[n].device => m = n
    BY <1>0, CardsApart
  <2> QED
    BY <2>1, <2>2, <2>3, <2>4
<1>4. \A i, j \in 1 .. Len(w) : i # j => i < j \/ j < i
  BY <1>2
<1>5. \A i, j \in 1 .. Len(w) : w[i].device = w[j].device => i = j
  BY <1>3, <1>4
<1> QED
  BY <1>2, <1>5, CardsApart DEF w

LEMMA CardsAdd ==
  ASSUME NEW l, Cards(l), NEW d \in Devices, d \notin Range(DevicesOf(l))
  PROVE  Cards(<<[device |-> d, fresh |-> TRUE]>> \o l)
<1> DEFINE e == [device |-> d, fresh |-> TRUE]
           w == <<e>> \o l
<1>1. e \in Entry /\ e.device = d
  BY DEF Entry
<1>2. l \in Seq(Entry) /\ Len(l) \in Nat
  BY DEF Cards
<1> HIDE DEF e
<1>3. /\ w \in Seq(Entry) /\ Len(w) = Len(l) + 1 /\ w[1] = e
      /\ \A i \in 2 .. Len(l) + 1 : w[i] = l[i - 1]
  BY <1>1, <1>2
<1> HIDE DEF w
<1>4. \A i \in 1 .. Len(l) : l[i].device # d
  <2>1. /\ DOMAIN DevicesOf(l) = 1 .. Len(l)
        /\ \A i \in 1 .. Len(l) : DevicesOf(l)[i] = l[i].device
    BY <1>2, CardsApart
  <2> QED
    BY <2>1 DEF Range
<1>5. \A i, j \in 1 .. Len(l) : l[i].device = l[j].device => i = j
  BY <1>2, CardsApart
<1>6. \A i \in 1 .. Len(w) : i = 1 \/ (i \in 2 .. Len(l) + 1 /\ i - 1 \in 1 .. Len(l))
  BY <1>2, <1>3
<1>7. ASSUME NEW i \in 1 .. Len(w), NEW j \in 1 .. Len(w), w[i].device = w[j].device
      PROVE  i = j
  <2>1. CASE i = 1 /\ j = 1
    BY <2>1
  <2>2. CASE i = 1 /\ j # 1
    BY <1>1, <1>3, <1>4, <1>6, <1>7, <2>2
  <2>3. CASE i # 1 /\ j = 1
    BY <1>1, <1>3, <1>4, <1>6, <1>7, <2>3
  <2>4. CASE i # 1 /\ j # 1
    <3>1. i - 1 = j - 1
      BY <1>3, <1>5, <1>6, <1>7, <2>4
    <3> QED
      BY <1>2, <1>3, <3>1
  <2> QED
    BY <2>1, <2>2, <2>3, <2>4
<1> QED
  BY <1>3, <1>7, CardsApart DEF w, e

LEMMA CardsOfQueue ==
  ASSUME NEW q \in Queues
  PROVE  Cards([i \in DOMAIN q |-> [device |-> q[i], fresh |-> TRUE]])
<1> DEFINE w == [i \in DOMAIN q |-> [device |-> q[i], fresh |-> TRUE]]
<1>1. q \in Seq(Devices) /\ IsInjective(q)
  BY DashboardAssumption, DistinctBounded DEF Queues
<1>2. DOMAIN q = 1 .. Len(q) /\ Len(q) \in Nat /\ \A i \in 1 .. Len(q) : q[i] \in Devices
  BY <1>1, ElementOfSeq
<1>3. \A i \in 1 .. Len(q) : w[i] \in Entry /\ w[i].device = q[i]
  BY <1>2 DEF Entry
<1>4. w \in [1 .. Len(q) -> Entry]
  BY <1>2 DEF Entry
<1> HIDE DEF w
<1>5. w \in Seq(Entry) /\ Len(w) = Len(q)
  BY <1>2, <1>4
<1>6. \A i, j \in 1 .. Len(w) : w[i].device = w[j].device => i = j
  BY <1>1, <1>2, <1>3, <1>5 DEF IsInjective
<1> QED
  BY <1>5, <1>6, CardsApart DEF w

LEMMA CardsStale ==
  ASSUME NEW l, Cards(l), NEW k \in DOMAIN l
  PROVE  Cards([l EXCEPT ![k].fresh = FALSE])
<1> DEFINE w == [l EXCEPT ![k].fresh = FALSE]
<1>1. /\ l \in Seq(Entry) /\ DOMAIN l = 1 .. Len(l) /\ Len(l) \in Nat
      /\ \A i \in 1 .. Len(l) : l[i] \in Entry
  BY ElementOfSeq DEF Cards
<1>2. /\ [l[k] EXCEPT !.fresh = FALSE] \in Entry
      /\ [l[k] EXCEPT !.fresh = FALSE].device = l[k].device
  BY <1>1 DEF Entry
<1>3. /\ w \in [1 .. Len(l) -> Entry]
      /\ \A i \in 1 .. Len(l) : w[i].device = l[i].device
  BY <1>1, <1>2
<1> HIDE DEF w
<1>4. w \in Seq(Entry) /\ Len(w) = Len(l)
  BY <1>1, <1>3
<1>5. \A i, j \in 1 .. Len(w) : w[i].device = w[j].device => i = j
  BY <1>1, <1>3, <1>4, CardsApart
<1> QED
  BY <1>4, <1>5, CardsApart DEF w
-----------------------------------------------------------------------------
(* A tab's state: of its type, with the list as above.                     *)
TabOK(tb) == tb \in Tab /\ Cards(tb.list)

LEMMA TabShape ==
  ASSUME NEW tb, TabOK(tb)
  PROVE  /\ tb.dismissed \in SUBSET Devices /\ tb.acting \in SUBSET Devices
         /\ tb.loading \in Devices \union {NoDevice}
         /\ tb.list \in Seq(Entry) /\ Cards(tb.list)
         /\ tb = [list |-> tb.list, dismissed |-> tb.dismissed,
                  loading |-> tb.loading, acting |-> tb.acting]
  BY DEF TabOK, Tab, Cards

LEMMA TabMade ==
  ASSUME NEW l, Cards(l), NEW D \in SUBSET Devices, NEW A \in SUBSET Devices,
         NEW b \in Devices \union {NoDevice}
  PROVE  TabOK([list |-> l, dismissed |-> D, loading |-> b, acting |-> A])
<1>1. l \in BoundedSeq(Entry, Cardinality(Devices))
  BY CardsBounded
<1> QED
  BY <1>1 DEF TabOK, Tab

(* The render after a change keeps it, and the card shown is a device's.   *)
LEMMA TabRendered ==
  ASSUME NEW tb, TabOK(tb)
  PROVE  TabOK(Rendered(tb))
<1>1. [tb EXCEPT !.loading = NoDevice]
        = [list |-> tb.list, dismissed |-> tb.dismissed,
           loading |-> NoDevice, acting |-> tb.acting]
  BY TabShape
<1>2. TabOK([list |-> tb.list, dismissed |-> tb.dismissed,
              loading |-> NoDevice, acting |-> tb.acting])
  <2>1. /\ Cards(tb.list) /\ tb.dismissed \in SUBSET Devices
        /\ tb.acting \in SUBSET Devices /\ NoDevice \in Devices \union {NoDevice}
    BY TabShape
  <2> QED
    BY <2>1, TabMade
<1> QED
  BY <1>1, <1>2 DEF Rendered

LEMMA CardShown ==
  ASSUME NEW tb, TabOK(tb), Visible(tb) # <<>>
  PROVE  Head(Visible(tb)).device \in Devices
<1>1. Visible(tb) \in Seq(Entry)
  BY TabShape, WithoutShape DEF Visible
<1>2. Head(Visible(tb)) \in Entry
  BY <1>1, HeadTailProperties
<1> QED
  BY <1>2 DEF Entry

-----------------------------------------------------------------------------
(* The push tasks.                                                         *)
LEMMA MinOfTwo ==
  ASSUME NEW a \in Nat, NEW b \in Nat
  PROVE  Min({a, b}) = IF a <= b THEN a ELSE b
<1> DEFINE m == IF a <= b THEN a ELSE b
           Least(x) == x \in {a, b} /\ \A y \in {a, b} : x <= y
<1>1. Least(m) /\ \A x : Least(x) => x = m
  OBVIOUS
<1>2. Min({a, b}) = CHOOSE x : Least(x)
  BY DEF Min
<1> HIDE DEF Least, m
<1>3. Min({a, b}) = m
  BY <1>1, <1>2
<1> QED
  BY <1>3 DEF m

(* Entries taken out of the list move the push as the bookkeeping says.    *)
LEMMA ShiftedShape ==
  ASSUME NEW p \in Push, NEW S, sockets \in SocketLists
  PROVE  /\ Shifted(p, S) \in Push
         /\ Shifted(p, S).on = p.on /\ Shifted(p, S).index = p.index
         /\ Shifted(p, S).dead = p.dead
         /\ Cardinality(S \intersect Range(sockets)) \in Nat
         /\ p.on => LET n == p.shifts + Cardinality(S \intersect Range(sockets))
                    IN  /\ Shifted(p, S).untried = p.untried \ S
                        /\ Shifted(p, S).shifts = IF n <= Cardinality(Sockets) THEN n
                                                  ELSE Cardinality(Sockets)
<1> DEFINE k == Cardinality(S \intersect Range(sockets))
           c == Cardinality(Sockets)
           m == Min({p.shifts + k, c})
<1>1. sockets \in Seq(Sockets) /\ IsFiniteSet(Sockets) /\ c \in Nat
  BY SocketListShape
<1>2. Range(sockets) \subseteq Sockets
  BY <1>1, RangeOfSeq
<1>3. k \in Nat
  <2>1. S \intersect Range(sockets) \in SUBSET Sockets
    BY <1>2
  <2> QED
    BY <1>1, <2>1, FS_Subset, FS_CardinalityType
<1>4. p.shifts \in Nat
  BY DEF Push
<1>5. m = IF p.shifts + k <= c THEN p.shifts + k ELSE c
  <2> HIDE DEF k, c
  <2>1. p.shifts + k \in Nat
    BY <1>3, <1>4
  <2> QED
    BY <1>1, <2>1, MinOfTwo
<1>6. m \in 0 .. c
  BY <1>1, <1>3, <1>4, <1>5
<1>7. p.on => Shifted(p, S) = [p EXCEPT !.untried = p.untried \ S, !.shifts = m]
  BY DEF Shifted
<1>8. ~p.on => Shifted(p, S) = p
  BY DEF Shifted
<1> HIDE DEF m, k
<1>9. LET r == [p EXCEPT !.untried = p.untried \ S, !.shifts = m]
      IN  /\ r \in Push /\ r.on = p.on /\ r.index = p.index /\ r.dead = p.dead
          /\ r.untried = p.untried \ S /\ r.shifts = m
  BY <1>6 DEF Push
<1>10. CASE p.on
  <2>1. /\ Shifted(p, S) \in Push
        /\ Shifted(p, S).on = p.on /\ Shifted(p, S).index = p.index
        /\ Shifted(p, S).dead = p.dead
        /\ Shifted(p, S).untried = p.untried \ S /\ Shifted(p, S).shifts = m
    BY <1>7, <1>9, <1>10, Zenon
  <2> QED
    BY <1>3, <1>5, <2>1 DEF k
<1>11. CASE ~p.on
  BY <1>3, <1>8, <1>11 DEF k
<1> QED
  BY <1>10, <1>11
-----------------------------------------------------------------------------
(* TypeOK in the terms of the lemmas above.                                *)
TabsOK == tab \in [Tabs -> Tab] /\ \A t \in Tabs : TabOK(tab[t])

Shapes ==
    /\ pending \in Queues
    /\ sockets \in SocketLists
    /\ handler \in [Sockets -> Stages]
    /\ push \in [Devices -> Push]
    /\ conn \in [Tabs -> Sockets \union {NoSocket}]
    /\ TabsOK
    /\ asked \in [Tabs -> 0 .. MaxPolls]
    /\ answers \in [Tabs -> SUBSET Queues]

(* So that the polls under way can be counted.                             *)
AnswersFinite == \A t \in Tabs : IsFiniteSet(answers[t])

LEMMA ShapesAreTypes == TypeOK <=> Shapes
<1>1. \A tb \in Tab : tb.list \in BoundedSeq(Entry, Cardinality(Devices))
  BY DEF Tab
<1>2. \A tb \in Tab : Cards(tb.list) <=> IsInjective(DevicesOf(tb.list))
  BY <1>1, CardsBounded
<1>3. TabsOK <=> /\ tab \in [Tabs -> Tab]
                 /\ \A t \in Tabs : IsInjective([i \in DOMAIN tab[t].list |-> tab[t].list[i].device])
  BY <1>2 DEF TabsOK, TabOK, DevicesOf
<1> QED
  BY <1>3, Zenon DEF TypeOK, Shapes, SocketLists

(* What becomes of one tab.                                                *)
LEMMA TabChanges ==
  ASSUME NEW tb, TabOK(tb), NEW l, Cards(l), NEW D \in SUBSET Devices,
         NEW A \in SUBSET Devices, NEW b \in Devices \union {NoDevice}
  PROVE  /\ TabOK([tb EXCEPT !.list = l])
         /\ TabOK([tb EXCEPT !.dismissed = D])
         /\ TabOK([tb EXCEPT !.loading = b, !.acting = A])
         /\ TabOK([tb EXCEPT !.acting = A, !.loading = b, !.list = l, !.dismissed = D])
<1>1. /\ tb \in Tab /\ Cards(tb.list) /\ l \in BoundedSeq(Entry, Cardinality(Devices))
  BY CardsBounded DEF TabOK
<1>2. [tb EXCEPT !.list = l] \in Tab /\ [tb EXCEPT !.list = l].list = l
  BY <1>1 DEF Tab
<1>3. [tb EXCEPT !.dismissed = D] \in Tab /\ [tb EXCEPT !.dismissed = D].list = tb.list
  BY <1>1 DEF Tab
<1>4. /\ [tb EXCEPT !.loading = b, !.acting = A] \in Tab
      /\ [tb EXCEPT !.loading = b, !.acting = A].list = tb.list
  <2>1. [tb EXCEPT !.loading = b, !.acting = A] \in Tab
    BY <1>1, Zenon DEF Tab
  <2>2. [tb EXCEPT !.loading = b, !.acting = A].list = tb.list
    BY <1>1 DEF Tab
  <2> QED
    BY <2>1, <2>2
<1>5. LET r == [tb EXCEPT !.acting = A, !.loading = b, !.list = l, !.dismissed = D]
      IN  r \in Tab /\ r.list = l
  <2> DEFINE r == [tb EXCEPT !.acting = A, !.loading = b, !.list = l, !.dismissed = D]
  <2>1. r \in Tab
    BY <1>1, Zenon DEF Tab
  <2>2. r.list = l
    BY <1>1 DEF Tab
  <2> QED
    BY <2>1, <2>2
<1> QED
  BY <1>1, <1>2, <1>3, <1>4, <1>5 DEF TabOK

(* A step that moves one tab, and the event of a push, which moves those   *)
(* tabs that have the socket open.                                         *)
LEMMA OneTabMoves ==
  ASSUME TabsOK, NEW t \in Tabs, NEW tb, TabOK(tb), tab' = [tab EXCEPT ![t] = tb]
  PROVE  TabsOK'
<1>1. tb \in Tab
  BY DEF TabOK
<1> QED
  BY <1>1 DEF TabsOK

LEMMA EventMoves ==
  ASSUME TabsOK, NEW s, NEW d \in Devices, AddPending(s, d)
  PROVE  TabsOK'
<1>1. ASSUME NEW t \in Tabs
      PROVE  TabOK(tab'[t])
  <2> DEFINE tb == tab[t]
             l == <<[device |-> d, fresh |-> TRUE]>> \o tb.list
  <2>1. TabOK(tb) /\ Cards(tb.list)
    BY DEF TabsOK, TabOK
  <2>2. Listed(t) = DevicesOf(tb.list)
    BY DEF Listed, DevicesOf
  <2>3. tab'[t] = IF conn[t] = s /\ d \notin Range(Listed(t))
                  THEN [tb EXCEPT !.list = l] ELSE tb
    BY DEF AddPending
  <2>4. d \notin Range(Listed(t)) => Cards(l)
    BY <2>1, <2>2, CardsAdd
  <2> HIDE DEF tb, l
  <2>5. Cards(l) => TabOK([tb EXCEPT !.list = l])
    <3>1. {} \in SUBSET Devices /\ NoDevice \in Devices \union {NoDevice}
      OBVIOUS
    <3> QED
      BY <2>1, <3>1, TabChanges
  <2> QED
    BY <2>1, <2>3, <2>4, <2>5, Zenon
<1>2. tab' = [t \in Tabs |-> tab'[t]]
  BY DEF AddPending
<1>3. \A t \in Tabs : tab'[t] \in Tab
  BY <1>1 DEF TabOK
<1>4. tab' \in [Tabs -> Tab]
  BY <1>2, <1>3
<1> QED
  BY <1>1, <1>4 DEF TabsOK
-----------------------------------------------------------------------------
(* Each action keeps the types.                                            *)
LEMMA QueueStepsShape ==
  ASSUME Shapes, NEW d \in Devices, Hello(d) \/ TrustedHello(d) \/ Leaves(d)
  PROVE  Shapes'
<1>1. \A q \in Queues : Queued(q, d) \in Queues /\ Without(q, {d}) \in Queues
  BY QueueChanges
<1>2. UNCHANGED <<sockets, handler, conn, tab, asked, answers>> /\ pending' \in Queues
  BY <1>1 DEF Shapes, Hello, TrustedHello, Leaves
<1>3. push' \in [Devices -> Push]
  <2>1. CASE Hello(d)
    <3>1. Range(sockets) \in SUBSET Sockets
      BY SocketListShape, RangeOfSeq DEF Shapes
    <3>2. [NoPush EXCEPT !.on = TRUE, !.untried = Range(sockets)] \in Push
      <4>1. NoPush \in Push
        BY SocketListShape DEF NoPush, Push, Shapes
      <4> QED
        BY <3>1, <4>1, Zenon DEF Push
    <3> QED
      BY <2>1, <3>2 DEF Hello, Shapes
  <2>2. CASE TrustedHello(d) \/ Leaves(d)
    BY <2>2 DEF TrustedHello, Leaves, Shapes
  <2> QED
    BY <2>1, <2>2
<1> QED
  BY <1>2, <1>3 DEF Shapes, TabsOK

LEMMA PushStepsShape ==
  ASSUME Shapes, NEW d \in Devices, PushSend(d) \/ PushEnd(d)
  PROVE  Shapes'
<1>0. /\ Len(sockets) \in Nat /\ Len(sockets) <= Cardinality(Sockets)
      /\ Cardinality(Sockets) \in Nat /\ sockets \in Seq(Sockets)
  BY SocketListShape DEF Shapes
<1>1. CASE PushSend(d)
  <2> DEFINE s == sockets[push[d].index + 1]
             p == push[d]
             r == [p EXCEPT !.index = p.index + 1,
                            !.dead = IF Up(s) THEN p.dead ELSE p.dead \union {s},
                            !.untried = p.untried \ {s}]
  <2>1. p \in Push
    BY DEF Shapes
  <2>2. p.index \in Nat /\ p.index + 1 \in 1 .. Len(sockets)
    BY <1>0, <1>1, <2>1 DEF PushSend, Push
  <2>3. s \in Sockets
    BY <1>0, <2>2, ElementOfSeq
  <2>4. /\ p.index + 1 \in 0 .. Cardinality(Sockets)
        /\ (IF Up(s) THEN p.dead ELSE p.dead \union {s}) \in SUBSET Sockets
        /\ p.untried \ {s} \in SUBSET Sockets
    BY <1>0, <2>1, <2>2, <2>3 DEF Push
  <2>5. r \in Push
    <3> HIDE DEF s, p
    <3> QED
      BY <2>1, <2>4, Zenon DEF Push
  <2>6. push' = [push EXCEPT ![d] = r]
    BY <1>1 DEF PushSend, Shapes
  <2>7. push' \in [Devices -> Push]
    <3> HIDE DEF r
    <3> QED
      BY <2>5, <2>6 DEF Shapes
  <2>8. TabsOK'
    <3>1. AddPending(s, d)
      BY <1>1 DEF PushSend
    <3> HIDE DEF s
    <3> QED
      BY <3>1, EventMoves DEF Shapes
  <2>9. UNCHANGED <<pending, sockets, handler, conn, asked, answers>>
    BY <1>1 DEF PushSend
  <2> QED
    BY <2>7, <2>8, <2>9 DEF Shapes
<1>2. CASE PushEnd(d)
  <2>1. sockets' \in SocketLists
    BY <1>2, SocketListChanges DEF PushEnd, Shapes
  <2>2. \A e \in Devices : Shifted(push[e], push[d].dead) \in Push
    BY ShiftedShape DEF Shapes
  <2>3. NoPush \in Push
    BY <1>0 DEF NoPush, Push
  <2>4. push' \in [Devices -> Push]
    BY <1>2, <2>2, <2>3 DEF PushEnd
  <2>5. UNCHANGED <<pending, handler, conn, tab, asked, answers>>
    BY <1>2 DEF PushEnd
  <2> QED
    BY <2>1, <2>4, <2>5 DEF Shapes, TabsOK
<1> QED
  BY <1>1, <1>2

LEMMA HandlerStepsShape ==
  ASSUME Shapes, ListedIsServed, NEW s \in Sockets,
         Admit(s) \/ Refuse(s) \/ Accept(s) \/ AcceptRaises(s) \/ LoopEnds(s)
  PROVE  Shapes'
<1>1. UNCHANGED <<pending, tab, asked, answers>>
  BY DEF Admit, Refuse, Accept, AcceptRaises, LoopEnds
<1>2. handler' \in [Sockets -> Stages]
  BY DEF Admit, Refuse, Accept, AcceptRaises, LoopEnds, Ends, Stages, Shapes
<1>3. conn' \in [Tabs -> Sockets \union {NoSocket}]
  <2>1. [t \in Tabs |-> IF conn[t] = s THEN NoSocket ELSE conn[t]]
          \in [Tabs -> Sockets \union {NoSocket}]
    BY DEF Shapes
  <2> QED
    BY <2>1 DEF Admit, Refuse, Accept, AcceptRaises, LoopEnds, Ends, Shapes
<1>4. sockets' \in SocketLists
  <2>1. CASE Accept(s)
    <3>1. s \notin Range(sockets)
      BY <2>1 DEF Accept, ListedIsServed
    <3> QED
      BY <2>1, <3>1, SocketListChanges DEF Accept, Shapes
  <2>2. CASE LoopEnds(s)
    BY <2>2, SocketListChanges DEF LoopEnds, Unlist, Shapes
  <2>3. CASE Admit(s) \/ Refuse(s) \/ AcceptRaises(s)
    BY <2>3 DEF Admit, Refuse, AcceptRaises, Shapes
  <2> QED
    BY <2>1, <2>2, <2>3
<1>5. push' \in [Devices -> Push]
  <2>1. \A d \in Devices : Shifted(push[d], {s}) \in Push
    BY ShiftedShape DEF Shapes
  <2>2. [d \in Devices |-> Shifted(push[d], {s})] \in [Devices -> Push]
    BY <2>1
  <2> QED
    BY <2>2 DEF Admit, Refuse, Accept, AcceptRaises, LoopEnds, Unlist, Shapes
<1> QED
  BY <1>1, <1>2, <1>3, <1>4, <1>5 DEF Shapes, TabsOK

(* A poll under way takes a place, whether the server has answered it yet. *)
LEMMA ConnectionStepsShape ==
  ASSUME Shapes, AnswersFinite, NEW t \in Tabs,
         Connect(t) \/ LinkLost(t) \/ Poll(t) \/ AnswerPoll(t)
  PROVE  Shapes'
<1>1. UNCHANGED <<pending, sockets, push, tab>>
  BY DEF Connect, LinkLost, Poll, AnswerPoll
<1>2. handler' \in [Sockets -> Stages] /\ conn' \in [Tabs -> Sockets \union {NoSocket}]
  BY DEF Connect, LinkLost, Poll, AnswerPoll, Stages, Shapes
<1>3. answers' \in [Tabs -> SUBSET Queues]
  BY DEF Connect, LinkLost, Poll, AnswerPoll, Shapes
<1>4. asked' \in [Tabs -> 0 .. MaxPolls]
  <2>1. asked[t] \in Nat /\ Cardinality(answers[t]) \in Nat /\ MaxPolls \in Nat
    BY FS_CardinalityType, DashboardAssumption DEF Shapes, AnswersFinite
  <2>2. CASE Poll(t)
    <3>1. asked[t] + 1 \in 0 .. MaxPolls
      BY <2>1, <2>2 DEF Poll
    <3> QED
      BY <2>2, <3>1 DEF Poll, Shapes
  <2>3. CASE AnswerPoll(t)
    <3>1. asked[t] - 1 \in 0 .. MaxPolls
      BY <2>1, <2>3 DEF AnswerPoll, Shapes
    <3> QED
      BY <2>3, <3>1 DEF AnswerPoll, Shapes
  <2>4. CASE Connect(t) \/ LinkLost(t)
    BY <2>4 DEF Connect, LinkLost, Shapes
  <2> QED
    BY <2>2, <2>3, <2>4
<1> QED
  BY <1>1, <1>2, <1>3, <1>4 DEF Shapes, TabsOK
LEMMA AnswerStepsShape ==
  ASSUME Shapes, NEW t \in Tabs, NEW q \in answers[t], PollReturns(t, q) \/ PollFails(t, q)
  PROVE  Shapes'
<1>1. UNCHANGED <<pending, sockets, handler, push, conn, asked>>
  BY DEF PollReturns, PollFails
<1>2. answers' \in [Tabs -> SUBSET Queues]
  BY DEF PollReturns, PollFails, Shapes
<1>3. TabsOK'
  <2>1. CASE PollReturns(t, q)
    <3> DEFINE l == [i \in DOMAIN q |-> [device |-> q[i], fresh |-> TRUE]]
               tb == tab[t]
    <3>1. Cards(l)
      BY CardsOfQueue DEF Shapes
    <3>2. TabOK(tb)
      BY DEF Shapes, TabsOK
    <3>3. tab' = [tab EXCEPT ![t] = Rendered([tb EXCEPT !.list = l])]
      BY <2>1 DEF PollReturns, SetPending
    <3> HIDE DEF l, tb
    <3>4. TabOK([tb EXCEPT !.list = l])
      <4>1. {} \in SUBSET Devices /\ NoDevice \in Devices \union {NoDevice}
        OBVIOUS
      <4> QED
        BY <3>1, <3>2, <4>1, TabChanges
    <3>5. TabOK(Rendered([tb EXCEPT !.list = l]))
      BY <3>4, TabRendered
    <3> QED
      BY <3>3, <3>5, OneTabMoves DEF Shapes
  <2>2. CASE PollFails(t, q)
    BY <2>2 DEF PollFails, Shapes, TabsOK
  <2> QED
    BY <2>1, <2>2
<1> QED
  BY <1>1, <1>2, <1>3 DEF Shapes

LEMMA PopupStepsShape ==
  ASSUME Shapes, NEW t \in Tabs,
         CountdownEnds(t) \/ Click(t) \/ Dismiss(t) \/ \E d \in Devices : ActEnds(t, d)
  PROVE  Shapes'
<1> DEFINE tb == tab[t]
<1>0. TabOK(tb) /\ Cards(tb.list)
  BY DEF Shapes, TabsOK, TabOK
<1>1. UNCHANGED <<sockets, handler, push, conn, asked, answers>>
  BY DEF CountdownEnds, Click, Dismiss, ActEnds
<1>2. pending' \in Queues
  BY QueueChanges DEF CountdownEnds, Click, Dismiss, ActEnds, Shapes
<1>3. {} \in SUBSET Devices /\ NoDevice \in Devices \union {NoDevice}
  OBVIOUS
<1>4. ASSUME NEW new, TabOK(new),
             tab' = [tab EXCEPT ![t] = new] \/ tab' = [tab EXCEPT ![t] = Rendered(new)]
      PROVE  TabsOK'
  <2>1. TabOK(Rendered(new))
    BY <1>4, TabRendered
  <2> QED
    BY <1>4, <2>1, OneTabMoves DEF Shapes
<1>5. TabsOK'
  <2>1. CASE CountdownEnds(t)
    <3>1. PICK i \in DOMAIN tb.list :
            tab' = [tab EXCEPT ![t] = Rendered([tb EXCEPT !.list[i].fresh = FALSE])]
      BY <2>1 DEF CountdownEnds
    <3> DEFINE l == [tb.list EXCEPT ![i].fresh = FALSE]
    <3>2. Cards(l)
      BY <1>0, CardsStale
    <3>3. tab' = [tab EXCEPT ![t] = Rendered([tb EXCEPT !.list = l])]
      BY <3>1
    <3> HIDE DEF l, tb
    <3>4. TabOK([tb EXCEPT !.list = l])
      BY <1>0, <1>3, <3>2, TabChanges
    <3> QED
      BY <1>4, <3>3, <3>4
  <2>2. CASE Click(t)
    <3> DEFINE A == tb.acting \union {Card(t)}
               new == [tb EXCEPT !.loading = Card(t), !.acting = A]
    <3>1. Card(t) \in Devices
      BY <1>0, <2>2, CardShown DEF Click, Card
    <3>2. A \in SUBSET Devices
      BY <1>0, <3>1, TabShape
    <3>3. tab' = [tab EXCEPT ![t] = new]
      BY <2>2 DEF Click, Shapes, TabsOK
    <3>4. TabOK(new)
      <4> HIDE DEF A, tb
      <4> QED
        BY <1>0, <1>3, <3>1, <3>2, TabChanges
    <3> HIDE DEF new
    <3> QED
      BY <1>4, <3>3, <3>4
  <2>3. CASE Dismiss(t)
    <3> DEFINE D == tb.dismissed \union {Card(t)}
    <3>1. Card(t) \in Devices
      BY <1>0, <2>3, CardShown DEF Dismiss, Card
    <3>2. D \in SUBSET Devices
      BY <1>0, <3>1, TabShape
    <3>3. tab' = [tab EXCEPT ![t] = Rendered([tb EXCEPT !.dismissed = D])]
      BY <2>3 DEF Dismiss
    <3> HIDE DEF D, tb
    <3>4. TabOK([tb EXCEPT !.dismissed = D])
      BY <1>0, <1>3, <3>2, TabChanges
    <3> QED
      BY <1>4, <3>3, <3>4
  <2>4. ASSUME NEW d \in Devices, ActEnds(t, d)
        PROVE  TabsOK'
    <3> DEFINE l == Without(tb.list, {e \in Entry : e.device = d})
               D == tb.dismissed \union {d}
               A == tb.acting \ {d}
               b == IF tb.loading = d THEN NoDevice ELSE tb.loading
               new == [tb EXCEPT !.acting = A, !.loading = b, !.list = l, !.dismissed = D]
    <3>1. Cards(l)
      BY <1>0, CardsWithout
    <3>2. /\ D \in SUBSET Devices /\ A \in SUBSET Devices
          /\ b \in Devices \union {NoDevice}
      BY <1>0, TabShape
    <3>3. tab' = [tab EXCEPT ![t] = Rendered(new)]
      BY <2>4 DEF ActEnds
    <3>4. TabOK(new)
      <4> HIDE DEF l, D, A, b, tb
      <4> QED
        BY <1>0, <3>1, <3>2, TabChanges
    <3> HIDE DEF new
    <3> QED
      BY <1>4, <3>3, <3>4
  <2> QED
    BY <2>1, <2>2, <2>3, <2>4
<1> QED
  BY <1>1, <1>2, <1>5 DEF Shapes
-----------------------------------------------------------------------------
(* The list of sockets and its handlers. A push takes out only sockets     *)
(* that failed, and those stay down: a new connection gets another id.     *)
DeadAreDown == \A d \in Devices : \A s \in push[d].dead : ~Up(s)

LEMMA Removed ==
  ASSUME NEW q \in SocketLists, NEW S, NEW x
  PROVE  x \in Range(Without(q, S)) <=> x \in Range(q) /\ x \notin S
<1>1. q \in Seq(Sockets)
  BY SocketListShape
<1>2. Range(Without(q, S)) = Range(q) \ S
  BY <1>1, WithoutShape
<1> QED
  BY <1>2

LEMMA Appended ==
  ASSUME NEW q \in SocketLists, NEW s \in Sockets, NEW x
  PROVE  x \in Range(Append(q, s)) <=> x \in Range(q) \/ x = s
<1>1. q \in Seq(Sockets)
  BY SocketListShape
<1>2. Range(Append(q, s)) = Range(q) \union {s}
  BY <1>1, AppendShape
<1> QED
  BY <1>2

(* A connection that ends brings no socket up.                             *)
LEMMA FewerUp ==
  ASSUME conn \in [Tabs -> Sockets \union {NoSocket}], NEW x \in Sockets,
         \/ conn' = conn
         \/ \E t \in Tabs : conn' = [conn EXCEPT ![t] = NoSocket]
         \/ \E s \in Sockets : conn' = [t \in Tabs |-> IF conn[t] = s THEN NoSocket ELSE conn[t]]
  PROVE  Up(x)' => Up(x)
<1>1. x # NoSocket
  BY DashboardAssumption
<1>2. \A u \in Tabs : conn'[u] = conn[u] \/ conn'[u] = NoSocket
  OBVIOUS
<1> QED
  BY <1>1, <1>2 DEF Up

(* Both invariants depend only on the list, the handlers, the sockets that *)
(* are up and those the pushes hold for dead.                              *)
LEMMA ServedByHandlers ==
  ASSUME Shapes, ListedIsServed, DeadAreDown, NEW s \in Sockets,
         Admit(s) \/ Refuse(s) \/ Accept(s) \/ AcceptRaises(s) \/ LoopEnds(s)
  PROVE  ListedIsServed' /\ DeadAreDown'
<1>1. \A x \in Sockets : Up(x)' => Up(x)
  BY FewerUp DEF Shapes, Admit, Refuse, Accept, AcceptRaises, LoopEnds, Ends
<1>2. \A d \in Devices : push'[d].dead = push[d].dead
  <2>1. CASE LoopEnds(s)
    <3>1. \A d \in Devices : Shifted(push[d], {s}).dead = push[d].dead
      BY ShiftedShape DEF Shapes
    <3> QED
      BY <2>1, <3>1 DEF LoopEnds, Unlist
  <2>2. CASE ~LoopEnds(s)
    BY <2>2 DEF Admit, Refuse, Accept, AcceptRaises
  <2> QED
    BY <2>1, <2>2
<1>3. DeadAreDown'
  <2>1. \A d \in Devices : push[d].dead \subseteq Sockets
    BY DEF Shapes, Push
  <2> QED
    BY <1>1, <1>2, <2>1 DEF DeadAreDown
<1>4. ListedIsServed'
  <2>1. CASE Accept(s)
    <3>1. \A x : x \in Range(sockets') <=> x \in Range(sockets) \/ x = s
      BY <2>1, Appended DEF Accept, Shapes
    <3>2. \A x \in Sockets : handler'[x] = IF x = s THEN "loop" ELSE handler[x]
      BY <2>1 DEF Accept, Shapes
    <3> QED
      BY <1>1, <3>1, <3>2 DEF ListedIsServed
  <2>2. CASE LoopEnds(s)
    <3>1. \A x : x \in Range(sockets') <=> x \in Range(sockets) /\ x # s
      BY <2>2, Removed DEF LoopEnds, Unlist, Shapes
    <3>2. \A x \in Sockets : handler'[x] = IF x = s THEN "none" ELSE handler[x]
      BY <2>2 DEF LoopEnds, Ends, Shapes
    <3> QED
      BY <1>1, <3>1, <3>2 DEF ListedIsServed
  <2>3. CASE Admit(s) \/ Refuse(s) \/ AcceptRaises(s)
    <3>1. sockets' = sockets /\ handler[s] # "loop"
      BY <2>3 DEF Admit, Refuse, AcceptRaises
    <3>2. handler'[s] # "loop" /\ \A x \in Sockets \ {s} : handler'[x] = handler[x]
      BY <2>3 DEF Admit, Refuse, AcceptRaises, Ends, Shapes
    <3> QED
      BY <1>1, <3>1, <3>2 DEF ListedIsServed
  <2> QED
    BY <2>1, <2>2, <2>3
<1> QED
  BY <1>3, <1>4

LEMMA ServedByPushes ==
  ASSUME Shapes, ListedIsServed, DeadAreDown, NEW d \in Devices,
         Hello(d) \/ PushSend(d) \/ PushEnd(d)
  PROVE  ListedIsServed' /\ DeadAreDown'
<1>1. UNCHANGED <<handler, conn>> /\ \A x : Up(x)' <=> Up(x)
  BY DEF Hello, PushSend, PushEnd, Up
<1>2. CASE Hello(d)
  <2>1. sockets' = sockets /\ \A e \in Devices : push'[e].dead = IF e = d THEN {} ELSE push[e].dead
    BY <1>2 DEF Hello, Shapes, NoPush
  <2> QED
    BY <1>1, <2>1 DEF ListedIsServed, DeadAreDown
<1>3. CASE PushSend(d)
  <2> DEFINE s == sockets[push[d].index + 1]
  <2>1. push'[d].dead = IF Up(s) THEN push[d].dead ELSE push[d].dead \union {s}
    BY <1>3 DEF PushSend, Shapes, Push
  <2>2. sockets' = sockets /\ \A e \in Devices \ {d} : push'[e].dead = push[e].dead
    BY <1>3 DEF PushSend, Shapes
  <2>3. \A x \in push'[d].dead : ~Up(x)
    BY <2>1 DEF DeadAreDown
  <2> HIDE DEF s
  <2> QED
    BY <1>1, <2>2, <2>3 DEF ListedIsServed, DeadAreDown
<1>4. CASE PushEnd(d)
  <2>1. \A e \in Devices : push'[e].dead = IF e = d THEN {} ELSE push[e].dead
    <3>1. \A e \in Devices : Shifted(push[e], push[d].dead).dead = push[e].dead
      BY ShiftedShape DEF Shapes
    <3>2. NoPush.dead = {}
      BY DEF NoPush
    <3> QED
      BY <1>4, <3>1, <3>2 DEF PushEnd
  <2>2. DeadAreDown'
    BY <1>1, <2>1 DEF DeadAreDown
  <2>3. \A x : x \in Range(sockets') <=> x \in Range(sockets) /\ x \notin push[d].dead
    BY <1>4, Removed DEF PushEnd, Shapes
  <2>4. ListedIsServed'
    BY <1>1, <2>3 DEF ListedIsServed, DeadAreDown
  <2> QED
    BY <2>2, <2>4
<1> QED
  BY <1>2, <1>3, <1>4

LEMMA ServedByTabs ==
  ASSUME Shapes, ListedIsServed, DeadAreDown, NEW t \in Tabs, Connect(t) \/ LinkLost(t)
  PROVE  ListedIsServed' /\ DeadAreDown'
<1>1. UNCHANGED <<sockets, push>>
  BY DEF Connect, LinkLost
<1>2. CASE LinkLost(t)
  <2>1. handler' = handler /\ \A x \in Sockets : Up(x)' => Up(x)
    BY <1>2, FewerUp DEF LinkLost, Shapes
  <2>2. \A d \in Devices : push[d].dead \subseteq Sockets
    BY DEF Shapes, Push
  <2> QED
    BY <1>1, <2>1, <2>2 DEF ListedIsServed, DeadAreDown
<1>3. CASE Connect(t)
  <2>1. PICK s \in Sockets :
          /\ handler[s] = "none" /\ \A d \in Devices : s \notin push[d].dead
          /\ conn' = [conn EXCEPT ![t] = s]
          /\ handler' = [handler EXCEPT ![s] = "asked"]
    BY <1>3 DEF Connect
  <2>2. \A x : Up(x)' => Up(x) \/ x = s
    BY <2>1 DEF Up, Shapes
  <2>3. \A x \in Sockets : handler'[x] = IF x = s THEN "asked" ELSE handler[x]
    BY <2>1 DEF Shapes
  <2>4. ListedIsServed'
    BY <1>1, <2>1, <2>2, <2>3 DEF ListedIsServed
  <2>5. DeadAreDown'
    BY <1>1, <2>1, <2>2 DEF DeadAreDown
  <2> QED
    BY <2>4, <2>5
<1> QED
  BY <1>2, <1>3
-----------------------------------------------------------------------------
(* Pushes over a list that changes. Of the sockets U, those the index n    *)
(* has passed in the list q.                                               *)
Passed(q, n, U) == {s \in U : \E i \in 1 .. Len(q) : i <= n /\ q[i] = s}

(* Elements of a list between two places are at most as many as places.    *)
LEMMA Between ==
  ASSUME NEW q, NEW m \in Nat, NEW n \in Nat, m <= n
  PROVE  LET E == {q[i] : i \in m + 1 .. n}
         IN  IsFiniteSet(E) /\ Cardinality(E) <= n - m
<1> DEFINE J == m + 1 .. n
           E == {q[i] : i \in J}
           f == [i \in J |-> q[i]]
<1>1. IsFiniteSet(J) /\ Cardinality(J) <= n - m
  <2>1. m + 1 \in Int /\ n \in Int
    OBVIOUS
  <2>2. IsFiniteSet(J) /\ Cardinality(J) = IF m + 1 > n THEN 0 ELSE n - (m + 1) + 1
    BY <2>1, FS_Interval
  <2> QED
    BY <2>2
<1>2. f \in Surjection(J, E)
  BY DEF Surjection
<1>3. IsFiniteSet(E) /\ Cardinality(E) <= Cardinality(J)
  <2> HIDE DEF f, E, J
  <2> QED
    BY <1>1, <1>2, FS_Surjection
<1>4. Cardinality(E) \in Nat /\ Cardinality(J) \in Nat
  BY <1>1, <1>3, FS_CardinalityType
<1> HIDE DEF E, J
<1>5. IsFiniteSet(E) /\ Cardinality(E) <= n - m
  BY <1>1, <1>3, <1>4
<1> QED
  BY <1>5 DEF E, J

(* Taking S out of the list moves the index past at most as many others    *)
(* as elements of S stood in the list: those move up behind the index.     *)
LEMMA PassedByRemoval ==
  ASSUME NEW q \in SocketLists, NEW S, NEW U \in SUBSET Range(q), NEW n \in Nat
  PROVE  /\ Cardinality(Passed(q, n, U)) \in Nat
         /\ Cardinality(Passed(Without(q, S), n, U \ S)) \in Nat
         /\ Cardinality(S \intersect Range(q)) \in Nat
         /\ Cardinality(Passed(Without(q, S), n, U \ S))
              <= Cardinality(Passed(q, n, U)) + Cardinality(S \intersect Range(q))
<1> DEFINE w == Without(q, S)
           P == Passed(q, n, U)
           W == Passed(w, n, U \ S)
           G == S \intersect Range(q)
<1>1. /\ q \in Seq(Sockets) /\ IsInjective(q) /\ Len(q) \in Nat /\ IsFiniteSet(Sockets)
      /\ Range(q) \in SUBSET Sockets /\ Range(q) = {q[i] : i \in 1 .. Len(q)}
  BY SocketListShape, RangeOfSeq, RangeEquality
<1>2. P \in SUBSET Sockets /\ W \in SUBSET Sockets /\ G \in SUBSET Sockets
  BY <1>1 DEF Passed
<1>3. /\ IsFiniteSet(P) /\ IsFiniteSet(W) /\ IsFiniteSet(G)
      /\ Cardinality(P) \in Nat /\ Cardinality(W) \in Nat /\ Cardinality(G) \in Nat
  <2> HIDE DEF P, W, G
  <2> QED
    BY <1>1, <1>2, FS_Subset, FS_CardinalityType
<1>4. CASE n >= Len(q)
  <2>1. U \subseteq P
    <3>1. \A x \in U : \E i \in 1 .. Len(q) : i <= n /\ q[i] = x
      BY <1>1, <1>4
    <3> QED
      BY <3>1 DEF Passed
  <2>2. W \in SUBSET P
    BY <2>1 DEF Passed
  <2>3. Cardinality(W) <= Cardinality(P)
    <3> HIDE DEF P, W
    <3> QED
      BY <1>3, <2>2, FS_Subset
  <2> HIDE DEF P, W, G
  <2>4. Cardinality(W) <= Cardinality(P) + Cardinality(G)
    BY <1>3, <2>3
  <2> QED
    BY <1>3, <2>4 DEF P, W, G, w
<1>5. CASE n < Len(q)
  <2> DEFINE K == Kept(q, S)[n]
             m == Len(K)
             E == {w[i] : i \in m + 1 .. n}
             F == S \intersect {q[i] : i \in 1 .. n}
  <2>1. n \in 0 .. Len(q)
    BY <1>1, <1>5
  <2>2. K \in Seq(Sockets) /\ m <= n /\ m \in Nat
    BY <1>1, <2>1, KeptElements
  <2>3. /\ m <= Len(w) /\ \A i \in 1 .. m : w[i] = K[i]
    BY <1>1, <2>1, KeptFirst
  <2>4. \A i \in 1 .. m : K[i] \in Range(K)
    BY <2>2 DEF Range
  <2>5. ASSUME NEW x \in Range(K)
        PROVE  \E i \in 1 .. n : x = q[i]
    <3> HIDE DEF w, P, W, G, E, F, m
    <3>1. q \in Seq(Sockets)
      BY <1>1
    <3>2. \A k \in 0 .. Len(q) :
            /\ Kept(q, S)[k] \in Seq(Sockets) /\ Len(Kept(q, S)[k]) <= k
            /\ \A y : y \in Range(Kept(q, S)[k]) <=> y \notin S /\ \E i \in 1 .. k : y = q[i]
      BY <3>1, KeptSets
    <3>3. \A y : y \in Range(K) <=> y \notin S /\ \E i \in 1 .. n : y = q[i]
      BY <2>1, <3>2, Zenon
    <3> QED
      BY <3>3, Zenon
  <2>6. W \subseteq P \union E
    <3> SUFFICES ASSUME NEW x \in U \ S, NEW i \in 1 .. Len(w), i <= n, w[i] = x
                 PROVE  x \in P \union E
      BY DEF Passed
    <3>1. CASE i <= m
      <4>1. i \in 1 .. m /\ x \in Range(K)
        BY <2>2, <2>3, <2>4, <3>1
      <4>2. PICK j \in 1 .. n : x = q[j]
        BY <2>5, <4>1
      <4>3. j \in 1 .. Len(q) /\ j <= n
        BY <1>1, <1>5
      <4> QED
        BY <4>2, <4>3 DEF Passed
    <3>2. CASE i > m
      <4>1. i \in m + 1 .. n
        BY <2>2, <3>2
      <4> QED
        BY <4>1
    <3>3. i \in Int /\ m \in Int
      BY <2>2
    <3> QED
      BY <3>1, <3>2, <3>3
  <2>7. IsFiniteSet(E) /\ Cardinality(E) <= n - m /\ Cardinality(E) \in Nat
    <3>1. IsFiniteSet(E) /\ Cardinality(E) <= n - m
      <4> HIDE DEF m, w
      <4> QED
        BY <2>2, Between
    <3> QED
      BY <3>1, FS_CardinalityType
  <2>8. n - m = Cardinality(F)
    <3>1. \A k \in 0 .. Len(q) :
            k - Len(Kept(q, S)[k]) = Cardinality(S \intersect {q[i] : i \in 1 .. k})
      <4> HIDE DEF w, P, W, G, E, F, m, K
      <4>1. q \in Seq(Sockets) /\ IsFiniteSet(Sockets) /\ IsInjective(q)
        BY <1>1
      <4> QED
        BY <4>1, KeptCount
    <3> QED
      BY <2>1, <3>1, Zenon
  <2>9. F \in SUBSET G
    BY <1>1, <1>5
  <2> HIDE DEF P, W, G, E, F, m, K
  <2>10. Cardinality(F) <= Cardinality(G)
    BY <1>3, <2>9, FS_Subset
  <2>11. /\ IsFiniteSet(P \union E)
         /\ Cardinality(P \union E) = Cardinality(P) + Cardinality(E) - Cardinality(P \intersect E)
    BY <1>3, <2>7, FS_Union
  <2>12. Cardinality(P \intersect E) \in Nat
    BY <1>3, FS_Intersection, FS_CardinalityType
  <2>13. Cardinality(W) <= Cardinality(P \union E)
    BY <2>6, <2>11, FS_Subset
  <2>14. Cardinality(W) <= Cardinality(P) + Cardinality(G)
    BY <1>3, <2>2, <2>7, <2>8, <2>10, <2>11, <2>12, <2>13
  <2> QED
    BY <1>3, <2>14 DEF P, W, G, w
<1>6. n >= Len(q) \/ n < Len(q)
  BY <1>1
<1> QED
  BY <1>4, <1>5, <1>6
-----------------------------------------------------------------------------
(* Of a push under way: the sockets it has yet to try stand in the list,   *)
(* and those its index has passed are no more than the entries that others *)
(* took out meanwhile.                                                     *)
Counted(p, q) ==
    p.on => /\ p.untried \subseteq Range(q)
            /\ Cardinality(Passed(q, p.index, p.untried)) <= p.shifts

PushesCount == \A d \in Devices : Counted(push[d], sockets)

LEMMA NothingPassed ==
  ASSUME NEW q, NEW U
  PROVE  Cardinality(Passed(q, 0, U)) = 0
<1>1. Passed(q, 0, U) = {}
  BY DEF Passed
<1> QED
  BY <1>1, FS_EmptySet

(* Tried sockets are no longer counted.                                    *)
LEMMA TriedOne ==
  ASSUME NEW q \in SocketLists, NEW U \in SUBSET Range(q), NEW n \in Nat, n < Len(q)
  PROVE  Cardinality(Passed(q, n + 1, U \ {q[n + 1]})) <= Cardinality(Passed(q, n, U))
<1> DEFINE P == Passed(q, n, U)
           W == Passed(q, n + 1, U \ {q[n + 1]})
<1>1. q \in Seq(Sockets) /\ Range(q) \in SUBSET Sockets /\ IsFiniteSet(Sockets) /\ Len(q) \in Nat
  BY SocketListShape, RangeOfSeq
<1>2. P \in SUBSET Sockets
  BY <1>1 DEF Passed
<1>3. IsFiniteSet(P)
  <2> HIDE DEF P
  <2> QED
    BY <1>1, <1>2, FS_Subset
<1>4. W \in SUBSET P
  <2> SUFFICES ASSUME NEW x \in U, x # q[n + 1], NEW i \in 1 .. Len(q), i <= n + 1, q[i] = x
               PROVE  x \in P
    BY DEF Passed
  <2>1. i # n + 1
    OBVIOUS
  <2>2. i <= n
    BY <1>1, <2>1
  <2> QED
    BY <2>2 DEF Passed
<1> HIDE DEF P, W
<1>5. Cardinality(W) <= Cardinality(P)
  BY <1>3, <1>4, FS_Subset
<1> QED
  BY <1>5 DEF P, W

(* What others take out of the list moves both sides of the count.         *)
LEMMA CountedAfterRemoval ==
  ASSUME sockets \in SocketLists, NEW p \in Push, NEW S, Counted(p, sockets)
  PROVE  Counted(Shifted(p, S), Without(sockets, S))
<1>1. CASE ~p.on
  <2>1. Shifted(p, S) = p
    BY <1>1 DEF Shifted
  <2> QED
    BY <1>1, <2>1 DEF Counted
<1>2. CASE p.on
  <2> DEFINE w == Without(sockets, S)
             r == Shifted(p, S)
             W == Passed(w, p.index, p.untried \ S)
             P == Passed(sockets, p.index, p.untried)
             g == Cardinality(S \intersect Range(sockets))
  <2>1. /\ p.untried \in SUBSET Range(sockets) /\ Cardinality(P) <= p.shifts
        /\ p.index \in Nat /\ p.shifts \in Nat /\ p.untried \in SUBSET Sockets
    BY <1>2, SocketListShape DEF Counted, Push
  <2>2. /\ r.on /\ r.index = p.index /\ r.untried = p.untried \ S /\ g \in Nat
        /\ r.shifts = IF p.shifts + g <= Cardinality(Sockets) THEN p.shifts + g
                      ELSE Cardinality(Sockets)
    BY <1>2, ShiftedShape
  <2>3. Cardinality(P) \in Nat /\ Cardinality(W) \in Nat /\ Cardinality(W) <= Cardinality(P) + g
    <3> HIDE DEF r
    <3> QED
      BY <2>1, PassedByRemoval
  <2>4. Cardinality(W) <= Cardinality(Sockets) /\ Cardinality(Sockets) \in Nat
    <3>1. IsFiniteSet(Sockets) /\ Cardinality(Sockets) \in Nat
      BY SocketListShape
    <3>2. W \in SUBSET Sockets
      BY <2>1 DEF Passed
    <3> HIDE DEF W
    <3> QED
      BY <3>1, <3>2, FS_Subset
  <2>5. r.untried \subseteq Range(w)
    <3>1. \A x : x \in Range(w) <=> x \in Range(sockets) /\ x \notin S
      BY Removed
    <3> HIDE DEF r, w
    <3> QED
      BY <2>1, <2>2, <3>1
  <2> HIDE DEF w, r, W, P, g
  <2>6. Cardinality(W) <= r.shifts
    BY <2>1, <2>2, <2>3, <2>4
  <2>7. W = Passed(w, r.index, r.untried)
    BY <2>2 DEF W
  <2>8. Counted(r, w)
    BY <2>5, <2>6, <2>7 DEF Counted
  <2> QED
    BY <2>8 DEF r, w
<1> QED
  BY <1>1, <1>2

(* A socket that is accepted stands behind all others.                     *)
LEMMA CountedAfterAppend ==
  ASSUME sockets \in SocketLists, NEW p \in Push, NEW s \in Sockets, s \notin Range(sockets),
         Counted(p, sockets)
  PROVE  Counted(p, Append(sockets, s))
<1> DEFINE a == Append(sockets, s)
<1>1. sockets \in Seq(Sockets) /\ Len(sockets) \in Nat
  BY SocketListShape
<1>2. /\ Len(a) = Len(sockets) + 1 /\ a[Len(sockets) + 1] = s
      /\ \A i \in 1 .. Len(sockets) : a[i] = sockets[i]
  BY <1>1
<1>3. \A x : x \in Range(a) <=> x \in Range(sockets) \/ x = s
  BY Appended
<1> HIDE DEF a
<1>4. ASSUME p.on
      PROVE  Passed(a, p.index, p.untried) = Passed(sockets, p.index, p.untried)
  <2>1. s \notin p.untried
    BY <1>4 DEF Counted
  <2>2. \A i \in 1 .. Len(a) : i \in 1 .. Len(sockets) \/ i = Len(sockets) + 1
    BY <1>1, <1>2
  <2>3. \A i \in 1 .. Len(sockets) : i \in 1 .. Len(a)
    BY <1>1, <1>2
  <2> QED
    BY <1>2, <2>1, <2>2, <2>3 DEF Passed
<1>5. Counted(p, a)
  BY <1>3, <1>4 DEF Counted
<1> QED
  BY <1>5 DEF a

LEMMA PushesCountOn ==
  ASSUME Shapes, ListedIsServed, PushesCount,
         \/ \E d \in Devices : Hello(d) \/ PushSend(d) \/ PushEnd(d)
         \/ \E s \in Sockets : Accept(s) \/ LoopEnds(s)
  PROVE  PushesCount'
<1>1. sockets \in SocketLists /\ push \in [Devices -> Push]
  BY DEF Shapes
<1>2. ASSUME NEW d \in Devices, Hello(d)
      PROVE  PushesCount'
  <2> DEFINE p == [NoPush EXCEPT !.on = TRUE, !.untried = Range(sockets)]
  <2>1. p.untried = Range(sockets) /\ p.index = 0 /\ p.shifts = 0
    BY DEF NoPush
  <2>2. Counted(p, sockets)
    <3> HIDE DEF p
    <3> QED
      BY <2>1, NothingPassed DEF Counted
  <2>3. sockets' = sockets /\ push' = [push EXCEPT ![d] = p]
    BY <1>2 DEF Hello
  <2>4. \A e \in Devices : Counted(push[e], sockets)
    BY DEF PushesCount
  <2>5. \A e \in Devices : Counted(push'[e], sockets)
    <3> HIDE DEF p
    <3> QED
      BY <1>1, <2>2, <2>3, <2>4
  <2> QED
    BY <2>3, <2>5 DEF PushesCount
<1>3. ASSUME NEW d \in Devices, PushSend(d)
      PROVE  PushesCount'
  <2> DEFINE p == push[d]
             s == sockets[p.index + 1]
             r == push'[d]
  <2>1. /\ p.on /\ p.index \in Nat /\ p.index < Len(sockets) /\ p \in Push
        /\ sockets' = sockets /\ \A e \in Devices \ {d} : push'[e] = push[e]
    <3>1. p.on /\ p.index < Len(sockets) /\ sockets' = sockets
      BY <1>3 DEF PushSend
    <3>2. \A e \in Devices \ {d} : push'[e] = push[e]
      BY <1>1, <1>3 DEF PushSend
    <3>3. p \in Push /\ p.index \in Nat
      BY <1>1 DEF Push
    <3> QED
      BY <3>1, <3>2, <3>3, Zenon
  <2>2. r.on = p.on /\ r.index = p.index + 1 /\ r.untried = p.untried \ {s} /\ r.shifts = p.shifts
    <3> DEFINE D == IF Up(s) THEN p.dead ELSE p.dead \union {s}
    <3>1. r = [p EXCEPT !.index = p.index + 1, !.dead = D, !.untried = p.untried \ {s}]
      BY <1>1, <1>3 DEF PushSend
    <3>2. p \in Push
      BY <1>1
    <3> HIDE DEF D, p, s, r
    <3> QED
      BY <3>1, <3>2 DEF Push
  <2>3. /\ p.untried \in SUBSET Range(sockets)
        /\ Cardinality(Passed(sockets, p.index, p.untried)) <= p.shifts
    BY <2>1 DEF PushesCount, Counted
  <2>4. Cardinality(Passed(sockets, p.index + 1, p.untried \ {s}))
          <= Cardinality(Passed(sockets, p.index, p.untried))
    BY <1>1, <2>1, <2>3, TriedOne
  <2>5. /\ Cardinality(Passed(sockets, p.index + 1, p.untried \ {s})) \in Nat
        /\ Cardinality(Passed(sockets, p.index, p.untried)) \in Nat
        /\ p.shifts \in Nat
    <3>1. ASSUME NEW n \in Nat, NEW U \in SUBSET Range(sockets)
          PROVE  Cardinality(Passed(sockets, n, U)) \in Nat
      BY <1>1, PassedByRemoval
    <3>2. p.untried \ {s} \in SUBSET Range(sockets) /\ p.index + 1 \in Nat
      BY <2>1, <2>3
    <3> HIDE DEF p, s
    <3> QED
      BY <2>1, <2>3, <3>1, <3>2 DEF Push
  <2>6. Counted(r, sockets)
    <3> HIDE DEF p, s, r
    <3> QED
      BY <2>2, <2>3, <2>4, <2>5 DEF Counted
  <2>7. \A e \in Devices : Counted(push'[e], sockets)
    BY <2>1, <2>6 DEF PushesCount
  <2> QED
    BY <2>1, <2>7 DEF PushesCount
<1>4. ASSUME NEW S
      PROVE  \A e \in Devices : Counted(Shifted(push[e], S), Without(sockets, S))
  BY <1>1, CountedAfterRemoval DEF PushesCount
<1>5. ASSUME NEW d \in Devices, PushEnd(d)
      PROVE  PushesCount'
  <2>1. Counted(NoPush, Without(sockets, push[d].dead))
    BY DEF Counted, NoPush
  <2>2. \A e \in Devices : Counted(push'[e], Without(sockets, push[d].dead))
    BY <1>4, <1>5, <2>1 DEF PushEnd
  <2> QED
    BY <1>5, <2>2 DEF PushesCount, PushEnd
<1>6. ASSUME NEW s \in Sockets, Accept(s)
      PROVE  PushesCount'
  <2>1. s \notin Range(sockets)
    BY <1>6 DEF Accept, ListedIsServed
  <2>2. \A e \in Devices : Counted(push[e], Append(sockets, s))
    BY <1>1, <2>1, CountedAfterAppend DEF PushesCount
  <2> QED
    BY <1>6, <2>2 DEF PushesCount, Accept
<1>7. ASSUME NEW s \in Sockets, LoopEnds(s)
      PROVE  PushesCount'
  <2>1. \A e \in Devices : Counted(push'[e], Without(sockets, {s}))
    BY <1>4, <1>7 DEF LoopEnds, Unlist
  <2> QED
    BY <1>7, <2>1 DEF PushesCount, LoopEnds, Unlist
<1> QED
  BY <1>2, <1>3, <1>5, <1>6, <1>7
-----------------------------------------------------------------------------
(* The inductive invariant. The types alone are not inductive: that no     *)
(* socket is appended twice takes ListedIsServed, which takes that a push  *)
(* removes only what is down; that a poll finds a place takes that the     *)
(* answers under way can be counted; and what a push misses at its end is  *)
(* counted while it runs.                                                  *)
IInv ==
    /\ Shapes
    /\ AnswersFinite
    /\ ListedIsServed
    /\ DeadAreDown
    /\ PushesCount

LEMMA InitIInv == Init => IInv
<1> SUFFICES ASSUME Init
             PROVE  IInv
  OBVIOUS
<1>1. /\ \A d \in Devices : push[d] = NoPush
      /\ \A t \in Tabs : answers[t] = {}
      /\ Range(sockets) = {}
  BY DEF Init, Range
<1>2. Shapes
  <2>1. <<>> \in Queues /\ <<>> \in SocketLists
    <3>1. IsFiniteSet(Devices) /\ IsFiniteSet(Sockets)
      BY DashboardAssumption
    <3>2. ASSUME NEW T, IsFiniteSet(T)
          PROVE  <<>> \in {q \in BoundedSeq(T, Cardinality(T)) : IsInjective(q)}
      <4>1. <<>> \in Seq(T) /\ IsInjective(<<>>)
        BY DEF IsInjective
      <4> QED
        BY <3>2, <4>1, DistinctBounded
    <3> QED
      BY <3>1, <3>2 DEF Queues, SocketLists
  <2>2. push \in [Devices -> Push]
    <3>1. Cardinality(Sockets) \in Nat
      BY DashboardAssumption, FS_CardinalityType
    <3>2. NoPush \in Push
      BY <3>1 DEF NoPush, Push
    <3> QED
      BY <3>2 DEF Init
  <2>3. TabsOK
    <3> DEFINE new == [list |-> <<>>, dismissed |-> {}, loading |-> NoDevice, acting |-> {}]
    <3>1. Cards(<<>>)
      BY DEF Cards, DevicesOf, IsInjective
    <3>2. TabOK(new)
      BY <3>1, CardsBounded DEF TabOK, Tab
    <3>3. tab = [t \in Tabs |-> new]
      BY DEF Init
    <3> HIDE DEF new
    <3>4. new \in Tab
      BY <3>2 DEF TabOK
    <3> QED
      BY <3>2, <3>3, <3>4 DEF TabsOK
  <2>4. /\ handler \in [Sockets -> Stages]
        /\ conn \in [Tabs -> Sockets \union {NoSocket}]
        /\ asked \in [Tabs -> 0 .. MaxPolls]
        /\ answers \in [Tabs -> SUBSET Queues]
    BY DashboardAssumption DEF Init, Stages
  <2> QED
    BY <2>1, <2>2, <2>3, <2>4 DEF Init, Shapes
<1>3. AnswersFinite
  BY <1>1, FS_EmptySet DEF AnswersFinite
<1>4. ListedIsServed
  BY <1>1 DEF ListedIsServed, Init
<1>5. DeadAreDown /\ PushesCount
  BY <1>1 DEF DeadAreDown, PushesCount, Counted, NoPush
<1> QED
  BY <1>2, <1>3, <1>4, <1>5 DEF IInv

(* Of the answers under way, a step adds or takes away one.                *)
LEMMA AnswersStayFinite ==
  ASSUME Shapes, AnswersFinite,
         \/ answers' = answers
         \/ \E q : \E t \in Tabs : \/ answers' = [answers EXCEPT ![t] = @ \union {q}]
                                  \/ answers' = [answers EXCEPT ![t] = @ \ {q}]
  PROVE  AnswersFinite'
<1>1. ASSUME NEW A, IsFiniteSet(A), NEW q
      PROVE  IsFiniteSet(A \union {q}) /\ IsFiniteSet(A \ {q})
  BY <1>1, FS_AddElement, FS_RemoveElement
<1>2. answers \in [Tabs -> SUBSET Queues]
  BY DEF Shapes
<1>3. ASSUME NEW u \in Tabs
      PROVE  answers'[u] = answers[u] \/ \E q : answers'[u] \in {answers[u] \union {q}, answers[u] \ {q}}
  BY <1>2
<1>4. ASSUME NEW u \in Tabs
      PROVE  IsFiniteSet(answers'[u])
  <2>1. IsFiniteSet(answers[u])
    BY DEF AnswersFinite
  <2>2. CASE answers'[u] = answers[u]
    BY <2>1, <2>2
  <2>3. ASSUME NEW q, answers'[u] = answers[u] \union {q} \/ answers'[u] = answers[u] \ {q}
        PROVE  IsFiniteSet(answers'[u])
    <3>1. IsFiniteSet(answers[u] \union {q}) /\ IsFiniteSet(answers[u] \ {q})
      BY <1>1, <2>1
    <3> QED
      BY <2>3, <3>1
  <2> QED
    BY <1>3, <2>2, <2>3
<1> QED
  BY <1>4 DEF AnswersFinite

(* A step that leaves the sockets, their handlers, the pushes and the      *)
(* connections alone leaves what is said of them.                          *)
LEMMA QuietStep ==
  ASSUME ListedIsServed, DeadAreDown, PushesCount, UNCHANGED <<sockets, handler, push, conn>>
  PROVE  ListedIsServed' /\ DeadAreDown' /\ PushesCount'
<1>1. \A x : Up(x)' <=> Up(x)
  BY DEF Up
<1> QED
  BY <1>1 DEF ListedIsServed, DeadAreDown, PushesCount

LEMMA UnmovedCounts ==
  ASSUME PushesCount, UNCHANGED <<sockets, push>>
  PROVE  PushesCount'
BY DEF PushesCount

LEMMA StepIInv == IInv /\ [Next]_vars => IInv'
<1> SUFFICES ASSUME IInv, [Next]_vars
             PROVE  IInv'
  OBVIOUS
<1> USE DEF IInv
<1>1. ASSUME NEW d \in Devices, Hello(d) \/ PushSend(d) \/ PushEnd(d)
      PROVE  IInv'
  <2>1. Shapes'
    BY <1>1, QueueStepsShape, PushStepsShape
  <2>2. answers' = answers
    BY <1>1 DEF Hello, PushSend, PushEnd
  <2>3. ListedIsServed' /\ DeadAreDown'
    BY <1>1, ServedByPushes
  <2>4. PushesCount'
    BY <1>1, PushesCountOn
  <2> QED
    BY <2>1, <2>2, <2>3, <2>4, AnswersStayFinite
<1>2. ASSUME NEW d \in Devices, TrustedHello(d) \/ Leaves(d)
      PROVE  IInv'
  <2>1. Shapes'
    BY <1>2, QueueStepsShape
  <2>2. UNCHANGED <<sockets, handler, push, conn, answers>>
    BY <1>2 DEF TrustedHello, Leaves
  <2> QED
    BY <2>1, <2>2, QuietStep, AnswersStayFinite
<1>3. ASSUME NEW s \in Sockets, Accept(s) \/ LoopEnds(s)
      PROVE  IInv'
  <2>1. Shapes'
    BY <1>3, HandlerStepsShape
  <2>2. answers' = answers
    BY <1>3 DEF Accept, LoopEnds
  <2>3. ListedIsServed' /\ DeadAreDown'
    BY <1>3, ServedByHandlers
  <2>4. PushesCount'
    BY <1>3, PushesCountOn
  <2> QED
    BY <2>1, <2>2, <2>3, <2>4, AnswersStayFinite
<1>4. ASSUME NEW s \in Sockets, Admit(s) \/ Refuse(s) \/ AcceptRaises(s)
      PROVE  IInv'
  <2>1. Shapes'
    BY <1>4, HandlerStepsShape
  <2>2. UNCHANGED <<sockets, push, answers>>
    BY <1>4 DEF Admit, Refuse, AcceptRaises
  <2>3. ListedIsServed' /\ DeadAreDown'
    BY <1>4, ServedByHandlers
  <2> QED
    BY <2>1, <2>2, <2>3, UnmovedCounts, AnswersStayFinite
<1>5. ASSUME NEW t \in Tabs, Connect(t) \/ LinkLost(t)
      PROVE  IInv'
  <2>1. Shapes'
    BY <1>5, ConnectionStepsShape
  <2>2. UNCHANGED <<sockets, push, answers>>
    BY <1>5 DEF Connect, LinkLost
  <2>3. ListedIsServed' /\ DeadAreDown'
    BY <1>5, ServedByTabs
  <2> QED
    BY <2>1, <2>2, <2>3, UnmovedCounts, AnswersStayFinite
<1>6. ASSUME NEW t \in Tabs, Poll(t) \/ AnswerPoll(t)
      PROVE  IInv'
  <2>1. Shapes'
    BY <1>6, ConnectionStepsShape
  <2>2. UNCHANGED <<sockets, handler, push, conn>>
    BY <1>6 DEF Poll, AnswerPoll
  <2>3. \/ answers' = answers
        \/ answers' = [answers EXCEPT ![t] = @ \union {pending}]
    BY <1>6 DEF Poll, AnswerPoll
  <2>4. AnswersFinite'
    BY <2>3, AnswersStayFinite
  <2> QED
    BY <2>1, <2>2, <2>4, QuietStep
<1>7. ASSUME NEW t \in Tabs, NEW q \in answers[t], PollReturns(t, q) \/ PollFails(t, q)
      PROVE  IInv'
  <2>1. Shapes'
    BY <1>7, AnswerStepsShape
  <2>2. UNCHANGED <<sockets, handler, push, conn>> /\ answers' = [answers EXCEPT ![t] = @ \ {q}]
    BY <1>7 DEF PollReturns, PollFails
  <2>3. AnswersFinite'
    BY <2>2, AnswersStayFinite
  <2> QED
    BY <2>1, <2>2, <2>3, QuietStep
<1>8. ASSUME NEW t \in Tabs,
             CountdownEnds(t) \/ Click(t) \/ Dismiss(t) \/ \E d \in Devices : ActEnds(t, d)
      PROVE  IInv'
  <2>1. Shapes'
    BY <1>8, PopupStepsShape
  <2>2. UNCHANGED <<sockets, handler, push, conn, answers>>
    BY <1>8 DEF CountdownEnds, Click, Dismiss, ActEnds
  <2> QED
    BY <2>1, <2>2, QuietStep, AnswersStayFinite
<1>9. CASE UNCHANGED vars
  <2>1. Shapes'
    BY <1>9 DEF vars, Shapes, TabsOK
  <2>2. UNCHANGED <<sockets, handler, push, conn, answers>>
    BY <1>9 DEF vars
  <2> QED
    BY <2>1, <2>2, QuietStep, AnswersStayFinite
<1>10. CASE Next
  BY <1>1, <1>2, <1>3, <1>4, <1>5, <1>6, <1>7, <1>8, <1>10 DEF Next
<1> QED
  BY <1>9, <1>10

(* When the index is past the end, it has passed every socket that the     *)
(* push has not tried.                                                     *)
LEMMA EndOfPush ==
  ASSUME Shapes, PushesCount
  PROVE  PushMissesOnlyOnRemoval
<1> SUFFICES ASSUME NEW d \in Devices, push[d].on, push[d].index >= Len(sockets)
             PROVE  Cardinality(push[d].untried) <= push[d].shifts
  BY DEF PushMissesOnlyOnRemoval
<1> DEFINE U == push[d].untried
           n == push[d].index
<1>1. U \subseteq Range(sockets) /\ Cardinality(Passed(sockets, n, U)) <= push[d].shifts
  BY DEF PushesCount, Counted
<1>2. /\ Range(sockets) = {sockets[i] : i \in 1 .. Len(sockets)}
      /\ Len(sockets) \in Nat /\ n \in Nat /\ n >= Len(sockets)
  <2>1. sockets \in Seq(Sockets) /\ Len(sockets) \in Nat
    BY SocketListShape DEF Shapes
  <2>2. Range(sockets) = {sockets[i] : i \in 1 .. Len(sockets)}
    BY <2>1, RangeEquality
  <2>3. n \in Nat
    BY DEF Shapes, Push
  <2> QED
    BY <2>1, <2>2, <2>3
<1> HIDE DEF U, n
<1>3. \A x \in U : \E i \in 1 .. Len(sockets) : i <= n /\ sockets[i] = x
  BY <1>1, <1>2
<1>4. Passed(sockets, n, U) = U
  BY <1>3 DEF Passed
<1> QED
  BY <1>1, <1>4 DEF U

-----------------------------------------------------------------------------
(* For every number of devices, tabs and WebSockets, whatever order pushes,*)
(* polls, handlers and decisions come in: every variable has its type, and *)
(* neither the queue nor the list of sockets of main.py nor the list of a  *)
(* tab (ADD_PENDING, SET_PENDING) ever has an entry twice.                 *)
THEOREM TypeCorrect == Spec => []TypeOK
<1>1. Init => IInv
  BY InitIInv
<1>2. IInv /\ [Next]_vars => IInv'
  BY StepIInv
<1>3. IInv => TypeOK
  BY ShapesAreTypes DEF IInv
<1> QED
  BY <1>1, <1>2, <1>3, PTL DEF Spec

(* However pushes and handlers overlap in taking sockets out of            *)
(* _dashboard_sockets: what is in it has a handler in its loop, which will *)
(* take it out, and every tab whose socket is served is in it.             *)
THEOREM ListedSocketsAreServed == Spec => []ListedIsServed
<1>1. Init => IInv
  BY InitIInv
<1>2. IInv /\ [Next]_vars => IInv'
  BY StepIInv
<1>3. IInv => ListedIsServed
  BY DEF IInv
<1> QED
  BY <1>1, <1>2, <1>3, PTL DEF Spec

(* The loop of _push_dashboard over a list that others shorten under it    *)
(* misses at most one socket for each entry they take out.                 *)
THEOREM PushesMissOnlyOnRemoval == Spec => []PushMissesOnlyOnRemoval
<1>1. Init => IInv
  BY InitIInv
<1>2. IInv /\ [Next]_vars => IInv'
  BY StepIInv
<1>3. IInv => PushMissesOnlyOnRemoval
  BY EndOfPush DEF IInv
<1> QED
  BY <1>1, <1>2, <1>3, PTL DEF Spec
=============================================================================
