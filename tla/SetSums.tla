------------------------------ MODULE SetSums ------------------------------
(***************************************************************************)
(* Sums of one counter over a finite set of accounts.  The counters are    *)
(* functions u[c][k] of natural numbers.  Nothing here is about a state:   *)
(* the lemmas say that the sum which MapThenSumSet computes, taking the    *)
(* elements in an order that CHOOSE fixes, is the same in every order.     *)
(***************************************************************************)
EXTENDS Naturals, FiniteSetsExt, FiniteSetTheorems, TLAPS

\* The sum of the counters k of the accounts in S.
SumOf(u, k, S) == MapThenSumSet(LAMBDA c : u[c][k], S)

\* Every account of S counts in natural numbers.
Counts(u, k, S) == \A c \in S : u[c][k] \in Nat

\* The account that the sum takes first.
First(s) == CHOOSE c \in s : TRUE

\* t holds the sum of every subset of S.
Totals(t, u, k, S) ==
    t = [s \in SUBSET S |-> IF s = {} THEN 0 ELSE u[First(s)][k] + t[s \ {First(s)}]]

-----------------------------------------------------------------------------
(* Induction *)

\* A set of numbers that holds 0 and every successor holds all of them.
LEMMA NatSetInduction ==
  ASSUME NEW Q, 0 \in Q, \A n \in Nat : n \in Q => n + 1 \in Q
  PROVE  Nat \subseteq Q
  <1> SUFFICES ASSUME Nat \ Q # {} PROVE FALSE
    OBVIOUS
  <1>1. Nat \ Q \subseteq Nat
    OBVIOUS
  <1>2. PICK m \in Nat \ Q : \A y \in Nat \ Q : ~(<<y, m>> \in OpToRel(<, Nat))
    <2> DEFINE B == Nat \ Q
    <2>1. B \subseteq Nat /\ B # {}
      OBVIOUS
    <2> HIDE DEF B
    <2>2. \E m \in B : \A y \in B : ~(<<y, m>> \in OpToRel(<, Nat))
      BY <2>1, NatLessThanWellFounded, WFMin
    <2> QED
      BY <2>2 DEF B
  <1>3. m # 0 /\ m - 1 \in Nat /\ (m - 1) + 1 = m
    <2>1. m # 0 /\ m \in Nat
      OBVIOUS
    <2> QED
      BY <2>1
  <1>4. m - 1 \in Nat \ Q
    BY <1>3
  <1>5. <<m - 1, m>> \in Nat \X Nat /\ <<m - 1, m>>[1] < <<m - 1, m>>[2]
    BY <1>3
  <1>6. <<m - 1, m>> \in OpToRel(<, Nat)
    BY <1>5 DEF OpToRel
  <1> QED
    BY <1>2, <1>4, <1>6

\* A set of subsets of S that holds the empty set, and with a set every set that
\* is one element larger, holds S.
LEMMA SubsetInduction ==
  ASSUME NEW S, IsFiniteSet(S), NEW Q, {} \in Q,
         \A T \in SUBSET S : \A x \in T : T \ {x} \in Q => T \in Q
  PROVE  SUBSET S \subseteq Q
  <1> DEFINE N == {n \in Nat : \A T \in SUBSET S : Cardinality(T) = n => T \in Q}
  <1>1. \A T \in SUBSET S : IsFiniteSet(T) /\ Cardinality(T) \in Nat
    BY FS_Subset, FS_CardinalityType
  <1>2. 0 \in N
    BY <1>1, FS_EmptySet
  <1>3. ASSUME NEW n \in Nat, n \in N
        PROVE  n + 1 \in N
    <2> SUFFICES ASSUME NEW T \in SUBSET S, Cardinality(T) = n + 1
                 PROVE  T \in Q
      OBVIOUS
    <2>1. T # {}
      <3>1. Cardinality({}) = 0
        BY FS_EmptySet
      <3>2. ASSUME T = {} PROVE FALSE
        <4>1. Cardinality(T) = 0
          BY <3>1, <3>2
        <4>2. n + 1 # 0
          OBVIOUS
        <4> QED
          BY <4>1, <4>2
      <3> QED
        BY <3>2
    <2>2. PICK x \in T : TRUE
      BY <2>1
    <2>3. Cardinality(T \ {x}) = Cardinality(T) - 1 /\ T \ {x} \in SUBSET S
      BY <1>1, FS_RemoveElement
    <2>4. Cardinality(T \ {x}) = n
      BY <2>3
    <2>5. T \ {x} \in Q
      BY <1>3, <2>3, <2>4
    <2> QED
      BY <2>5
  <1>4. Nat \subseteq N
    <2> HIDE DEF N
    <2> QED
      BY <1>2, <1>3, NatSetInduction
  <1> QED
    BY <1>1, <1>4

-----------------------------------------------------------------------------
(* The sum *)

\* Sums exist: the definition that MapThenSumSet chooses a solution of has one.
LEMMA TotalsExist ==
  ASSUME NEW u, NEW k, NEW S, IsFiniteSet(S), Counts(u, k, S)
  PROVE  \E t \in [SUBSET S -> Nat] : Totals(t, u, k, S)
  <1> DEFINE Upto(n) == {s \in SUBSET S : Cardinality(s) <= n}
             Part(t, n) == /\ t \in [Upto(n) -> Nat]
                           /\ \A s \in Upto(n) :
                                 t[s] = IF s = {} THEN 0
                                        ELSE u[First(s)][k] + t[s \ {First(s)}]
             N == {n \in Nat : \E t : Part(t, n)}
  <1>1. \A s \in SUBSET S : IsFiniteSet(s) /\ Cardinality(s) \in Nat
                            /\ Cardinality(s) <= Cardinality(S)
    BY FS_Subset, FS_CardinalityType
  <1>2. \A s \in SUBSET S : s # {} =>
            /\ First(s) \in s /\ s \ {First(s)} \in SUBSET S
            /\ Cardinality(s \ {First(s)}) = Cardinality(s) - 1
            /\ u[First(s)][k] \in Nat
    <2> TAKE s \in SUBSET S
    <2> HAVE s # {}
    <2>1. First(s) \in s
      BY DEF First
    <2>2. Cardinality(s \ {First(s)}) = Cardinality(s) - 1
      BY <1>1, <2>1, FS_RemoveElement
    <2> QED
      BY <2>1, <2>2 DEF Counts
  <1>3. 0 \in N
    <2> DEFINE t0 == [s \in Upto(0) |-> 0]
    <2>1. \A s \in Upto(0) : s = {}
      BY <1>1, FS_EmptySet
    <2>2. Part(t0, 0)
      BY <2>1
    <2> QED
      BY <2>2
  <1>4. ASSUME NEW n \in Nat, n \in N
        PROVE  n + 1 \in N
    <2>1. PICK t : Part(t, n)
      BY <1>4
    <2> DEFINE v == [s \in Upto(n + 1) |->
                        IF s = {} THEN 0 ELSE u[First(s)][k] + t[s \ {First(s)}]]
    <2>2. \A s \in Upto(n + 1) : s # {} => s \ {First(s)} \in Upto(n)
      BY <1>1, <1>2
    <2>3. v \in [Upto(n + 1) -> Nat]
      BY <1>2, <2>1, <2>2
    <2>4. \A s \in Upto(n) : s \in Upto(n + 1) /\ v[s] = t[s]
      BY <1>1, <2>1
    <2>5. \A s \in Upto(n + 1) :
              v[s] = IF s = {} THEN 0 ELSE u[First(s)][k] + v[s \ {First(s)}]
      <3> SUFFICES ASSUME NEW s \in Upto(n + 1), s # {}
                   PROVE  v[s] = u[First(s)][k] + v[s \ {First(s)}]
        OBVIOUS
      <3>1. v[s] = u[First(s)][k] + t[s \ {First(s)}]
        OBVIOUS
      <3>2. v[s \ {First(s)}] = t[s \ {First(s)}]
        BY <2>2, <2>4
      <3> HIDE DEF v
      <3> QED
        BY <3>1, <3>2
    <2>6. Part(v, n + 1)
      BY <2>3, <2>5
    <2> HIDE DEF v, Part
    <2> QED
      BY <2>6
  <1>5. Nat \subseteq N
    <2> HIDE DEF N
    <2> QED
      BY <1>3, <1>4, NatSetInduction
  <1>6. Cardinality(S) \in Nat /\ Upto(Cardinality(S)) = SUBSET S
    BY <1>1
  <1>7. PICK t : Part(t, Cardinality(S))
    BY <1>5, <1>6
  <1>8. t \in [SUBSET S -> Nat] /\ \A s \in SUBSET S :
            t[s] = IF s = {} THEN 0 ELSE u[First(s)][k] + t[s \ {First(s)}]
    BY <1>6, <1>7
  <1>9. t = [s \in SUBSET S |-> IF s = {} THEN 0 ELSE u[First(s)][k] + t[s \ {First(s)}]]
    BY <1>8
  <1> QED
    BY <1>8, <1>9 DEF Totals

\* The sum is the total that some solution gives the whole set.
LEMMA SumIsTotal ==
  ASSUME NEW u, NEW k, NEW S, IsFiniteSet(S), Counts(u, k, S)
  PROVE  \E t : Totals(t, u, k, S) /\ SumOf(u, k, S) = t[S]
  <1> DEFINE t == CHOOSE t : Totals(t, u, k, S)
  <1>1. \E t0 : Totals(t0, u, k, S)
    BY TotalsExist
  <1>2. Totals(t, u, k, S)
    BY <1>1
  <1>3. SumOf(u, k, S) = t[S]
    BY DEF SumOf, Totals, First, MapThenSumSet, MapThenFoldSet
  <1> QED
    BY <1>2, <1>3

\* The totals of a larger set give a set the same sum as its own.
LEMMA TotalsAgree ==
  ASSUME NEW u, NEW k, NEW T, NEW S \in SUBSET T, IsFiniteSet(S),
         NEW t, Totals(t, u, k, S), NEW v, Totals(v, u, k, T)
  PROVE  t[S] = v[S]
  <1> DEFINE N == {n \in Nat : \A s \in SUBSET S : Cardinality(s) = n => t[s] = v[s]}
  <1>1. \A s \in SUBSET S :
            /\ t[s] = IF s = {} THEN 0 ELSE u[First(s)][k] + t[s \ {First(s)}]
            /\ v[s] = IF s = {} THEN 0 ELSE u[First(s)][k] + v[s \ {First(s)}]
    BY DEF Totals
  <1>2. \A s \in SUBSET S : IsFiniteSet(s) /\ Cardinality(s) \in Nat
    BY FS_Subset, FS_CardinalityType
  <1>3. 0 \in N
    BY <1>1, <1>2, FS_EmptySet
  <1>4. ASSUME NEW n \in Nat, n \in N
        PROVE  n + 1 \in N
    <2> SUFFICES ASSUME NEW s \in SUBSET S, Cardinality(s) = n + 1
                 PROVE  t[s] = v[s]
      OBVIOUS
    <2>1. s # {}
      BY FS_EmptySet
    <2>2. First(s) \in s
      BY <2>1 DEF First
    <2>3. s \ {First(s)} \in SUBSET S /\ Cardinality(s \ {First(s)}) = Cardinality(s) - 1
      BY <1>2, <2>2, FS_RemoveElement
    <2>4. t[s \ {First(s)}] = v[s \ {First(s)}]
      <3>1. Cardinality(s \ {First(s)}) = n
        BY <2>3
      <3> QED
        BY <1>4, <2>3, <3>1
    <2> QED
      BY <1>1, <2>1, <2>4
  <1>5. Nat \subseteq N
    <2> HIDE DEF N
    <2> QED
      BY <1>3, <1>4, NatSetInduction
  <1> QED
    BY <1>2, <1>5

\* The sum over a set takes its first element and the sum of the rest.
LEMMA SumFirst ==
  ASSUME NEW u, NEW k, NEW S, IsFiniteSet(S), Counts(u, k, S)
  PROVE  /\ SumOf(u, k, {}) = 0
         /\ S # {} => /\ First(S) \in S
                      /\ SumOf(u, k, S) = u[First(S)][k] + SumOf(u, k, S \ {First(S)})
         /\ SumOf(u, k, S) \in Nat
  <1>1. PICK t \in [SUBSET S -> Nat] : Totals(t, u, k, S)
    BY TotalsExist
  <1>2. ASSUME NEW s \in SUBSET S
        PROVE  SumOf(u, k, s) = t[s]
    <2>1. IsFiniteSet(s) /\ Counts(u, k, s)
      BY FS_Subset DEF Counts
    <2>2. PICK v : Totals(v, u, k, s) /\ SumOf(u, k, s) = v[s]
      BY <2>1, SumIsTotal
    <2>3. v[s] = t[s]
      <3>1. Totals(v, u, k, s) /\ Totals(t, u, k, S) /\ IsFiniteSet(s)
        BY <1>1, <2>1, <2>2
      <3> QED
        BY <3>1, TotalsAgree
    <2> QED
      BY <2>2, <2>3
  <1>3. \A s \in SUBSET S : t[s] = IF s = {} THEN 0 ELSE u[First(s)][k] + t[s \ {First(s)}]
    BY <1>1 DEF Totals
  <1>4. {} \in SUBSET S /\ S \in SUBSET S /\ S \ {First(S)} \in SUBSET S
    OBVIOUS
  <1>5. S # {} => First(S) \in S
    BY DEF First
  <1> QED
    BY <1>1, <1>2, <1>3, <1>4, <1>5

\* The sum does not depend on which element is taken first.
LEMMA SumRemove ==
  ASSUME NEW u, NEW k, NEW S, IsFiniteSet(S), Counts(u, k, S), NEW x \in S
  PROVE  SumOf(u, k, S) = u[x][k] + SumOf(u, k, S \ {x})
  <1> DEFINE Q == {s \in SUBSET S : \A y \in s :
                      SumOf(u, k, s) = u[y][k] + SumOf(u, k, s \ {y})}
             N == {n \in Nat : \A s \in SUBSET S : Cardinality(s) = n => s \in Q}
  <1>1. \A s \in SUBSET S : /\ IsFiniteSet(s) /\ Cardinality(s) \in Nat /\ Counts(u, k, s)
                            /\ SumOf(u, k, s) \in Nat
    <2> TAKE s \in SUBSET S
    <2>1. IsFiniteSet(s) /\ Cardinality(s) \in Nat /\ Counts(u, k, s)
      BY FS_Subset, FS_CardinalityType DEF Counts
    <2> QED
      BY <2>1, SumFirst
  <1>2. 0 \in N
    <2>1. \A s \in SUBSET S : Cardinality(s) = 0 => s = {}
      BY <1>1, FS_EmptySet
    <2> QED
      BY <2>1
  <1>3. ASSUME NEW n \in Nat, n \in N
        PROVE  n + 1 \in N
    <2> SUFFICES ASSUME NEW s \in SUBSET S, Cardinality(s) = n + 1, NEW y \in s
                 PROVE  SumOf(u, k, s) = u[y][k] + SumOf(u, k, s \ {y})
      OBVIOUS
    <2> DEFINE z == First(s)
    <2>1. z \in s /\ SumOf(u, k, s) = u[z][k] + SumOf(u, k, s \ {z})
      BY <1>1, SumFirst
    <2>2. CASE y = z
      BY <2>1, <2>2
    <2>3. CASE y # z
      <3>1. /\ s \ {y} \in SUBSET S /\ s \ {z} \in SUBSET S
            /\ Cardinality(s \ {y}) = n /\ Cardinality(s \ {z}) = n
        <4>1. /\ Cardinality(s \ {y}) = Cardinality(s) - 1
              /\ Cardinality(s \ {z}) = Cardinality(s) - 1
          BY <1>1, <2>1, FS_RemoveElement
        <4> QED
          BY <4>1
      <3>2. s \ {y} \in Q /\ s \ {z} \in Q
        BY <1>3, <3>1
      <3>3. (s \ {y}) \ {z} = (s \ {z}) \ {y}
        OBVIOUS
      <3>4. SumOf(u, k, s \ {y}) = u[z][k] + SumOf(u, k, (s \ {z}) \ {y})
        BY <2>1, <2>3, <3>2, <3>3
      <3>5. SumOf(u, k, s \ {z}) = u[y][k] + SumOf(u, k, (s \ {z}) \ {y})
        BY <2>3, <3>2
      <3>6. /\ u[y][k] \in Nat /\ u[z][k] \in Nat
            /\ SumOf(u, k, (s \ {z}) \ {y}) \in Nat
        <4>1. (s \ {z}) \ {y} \in SUBSET S
          OBVIOUS
        <4>2. u[y][k] \in Nat /\ u[z][k] \in Nat
          BY <2>1 DEF Counts
        <4> QED
          BY <1>1, <4>1, <4>2
      <3> HIDE DEF z, Q, N
      <3> QED
        BY <2>1, <3>4, <3>5, <3>6
    <2> QED
      BY <2>2, <2>3
  <1>4. Nat \subseteq N
    <2> HIDE DEF N
    <2> QED
      BY <1>2, <1>3, NatSetInduction
  <1>5. S \in Q
    BY <1>1, <1>4
  <1> QED
    BY <1>5

\* Adding an account adds what it counts.
LEMMA SumAdd ==
  ASSUME NEW u, NEW k, NEW S, IsFiniteSet(S), NEW x, x \notin S, Counts(u, k, S \cup {x})
  PROVE  SumOf(u, k, S \cup {x}) = u[x][k] + SumOf(u, k, S)
  <1>1. IsFiniteSet(S \cup {x})
    BY FS_AddElement
  <1>2. (S \cup {x}) \ {x} = S /\ x \in S \cup {x}
    OBVIOUS
  <1>3. SumOf(u, k, S \cup {x}) = u[x][k] + SumOf(u, k, (S \cup {x}) \ {x})
    BY <1>1, <1>2, SumRemove
  <1> QED
    BY <1>2, <1>3

\* Counters that agree on a set have the same sum there.
LEMMA SumSame ==
  ASSUME NEW u, NEW v, NEW k, NEW S, IsFiniteSet(S), Counts(u, k, S),
         \A c \in S : v[c][k] = u[c][k]
  PROVE  SumOf(v, k, S) = SumOf(u, k, S)
  <1> DEFINE Q == {s \in SUBSET S : SumOf(v, k, s) = SumOf(u, k, s)}
  <1>1. \A s \in SUBSET S : IsFiniteSet(s) /\ Counts(u, k, s) /\ Counts(v, k, s)
    BY FS_Subset DEF Counts
  <1>2. {} \in Q
    BY <1>1, SumFirst
  <1>3. ASSUME NEW T \in SUBSET S, NEW x \in T, T \ {x} \in Q
        PROVE  T \in Q
    <2>1. /\ SumOf(u, k, T) = u[x][k] + SumOf(u, k, T \ {x})
          /\ SumOf(v, k, T) = v[x][k] + SumOf(v, k, T \ {x})
      BY <1>1, SumRemove
    <2>2. v[x][k] = u[x][k]
      OBVIOUS
    <2> QED
      BY <1>3, <2>1, <2>2
  <1>4. SUBSET S \subseteq Q
    <2> HIDE DEF Q
    <2> QED
      BY <1>2, <1>3, SubsetInduction
  <1> QED
    BY <1>4

\* Charging one account of the set once adds one to the sum.
LEMMA SumCharge ==
  ASSUME NEW u, NEW v, NEW k, NEW S, IsFiniteSet(S), Counts(u, k, S), NEW x \in S,
         v[x][k] = u[x][k] + 1, \A c \in S \ {x} : v[c][k] = u[c][k]
  PROVE  SumOf(v, k, S) = SumOf(u, k, S) + 1
  <1>1. IsFiniteSet(S \ {x}) /\ Counts(u, k, S \ {x}) /\ Counts(v, k, S)
    BY FS_RemoveElement DEF Counts
  <1>2. SumOf(v, k, S \ {x}) = SumOf(u, k, S \ {x})
    BY <1>1, SumSame
  <1>3. SumOf(u, k, S) = u[x][k] + SumOf(u, k, S \ {x})
    BY SumRemove
  <1>4. SumOf(v, k, S) = v[x][k] + SumOf(v, k, S \ {x})
    BY <1>1, SumRemove
  <1>5. u[x][k] \in Nat /\ SumOf(u, k, S \ {x}) \in Nat
    BY <1>1, SumFirst DEF Counts
  <1> QED
    BY <1>2, <1>3, <1>4, <1>5
=============================================================================
