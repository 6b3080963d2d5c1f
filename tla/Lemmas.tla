------------------------------- MODULE Lemmas -------------------------------
(* What the proofs about several components need and no library states: the   *)
(* two forms of induction that ask for no operator (a set of numbers, or of   *)
(* subsets of a finite set, has a least element, so there is no first         *)
(* counterexample), recursion over numbers, sorting, sums over finite sets,   *)
(* filtered and joined lists, and what a division tells about a product of    *)
(* words that may have wrapped around.                                        *)
EXTENDS Integers, Sequences, FiniteSets, FiniteSetsExt, SequencesExt, Filter,
        FiniteSetTheorems, SequenceTheorems, WellFoundedInduction, TLAPS

(* Induction over numbers: a set of counterexamples has a least one.          *)
LEMMA LeastNat ==
  ASSUME NEW T, T \subseteq Nat, T # {}
  PROVE  \E n \in T : \A m \in T : n <= m
<1>1. PICK n \in T : \A m \in T : ~ (<<m, n>> \in OpToRel(<, Nat))
  BY NatLessThanWellFounded, WFMin
<1>2. ASSUME NEW m \in T PROVE n <= m
  <2>1. ~ (m < n)
    BY <1>1 DEF OpToRel
  <2> QED BY <2>1
<1> QED BY <1>1, <1>2

(* Induction over the subsets of a finite set: among the counterexamples is   *)
(* one that contains no other.                                                *)
LEMMA SmallestSet ==
  ASSUME NEW S, IsFiniteSet(S), NEW T, T \subseteq SUBSET S, T # {}
  PROVE  \E s \in T : \A u \in T : u \subseteq s => u = s
<1>1. FiniteSubsetsOf(S) = SUBSET S
  BY FS_FiniteSubsetsOfFinite
<1>2. IsWellFoundedOn(StrictSubsetOrdering(S), SUBSET S)
  BY <1>1, FS_StrictSubsetOrderingWellFounded
<1>3. PICK s \in T : \A u \in T : ~ (<<u, s>> \in StrictSubsetOrdering(S))
  BY <1>2, WFMin
<1>4. ASSUME NEW u \in T, u \subseteq s PROVE u = s
  BY <1>3, <1>4 DEF StrictSubsetOrdering
<1> QED BY <1>3, <1>4

-----------------------------------------------------------------------------
(* Recursion.                                                                 *)
\* h takes a number and the value before it to the next value.
Steps(h, N, V) == \A n \in 1 .. N : \A x \in V : h[<<n, x>>] \in V

(* A recursion over the numbers up to N has a solution, and its values are of *)
(* the type V that every step keeps.                                          *)
LEMMA RecursionExists ==
  ASSUME NEW N \in Nat, NEW V, NEW v \in V, NEW h, Steps(h, N, V)
  PROVE  \E f \in [0 .. N -> V] :
           f[0] = v /\ \A n \in 1 .. N : f[n] = h[<<n, f[n - 1]>>]
<1> DEFINE Solves(f, m) == f[0] = v /\ \A n \in 1 .. m : f[n] = h[<<n, f[n - 1]>>]
           T == {m \in 0 .. N : ~ \E f \in [0 .. m -> V] : Solves(f, m)}
<1> SUFFICES ASSUME T # {} PROVE FALSE
  <2> HIDE DEF T
  <2>1. N \in 0 .. N
    OBVIOUS
  <2> QED BY <2>1 DEF T
<1>1. PICK m \in T : \A k \in T : m <= k
  <2>1. T \subseteq Nat
    OBVIOUS
  <2> HIDE DEF T
  <2> QED BY <2>1, LeastNat
<1>2. m \in 0 .. N /\ \A f \in [0 .. m -> V] : ~ Solves(f, m)
  BY <1>1
<1>3. CASE m = 0
  <2> DEFINE f == [n \in 0 .. 0 |-> v]
  <2>1. f \in [0 .. m -> V] /\ f[0] = v /\ \A n \in 1 .. m : FALSE
    BY <1>3
  <2> HIDE DEF f
  <2> QED BY <1>2, <2>1
<1>4. CASE m # 0
  <2>1. m - 1 \in 0 .. N /\ m \in 1 .. N /\ m - 1 < m /\ m - 1 \in 0 .. m - 1
    BY <1>2, <1>4
  <2>2. m - 1 \notin T
    <3>1. ~ (m <= m - 1)
      BY <2>1
    <3> HIDE DEF T
    <3> QED BY <1>1, <3>1
  <2>3. PICK f \in [0 .. m - 1 -> V] : Solves(f, m - 1)
    BY <2>1, <2>2
  <2>4. f[m - 1] \in V /\ h[<<m, f[m - 1]>>] \in V
    BY <2>1, <2>3 DEF Steps
  <2> DEFINE g == [n \in 0 .. m |-> IF n = m THEN h[<<m, f[m - 1]>>] ELSE f[n]]
  <2>5. /\ \A n \in 0 .. m : n = m \/ n \in 0 .. m - 1
        /\ \A n \in 1 .. m : n = m \/ n \in 1 .. m - 1
        /\ \A n \in 1 .. m : n - 1 \in 0 .. m - 1 /\ n - 1 # m
        /\ m \in 0 .. m /\ 0 \in 0 .. m /\ 0 # m /\ \A n \in 1 .. m : n \in 0 .. m
        /\ \A n \in 0 .. m - 1 : n \in 0 .. m
    BY <2>1
  <2>6. g \in [0 .. m -> V]
    BY <2>3, <2>4, <2>5
  <2>7. g[0] = v
    BY <2>3, <2>5
  <2>8. ASSUME NEW n \in 1 .. m PROVE g[n] = h[<<n, g[n - 1]>>]
    <3>1. g[n - 1] = f[n - 1]
      BY <2>5
    <3>2. CASE n = m
      BY <2>5, <3>1, <3>2
    <3>3. CASE n # m
      <4>1. n \in 1 .. m - 1
        BY <2>5, <3>3
      <4>2. g[n] = f[n]
        BY <2>5, <3>3
      <4> QED BY <2>3, <3>1, <4>1, <4>2
    <3> QED BY <3>2, <3>3
  <2>9. Solves(g, m)
    <3> HIDE DEF g
    <3> QED BY <2>7, <2>8
  <2> HIDE DEF g, Solves
  <2> QED BY <1>2, <2>6, <2>9
<1> QED BY <1>3, <1>4

-----------------------------------------------------------------------------
(* Sorting.  An order is a set of pairs here: a proof cannot be given an      *)
(* operator.                                                                  *)
IsOrder(R, S) ==
  /\ \A i \in S : <<i, i>> \notin R
  /\ \A i, j, k \in S : <<i, j>> \in R /\ <<j, k>> \in R => <<i, k>> \in R
  /\ \A i, j \in S : i # j => <<i, j>> \in R \/ <<j, i>> \in R

(* A finite set has a last element.                                           *)
LEMMA LastInOrder ==
  ASSUME NEW S, IsFiniteSet(S), S # {}, NEW R, IsOrder(R, S)
  PROVE  \E m \in S : \A i \in S \ {m} : <<i, m>> \in R
<1> DEFINE IsLast(m, s) == \A i \in s \ {m} : <<i, m>> \in R
           T == {s \in SUBSET S : s # {} /\ ~ \E m \in s : IsLast(m, s)}
<1>1. T = {}
  <2> SUFFICES ASSUME T # {} PROVE FALSE
    OBVIOUS
  <2>1. PICK s \in T : \A u \in T : u \subseteq s => u = s
    <3>1. T \subseteq SUBSET S
      OBVIOUS
    <3> HIDE DEF T
    <3> QED BY <3>1, SmallestSet
  <2>2. PICK p \in s : TRUE
    BY <2>1
  <2>3. s \in SUBSET S /\ ~ \E m \in s : IsLast(m, s)
    BY <2>1
  <2>4. s \ {p} # {}
    BY <2>2, <2>3
  <2>5. s \ {p} \notin T
    <3>1. s \ {p} # s
      BY <2>2
    <3> HIDE DEF T
    <3> QED BY <2>1, <3>1
  <2>6. PICK q \in s \ {p} : IsLast(q, s \ {p})
    BY <2>3, <2>4, <2>5
  <2>7. CASE <<q, p>> \in R
    <3>1. IsLast(p, s)
      BY <2>2, <2>3, <2>6, <2>7 DEF IsOrder
    <3> QED BY <2>2, <2>3, <3>1
  <2>8. CASE <<p, q>> \in R
    <3>1. IsLast(q, s)
      BY <2>2, <2>3, <2>6, <2>8 DEF IsOrder
    <3> QED BY <2>3, <2>6, <3>1
  <2> QED BY <2>2, <2>3, <2>6, <2>7, <2>8 DEF IsOrder
<1>2. S \notin T
  <2> HIDE DEF T
  <2> QED BY <1>1
<1> QED BY <1>2

(* All of it can be listed in that order.                                     *)
LEMMA ListedInOrder ==
  ASSUME NEW S, IsFiniteSet(S), NEW R, IsOrder(R, S)
  PROVE  \E o \in [1 .. Cardinality(S) -> S] :
           /\ {o[a] : a \in 1 .. Cardinality(S)} = S
           /\ \A a, b \in 1 .. Cardinality(S) : a < b => <<o[a], o[b]>> \in R
<1> DEFINE Lists(o, s) == /\ {o[a] : a \in 1 .. Cardinality(s)} = s
                          /\ \A a, b \in 1 .. Cardinality(s) : a < b => <<o[a], o[b]>> \in R
           T == {s \in SUBSET S : ~ \E o \in [1 .. Cardinality(s) -> s] : Lists(o, s)}
<1>1. T = {}
  <2> SUFFICES ASSUME T # {} PROVE FALSE
    OBVIOUS
  <2>1. PICK s \in T : \A u \in T : u \subseteq s => u = s
    <3>1. T \subseteq SUBSET S
      OBVIOUS
    <3> HIDE DEF T
    <3> QED BY <3>1, SmallestSet
  <2>2. s \in SUBSET S /\ IsFiniteSet(s) /\ IsOrder(R, s)
    BY <2>1, FS_Subset DEF IsOrder
  <2>3. ASSUME NEW o \in [1 .. Cardinality(s) -> s] PROVE ~ Lists(o, s)
    BY <2>1
  <2>4. s # {}
    <3> SUFFICES ASSUME s = {} PROVE FALSE
      OBVIOUS
    <3>1. Cardinality(s) = 0
      BY FS_EmptySet
    <3>2. 1 .. 0 = {}
      OBVIOUS
    <3> DEFINE o == [a \in {} |-> a]
    <3>3. o \in [1 .. Cardinality(s) -> s]
      BY <3>1, <3>2
    <3>4. Lists(o, s)
      BY <3>1, <3>2
    <3> HIDE DEF Lists
    <3> QED BY <2>3, <3>3, <3>4
  <2>5. PICK m \in s : \A i \in s \ {m} : <<i, m>> \in R
    BY <2>2, <2>4, LastInOrder
  <2> DEFINE u == s \ {m}
             n == Cardinality(u)
  <2>6. n \in Nat /\ Cardinality(s) = n + 1 /\ u \in SUBSET S
    BY <2>2, FS_RemoveElement, FS_CardinalityType, FS_Subset
  <2>7. u \notin T
    <3>1. u # s
      BY <2>5
    <3> HIDE DEF T
    <3> QED BY <2>1, <3>1
  <2>8. PICK o \in [1 .. n -> u] : Lists(o, u)
    BY <2>6, <2>7
  <2> DEFINE p == [a \in 1 .. n + 1 |-> IF a = n + 1 THEN m ELSE o[a]]
  <2>9. p \in [1 .. Cardinality(s) -> s]
    <3>1. \A a \in 1 .. n + 1 : a # n + 1 => a \in 1 .. n
      BY <2>6
    <3>2. \A a \in 1 .. n : o[a] \in s
      BY <2>8
    <3> HIDE DEF n
    <3> QED BY <2>5, <2>6, <3>1, <3>2
  <2>10. /\ p[n + 1] = m
         /\ \A a \in 1 .. n : p[a] = o[a] /\ o[a] \in u
         /\ \A a \in 1 .. n + 1 : a = n + 1 \/ a \in 1 .. n
         /\ n + 1 \in 1 .. n + 1
    <3> HIDE DEF u, n
    <3> QED BY <2>6, <2>8
  <2>11. {p[a] : a \in 1 .. n + 1} = s
    <3>1. {o[a] : a \in 1 .. n} = u
      BY <2>8
    <3>2. \A a \in 1 .. n : a \in 1 .. n + 1
      BY <2>6
    <3> HIDE DEF p, n
    <3> QED BY <2>5, <2>10, <3>1, <3>2
  <2>12. ASSUME NEW a \in 1 .. n + 1, NEW b \in 1 .. n + 1, a < b
         PROVE  <<p[a], p[b]>> \in R
    <3>1. a \in 1 .. n
      BY <2>6, <2>12
    <3>2. CASE b = n + 1
      <4> HIDE DEF p, n
      <4> QED BY <2>5, <2>10, <3>1, <3>2
    <3>3. CASE b \in 1 .. n
      <4>1. <<o[a], o[b]>> \in R
        BY <2>8, <2>12, <3>1, <3>3
      <4> HIDE DEF p, n
      <4> QED BY <2>10, <3>1, <3>3, <4>1
    <3> QED BY <2>10, <3>2, <3>3
  <2>13. Lists(p, s)
    <3> HIDE DEF p
    <3> QED BY <2>6, <2>11, <2>12
  <2> HIDE DEF p, Lists
  <2> QED BY <2>3, <2>9, <2>13
<1>2. S \notin T
  <2> HIDE DEF T
  <2> QED BY <1>1
<1> QED BY <1>2

-----------------------------------------------------------------------------
(* MapThenSumSet, which adds the values of the elements in the order in which *)
(* CHOOSE picks them.  A proof cannot compare two operators, so a sum is that *)
(* of a function f; Summing says what is known of the partial sums g.         *)

Pick(s) == CHOOSE x \in s : TRUE

SumFcn(g, f, S) ==
  g = [s \in SUBSET S |-> IF s = {} THEN 0 ELSE f[Pick(s)] + g[s \ {Pick(s)}]]

Summing(g, f, S) ==
  /\ g[{}] = 0
  /\ \A s \in SUBSET S : s # {} =>
       /\ Pick(s) \in s /\ s \ {Pick(s)} \in SUBSET S /\ s \ {Pick(s)} # s
       /\ g[s] = f[Pick(s)] + g[s \ {Pick(s)}]

(* The recursion that MapThenFoldSet is defined by has a solution.            *)
LEMMA SumFcnExists ==
  ASSUME NEW f, NEW S, IsFiniteSet(S)
  PROVE  \E g : SumFcn(g, f, S)
<1> DEFINE Sub(n) == {s \in SUBSET S : Cardinality(s) <= n}
           Fits(g, n) == /\ DOMAIN g = Sub(n)
                    /\ \A s \in Sub(n) : g[s] = IF s = {} THEN 0 ELSE f[Pick(s)] + g[s \ {Pick(s)}]
           T == {n \in Nat : ~ \E g : Fits(g, n)}
<1>0. \A s \in SUBSET S : IsFiniteSet(s) /\ Cardinality(s) \in Nat /\ Cardinality(s) <= Cardinality(S)
  BY FS_Subset, FS_CardinalityType
<1>00. Cardinality(S) \in Nat
  BY FS_CardinalityType
<1>a. \A s \in SUBSET S : s # {} => Pick(s) \in s /\ Cardinality(s \ {Pick(s)}) = Cardinality(s) - 1 /\ s \ {Pick(s)} \in SUBSET S
  <2> TAKE s \in SUBSET S
  <2> HAVE s # {}
  <2>1. Pick(s) \in s
    BY DEF Pick
  <2>2. Cardinality(s \ {Pick(s)}) = Cardinality(s) - 1
    BY <2>1, <1>0, FS_RemoveElement
  <2> QED BY <2>1, <2>2
<1>1. T = {}
  <2> SUFFICES ASSUME T # {} PROVE FALSE
    OBVIOUS
  <2>1. PICK n \in T : \A m \in T : n <= m
    <3>1. T \subseteq Nat
      OBVIOUS
    <3> HIDE DEF T
    <3> QED BY <3>1, LeastNat
  <2>2. n # 0
    <3> SUFFICES ASSUME n = 0 PROVE FALSE
      OBVIOUS
    <3>1. Sub(0) = {{}}
      BY <1>0, FS_EmptySet
    <3>2. Fits([s \in Sub(0) |-> 0], 0)
      BY <3>1
    <3> QED BY <3>2
  <2>3. PICK g : Fits(g, n - 1)
    <3>0. n \in Nat
      BY <2>1
    <3>1. n - 1 \in Nat /\ ~ (n <= n - 1)
      BY <3>0, <2>2
    <3>2. ~ (n - 1 \in T)
      <4> HIDE DEF T
      <4> QED BY <2>1, <3>1
    <3> QED BY <3>1, <3>2
  <2> DEFINE h == [s \in Sub(n) |-> IF s \in Sub(n - 1) THEN g[s]
                                    ELSE IF s = {} THEN 0 ELSE f[Pick(s)] + g[s \ {Pick(s)}]]
  <2>4. \A s \in Sub(n - 1) : s \in Sub(n)
    BY <1>0
  <2>5. \A s \in Sub(n) : s # {} => s \ {Pick(s)} \in Sub(n - 1) /\ s \ {Pick(s)} \in Sub(n)
    BY <1>0, <1>a
  <2>6. \A s \in Sub(n) : s # {} => h[s \ {Pick(s)}] = g[s \ {Pick(s)}]
    BY <2>5
  <2>7. \A s \in Sub(n) : h[s] = IF s = {} THEN 0 ELSE f[Pick(s)] + h[s \ {Pick(s)}]
    <3> HIDE DEF Sub
    <3> QED BY <2>3, <2>5, <2>6
  <2>8. Fits(h, n)
    BY <2>7
  <2> HIDE DEF h
  <2> QED BY <2>8
<1>2. PICK g : Fits(g, Cardinality(S))
  BY <1>1, <1>00
<1>3. Sub(Cardinality(S)) = SUBSET S
  BY <1>0
<1> DEFINE h == [s \in SUBSET S |-> g[s]]
<1>4. \A s \in SUBSET S : h[s] = IF s = {} THEN 0 ELSE f[Pick(s)] + h[s \ {Pick(s)}]
  BY <1>2, <1>3
<1>5. h = [s \in SUBSET S |-> IF s = {} THEN 0 ELSE f[Pick(s)] + h[s \ {Pick(s)}]]
  BY <1>4
<1> QED BY <1>5 DEF SumFcn

(* What the recursion says of the partial sums.                               *)
LEMMA SumFcnUnfolds ==
  ASSUME NEW g, NEW f, NEW S, SumFcn(g, f, S)
  PROVE  Summing(g, f, S)
<1>1. \A s \in SUBSET S : g[s] = IF s = {} THEN 0 ELSE f[Pick(s)] + g[s \ {Pick(s)}]
  BY DEF SumFcn
<1>2. \A s : s # {} => Pick(s) \in s
  BY DEF Pick
<1>3. {} \in SUBSET S
  OBVIOUS
<1> QED BY <1>1, <1>2, <1>3 DEF Summing

(* A set that holds 0 and is closed under addition holds all partial sums of  *)
(* its members.                                                               *)
LEMMA SummingIn ==
  ASSUME NEW f, NEW S, IsFiniteSet(S), NEW g, Summing(g, f, S),
         NEW D, 0 \in D, \A a, b \in D : a + b \in D, \A x \in S : f[x] \in D
  PROVE  \A s \in SUBSET S : g[s] \in D
<1> DEFINE T == {s \in SUBSET S : ~ (g[s] \in D)}
<1> SUFFICES ASSUME T # {} PROVE FALSE
  OBVIOUS
<1>1. PICK s \in T : \A u \in T : u \subseteq s => u = s
  <2>1. T \subseteq SUBSET S
    OBVIOUS
  <2> HIDE DEF T
  <2> QED BY <2>1, SmallestSet
<1>2. s # {} /\ s \in SUBSET S
  BY DEF Summing
<1> DEFINE p == Pick(s)
<1>3. /\ g[s] = f[p] + g[s \ {p}]
      /\ p \in s /\ p \in S /\ s \ {p} \in SUBSET S /\ s \ {p} # s
  BY <1>2 DEF Summing
<1>4. g[s \ {p}] \in D
  BY <1>1, <1>3
<1> HIDE DEF p
<1>5. g[s] \in D
  BY <1>3, <1>4
<1> QED BY <1>5

(* A sum of integers is one.                                                  *)
LEMMA SummingInt ==
  ASSUME NEW f, NEW S, IsFiniteSet(S), NEW g, Summing(g, f, S), \A x \in S : f[x] \in Int
  PROVE  \A s \in SUBSET S : g[s] \in Int
<1>1. 0 \in Int /\ \A a, b \in Int : a + b \in Int
  OBVIOUS
<1> QED BY <1>1, SummingIn

(* Smaller summands have no greater sum.                                      *)
LEMMA SummingMonotone ==
  ASSUME NEW f, NEW e, NEW S, IsFiniteSet(S), NEW g, Summing(g, f, S), NEW h, Summing(h, e, S),
         \A x \in S : f[x] \in Int /\ e[x] \in Int /\ f[x] <= e[x]
  PROVE  \A s \in SUBSET S : g[s] <= h[s]
<1>2. \A u \in SUBSET S : g[u] \in Int /\ h[u] \in Int
  BY SummingInt
<1> DEFINE T == {s \in SUBSET S : ~ (g[s] <= h[s])}
<1> SUFFICES ASSUME T # {} PROVE FALSE
  OBVIOUS
<1>1. PICK s \in T : \A u \in T : u \subseteq s => u = s
  <2>1. T \subseteq SUBSET S
    OBVIOUS
  <2> HIDE DEF T
  <2> QED BY <2>1, SmallestSet
<1>5. s # {} /\ s \in SUBSET S
  BY DEF Summing
<1>6. g[s \ {Pick(s)}] <= h[s \ {Pick(s)}]
  BY <1>1, <1>5 DEF Summing
<1>7. g[s] <= h[s]
  <2>1. /\ g[s] = f[Pick(s)] + g[s \ {Pick(s)}] /\ h[s] = e[Pick(s)] + h[s \ {Pick(s)}]
        /\ Pick(s) \in S /\ s \ {Pick(s)} \in SUBSET S
    BY <1>5 DEF Summing
  <2>2. /\ f[Pick(s)] \in Int /\ e[Pick(s)] \in Int /\ f[Pick(s)] <= e[Pick(s)]
        /\ g[s \ {Pick(s)}] \in Int /\ h[s \ {Pick(s)}] \in Int
    BY <2>1, <1>2
  <2> QED BY <2>1, <2>2, <1>6
<1> QED BY <1>7

(* A summand that grows by k makes the sum grow by k.                         *)
LEMMA SummingChange ==
  ASSUME NEW f, NEW e, NEW S, IsFiniteSet(S), NEW g, Summing(g, f, S), NEW h, Summing(h, e, S),
         NEW x \in S, NEW k \in Int,
         \A y \in S : f[y] \in Int /\ e[y] = IF y = x THEN f[y] + k ELSE f[y]
  PROVE  \A s \in SUBSET S : h[s] = IF x \in s THEN g[s] + k ELSE g[s]
<1>2. \A u \in SUBSET S : g[u] \in Int
  BY SummingInt
<1> DEFINE T == {s \in SUBSET S : h[s] # IF x \in s THEN g[s] + k ELSE g[s]}
<1> SUFFICES ASSUME T # {} PROVE FALSE
  OBVIOUS
<1>1. PICK s \in T : \A u \in T : u \subseteq s => u = s
  <2>1. T \subseteq SUBSET S
    OBVIOUS
  <2> HIDE DEF T
  <2> QED BY <2>1, SmallestSet
<1>5. s # {} /\ s \in SUBSET S
  BY DEF Summing
<1> DEFINE p == Pick(s)
<1>6. /\ g[s] = f[p] + g[s \ {p}] /\ h[s] = e[p] + h[s \ {p}]
      /\ p \in s /\ p \in S /\ s \ {p} \in SUBSET S /\ s \ {p} # s
  BY <1>5 DEF Summing
<1>7. h[s \ {p}] = IF x \in s \ {p} THEN g[s \ {p}] + k ELSE g[s \ {p}]
  BY <1>1, <1>6
<1>8. f[p] \in Int /\ g[s \ {p}] \in Int /\ e[p] = IF p = x THEN f[p] + k ELSE f[p]
  BY <1>2, <1>6
<1> HIDE DEF p
<1>9. h[s] = IF x \in s THEN g[s] + k ELSE g[s]
  BY <1>6, <1>7, <1>8
<1> QED BY <1>9

(* The partial sums of a smaller set are the same.                            *)
LEMMA SummingUnique ==
  ASSUME NEW f, NEW e, NEW S, IsFiniteSet(S), NEW R, S \subseteq R,
         NEW g, Summing(g, f, S), NEW h, Summing(h, e, R),
         \A y \in S : e[y] = f[y]
  PROVE  \A s \in SUBSET S : h[s] = g[s]
<1> DEFINE T == {s \in SUBSET S : h[s] # g[s]}
<1> SUFFICES ASSUME T # {} PROVE FALSE
  OBVIOUS
<1>1. PICK s \in T : \A u \in T : u \subseteq s => u = s
  <2>1. T \subseteq SUBSET S
    OBVIOUS
  <2> HIDE DEF T
  <2> QED BY <2>1, SmallestSet
<1>5. s # {} /\ s \in SUBSET S /\ s \in SUBSET R
  BY DEF Summing
<1> DEFINE p == Pick(s)
<1>6. /\ g[s] = f[p] + g[s \ {p}] /\ h[s] = e[p] + h[s \ {p}]
      /\ p \in s /\ p \in S /\ s \ {p} \in SUBSET S /\ s \ {p} # s
  BY <1>5 DEF Summing
<1>7. h[s \ {p}] = g[s \ {p}]
  BY <1>1, <1>6
<1> HIDE DEF p
<1> QED BY <1>6, <1>7

(* Any element may be the one that is added last: the order does not matter.  *)
LEMMA SummingRemove ==
  ASSUME NEW f, NEW S, IsFiniteSet(S), NEW g, Summing(g, f, S), \A y \in S : f[y] \in Int
  PROVE  \A s \in SUBSET S : \A x \in s : g[s] = f[x] + g[s \ {x}]
<1> DEFINE T == {s \in SUBSET S : \E x \in s : g[s] # f[x] + g[s \ {x}]}
<1> SUFFICES ASSUME T # {} PROVE FALSE
  OBVIOUS
<1>1. PICK s \in T : \A u \in T : u \subseteq s => u = s
  <2>1. T \subseteq SUBSET S
    OBVIOUS
  <2> HIDE DEF T
  <2> QED BY <2>1, SmallestSet
<1>2. PICK x \in s : g[s] # f[x] + g[s \ {x}]
  OBVIOUS
<1> DEFINE p == Pick(s)
<1>4. \A u \in SUBSET S : g[u] \in Int
  BY SummingInt
<1>5. /\ g[s] = f[p] + g[s \ {p}]
      /\ p \in s /\ p \in S /\ x \in S /\ s \in SUBSET S /\ s \ {p} \in SUBSET S /\ s \ {p} # s
  BY <1>2 DEF Summing
<1> HIDE DEF p
<1>6. x # p
  BY <1>2, <1>5
<1>7. g[s \ {p}] = f[x] + g[(s \ {p}) \ {x}]
  BY <1>1, <1>5, <1>6
<1>8. g[s \ {x}] = f[p] + g[(s \ {x}) \ {p}]
  <2>1. s \ {x} \in SUBSET S /\ s \ {x} # s /\ p \in s \ {x}
    BY <1>5, <1>6
  <2> QED BY <1>1, <2>1
<1>9. (s \ {p}) \ {x} = (s \ {x}) \ {p} /\ (s \ {x}) \ {p} \in SUBSET S
  BY <1>5
<1>10. f[x] \in Int /\ f[p] \in Int /\ g[(s \ {x}) \ {p}] \in Int
  BY <1>4, <1>5, <1>9
<1> DEFINE c == g[(s \ {x}) \ {p}]
<1>11. g[s] = f[p] + (f[x] + c) /\ g[s \ {x}] = f[p] + c
  BY <1>5, <1>7, <1>8, <1>9
<1>12. g[s] = f[x] + g[s \ {x}]
  <2>1. c \in Int
    BY <1>10
  <2> HIDE DEF c
  <2> QED BY <1>10, <1>11, <2>1
<1> QED BY <1>2, <1>12

(* Two sums over different sets agree when every element of the second has its *)
(* own equal in the first, and the others of the first are 0.                 *)
LEMMA SummingMatched ==
  ASSUME NEW S, IsFiniteSet(S), NEW f, NEW g, Summing(g, f, S),
         NEW T, IsFiniteSet(T), NEW e, NEW h, Summing(h, e, T),
         \A x \in S : f[x] \in Int, \A t \in T : e[t] \in Int,
         NEW m, \A t \in T : m[t] \in S /\ e[t] = f[m[t]],
         \A t, u \in T : m[t] = m[u] => t = u,
         \A x \in S : f[x] = 0 \/ \E t \in T : m[t] = x
  PROVE  g[S] = h[T]
<1> DEFINE At(s) == {t \in T : m[t] \in s}
           C == {s \in SUBSET S : g[s] # h[At(s)]}
<1>1. C = {}
  <2> SUFFICES ASSUME C # {} PROVE FALSE
    OBVIOUS
  <2>1. PICK s \in C : \A u \in C : u \subseteq s => u = s
    <3>1. C \subseteq SUBSET S
      OBVIOUS
    <3> HIDE DEF C
    <3> QED BY <3>1, SmallestSet
  <2>2. s # {} /\ s \in SUBSET S
    <3>1. At({}) = {}
      OBVIOUS
    <3>2. g[{}] = 0 /\ h[{}] = 0
      BY DEF Summing
    <3> QED BY <3>1, <3>2
  <2> DEFINE p == Pick(s)
             r == s \ {p}
  <2>3. g[s] = f[p] + g[r] /\ p \in s /\ p \in S /\ r \in SUBSET S /\ r # s
    BY <2>2 DEF Summing
  <2> HIDE DEF p
  <2>4. g[r] = h[At(r)]
    BY <2>1, <2>3
  <2>5. g[r] \in Int /\ f[p] \in Int
    <3>1. \A u \in SUBSET S : g[u] \in Int
      BY SummingInt
    <3> QED BY <3>1, <2>3
  <2>6. CASE \E t \in T : m[t] = p
    <3>1. PICK t \in T : m[t] = p
      BY <2>6
    <3>2. At(s) \in SUBSET T /\ t \in At(s)
      BY <3>1, <2>3
    <3>3. At(r) = At(s) \ {t}
      BY <3>1, <2>3
    <3>5. h[At(s)] = e[t] + h[At(r)]
      <4>1. h[At(s)] = e[t] + h[At(s) \ {t}]
        <5> HIDE DEF At
        <5> QED BY <3>2, SummingRemove
      <4> QED BY <4>1, <3>3
    <3>6. e[t] = f[p]
      BY <3>1
    <3> QED BY <2>1, <2>3, <2>4, <3>5, <3>6
  <2>7. CASE ~ \E t \in T : m[t] = p
    <3>1. f[p] = 0
      BY <2>3, <2>7
    <3>2. At(r) = At(s)
      BY <2>3, <2>7
    <3>3. g[s] = g[r]
      BY <2>3, <2>5, <3>1
    <3> QED BY <2>1, <2>4, <3>2, <3>3
  <2> QED BY <2>6, <2>7
<1>2. At(S) = T
  OBVIOUS
<1>3. S \in SUBSET S /\ ~ (S \in C)
  BY <1>1
<1> QED BY <1>2, <1>3

-----------------------------------------------------------------------------
(* Lists. Filtered is a recursive function; what it computes for a list of    *)
(* any length is shown by the least counterexample (LeastNat).                *)

(* A function on 1 .. n is a sequence of length n.                            *)
LEMMA Tuple ==
  ASSUME NEW n \in Nat, NEW S, NEW f \in [1 .. n -> S]
  PROVE  f \in Seq(S) /\ Len(f) = n
<1>1. f \in Seq(S)
  OBVIOUS
<1> QED BY <1>1, LenProperties

Keeps(x, S, before) == IF x \in S THEN Append(before, x) ELSE before

FilterFcn(f, s, S, N) == f = [n \in 0 .. N |-> IF n = 0 THEN <<>> ELSE Keeps(s[n], S, f[n - 1])]

(* The recursion that Filtered is defined by has a solution.                  *)
LEMMA FilteredExists ==
  ASSUME NEW s, NEW S, NEW N \in Nat
  PROVE  \E f : FilterFcn(f, s, S, N)
<1> DEFINE Fits(f, m) == FilterFcn(f, s, S, m)
           T == {m \in Nat : ~ \E f : Fits(f, m)}
<1> SUFFICES ASSUME T # {} PROVE FALSE
  OBVIOUS
<1>1. PICK m \in T : \A k \in T : m <= k
  <2>1. T \subseteq Nat
    OBVIOUS
  <2> HIDE DEF T
  <2> QED BY <2>1, LeastNat
<1>2. m \in Nat /\ \A f : ~Fits(f, m)
  BY <1>1
<1>3. CASE m = 0
  <2> DEFINE f == [n \in 0 .. 0 |-> <<>>]
  <2>1. \A n \in 0 .. m : n = 0
    BY <1>3
  <2>2. f = [n \in 0 .. m |-> IF n = 0 THEN <<>> ELSE Keeps(s[n], S, f[n - 1])]
    BY <1>3, <2>1
  <2> QED BY <1>2, <2>2 DEF FilterFcn
<1>4. CASE m > 0
  <2>1. m - 1 \in Nat /\ m - 1 \notin T
    BY <1>1, <1>2, <1>4
  <2>2. PICK f : Fits(f, m - 1)
    BY <2>1
  <2> DEFINE g == [n \in 0 .. m |-> IF n = m THEN Keeps(s[m], S, f[m - 1]) ELSE f[n]]
  <2>3. \A n \in 0 .. m : n # 0 => g[n - 1] = f[n - 1]
    BY <1>2
  <2>4. \A n \in 0 .. m : g[n] = IF n = 0 THEN <<>> ELSE Keeps(s[n], S, g[n - 1])
    <3> TAKE n \in 0 .. m
    <3>1. CASE n = m
      BY <1>2, <1>4, <2>3, <3>1
    <3>2. CASE n # m
      <4>1. n \in 0 .. m - 1
        BY <1>2, <3>2
      <4>2. f[n] = IF n = 0 THEN <<>> ELSE Keeps(s[n], S, f[n - 1])
        BY <2>2, <4>1 DEF FilterFcn
      <4> QED BY <2>3, <3>2, <4>2
    <3> QED BY <3>1, <3>2
  <2>5. Fits(g, m)
    <3>1. g = [n \in 0 .. m |-> g[n]]
      OBVIOUS
    <3> HIDE DEF g
    <3> QED BY <2>4, <3>1 DEF FilterFcn
  <2> QED BY <1>2, <2>5
<1> QED BY <1>2, <1>3, <1>4

LEMMA FilteredUnfolds ==
  ASSUME NEW s, NEW S, Len(s) \in Nat
  PROVE  /\ Filtered(s, S)[0] = <<>>
         /\ \A n \in 1 .. Len(s) : Filtered(s, S)[n] =
              IF s[n] \in S THEN Append(Filtered(s, S)[n - 1], s[n]) ELSE Filtered(s, S)[n - 1]
<1> DEFINE Eqn(f) == f = [n \in 0 .. Len(s) |->
                           IF n = 0 THEN <<>>
                           ELSE IF s[n] \in S THEN Append(f[n - 1], s[n]) ELSE f[n - 1]]
           it == CHOOSE f : Eqn(f)
<1>1. PICK f : FilterFcn(f, s, S, Len(s))
  BY FilteredExists
<1>2. Eqn(f)
  BY <1>1 DEF Keeps, FilterFcn
<1>3. Eqn(it)
  <2> HIDE DEF Eqn
  <2> QED BY <1>2
<1>4. Filtered(s, S) = it
  BY DEF Filtered
<1>5. FilterFcn(it, s, S, Len(s))
  <2> HIDE DEF it
  <2> QED BY <1>3 DEF Keeps, FilterFcn
<1> HIDE DEF it, Eqn
<1>6. \A n \in 1 .. Len(s) : it[n] = Keeps(s[n], S, it[n - 1])
  <2> TAKE n \in 1 .. Len(s)
  <2>1. n \in 0 .. Len(s) /\ n # 0
    OBVIOUS
  <2> QED BY <1>5, <2>1 DEF FilterFcn
<1>7. it[0] = <<>>
  BY <1>5 DEF FilterFcn
<1> QED BY <1>4, <1>6, <1>7 DEF Keeps

(* What is kept is in S, and in any R that all members of S in s are in.      *)
LEMMA FilteredIn ==
  ASSUME NEW s, NEW S, Len(s) \in Nat, NEW R, NEW N \in 0 .. Len(s),
         \A n \in 1 .. N : s[n] \in S => s[n] \in R
  PROVE  Filtered(s, S)[N] \in Seq(R)
<1> DEFINE F == Filtered(s, S)
           T == {m \in 0 .. N : F[m] \notin Seq(R)}
<1>0. /\ F[0] = <<>>
      /\ \A n \in 1 .. Len(s) : F[n] = IF s[n] \in S THEN Append(F[n - 1], s[n]) ELSE F[n - 1]
  BY FilteredUnfolds
<1> SUFFICES ASSUME T # {} PROVE FALSE
  OBVIOUS
<1> HIDE DEF F
<1>1. PICK m \in T : \A k \in T : m <= k
  <2>1. T \subseteq Nat
    OBVIOUS
  <2> HIDE DEF T
  <2> QED BY <2>1, LeastNat
<1>2. m \in 0 .. N /\ F[m] \notin Seq(R)
  BY <1>1
<1>3. m # 0
  <2>1. <<>> \in Seq(R)
    OBVIOUS
  <2> QED BY <1>0, <1>2, <2>1
<1>4. m - 1 \in 0 .. N /\ m \in 1 .. N /\ m \in 1 .. Len(s) /\ m - 1 < m
  BY <1>2, <1>3
<1>5. m - 1 \notin T
  <2>1. ~ (m <= m - 1)
    BY <1>4
  <2> HIDE DEF T
  <2> QED BY <1>1, <2>1
<1>6. F[m - 1] \in Seq(R)
  BY <1>4, <1>5
<1>7. F[m] = IF s[m] \in S THEN Append(F[m - 1], s[m]) ELSE F[m - 1]
  BY <1>0, <1>4
<1> QED BY <1>2, <1>4, <1>6, <1>7

(* After a pieces of s and b of t that left the same come d equal ones.       *)
Alike(s, t, S, a, b, d) ==
  /\ Len(s) \in Nat /\ Len(t) \in Nat /\ a \in Nat /\ b \in Nat /\ d \in Nat
  /\ a + d <= Len(s) /\ b + d <= Len(t)
  /\ \A k \in 1 .. d : s[a + k] = t[b + k]
  /\ Filtered(s, S)[a] = Filtered(t, S)[b]

(* Then what is left is still the same.                                       *)
LEMMA FilteredSame ==
  ASSUME NEW s, NEW t, NEW S, NEW a, NEW b, NEW d, Alike(s, t, S, a, b, d)
  PROVE  Filtered(s, S)[a + d] = Filtered(t, S)[b + d]
<1> /\ Len(s) \in Nat /\ Len(t) \in Nat /\ a \in Nat /\ b \in Nat /\ d \in Nat
    /\ a + d <= Len(s) /\ b + d <= Len(t)
    /\ \A k \in 1 .. d : s[a + k] = t[b + k]
    /\ Filtered(s, S)[a] = Filtered(t, S)[b]
  BY DEF Alike
<1> DEFINE F == Filtered(s, S)
           G == Filtered(t, S)
           T == {m \in 0 .. d : F[a + m] # G[b + m]}
<1>0. /\ \A n \in 1 .. Len(s) : F[n] = IF s[n] \in S THEN Append(F[n - 1], s[n]) ELSE F[n - 1]
      /\ \A n \in 1 .. Len(t) : G[n] = IF t[n] \in S THEN Append(G[n - 1], t[n]) ELSE G[n - 1]
      /\ F[a] = G[b]
  BY FilteredUnfolds
<1>1. T = {}
  <2> SUFFICES ASSUME T # {} PROVE FALSE
    OBVIOUS
  <2> HIDE DEF F, G
  <2>1. PICK m \in T : \A k \in T : m <= k
    <3>1. T \subseteq Nat
      OBVIOUS
    <3> HIDE DEF T
    <3> QED BY <3>1, LeastNat
  <2>2. m \in 0 .. d /\ F[a + m] # G[b + m]
    BY <2>1
  <2>3. m # 0
    <3>1. a + 0 = a /\ b + 0 = b
      OBVIOUS
    <3> QED BY <1>0, <2>2, <3>1
  <2>4. m - 1 \in 0 .. d /\ m \in 1 .. d /\ m - 1 < m
    BY <2>2, <2>3
  <2>5. m - 1 \notin T
    <3>1. ~ (m <= m - 1)
      BY <2>4
    <3> HIDE DEF T
    <3> QED BY <2>1, <3>1
  <2>6. F[a + (m - 1)] = G[b + (m - 1)]
    BY <2>4, <2>5
  <2>7. /\ a + m \in 1 .. Len(s) /\ b + m \in 1 .. Len(t)
        /\ (a + m) - 1 = a + (m - 1) /\ (b + m) - 1 = b + (m - 1)
    BY <2>4
  <2>8. s[a + m] = t[b + m]
    BY <2>4
  <2>9. /\ F[a + m] = IF s[a + m] \in S THEN Append(F[(a + m) - 1], s[a + m]) ELSE F[(a + m) - 1]
        /\ G[b + m] = IF t[b + m] \in S THEN Append(G[(b + m) - 1], t[b + m]) ELSE G[(b + m) - 1]
    BY <1>0, <2>7
  <2> QED BY <2>2, <2>6, <2>7, <2>8, <2>9
<1>2. d \in 0 .. d
  OBVIOUS
<1> HIDE DEF F, G
<1>3. F[a + d] = G[b + d]
  BY <1>1, <1>2
<1> QED BY <1>3 DEF F, G

LEMMA FilteredPrefix ==
  ASSUME NEW s, NEW t, NEW S, Len(s) \in Nat, Len(t) \in Nat,
         NEW d \in Nat, d <= Len(s), d <= Len(t), \A k \in 1 .. d : s[k] = t[k]
  PROVE  Filtered(s, S)[d] = Filtered(t, S)[d]
<1>1. Filtered(s, S)[0] = Filtered(t, S)[0]
  BY FilteredUnfolds
<1>2. Alike(s, t, S, 0, 0, d)
  BY <1>1 DEF Alike
<1>3. Filtered(s, S)[0 + d] = Filtered(t, S)[0 + d]
  BY <1>2, FilteredSame
<1>4. 0 + d = d
  OBVIOUS
<1> QED BY <1>3, <1>4

(* Nothing is lost where everything is kept.                                  *)
LEMMA FilteredAll ==
  ASSUME NEW S, NEW s \in Seq(S)
  PROVE  Filtered(s, S)[Len(s)] = s
<1> DEFINE F == Filtered(s, S)
           N == Len(s)
           Ok(m) == Len(F[m]) = m /\ \A k \in 1 .. m : F[m][k] = s[k]
           T == {m \in 0 .. N : ~Ok(m)}
<1>0. /\ N \in Nat /\ F[0] = <<>>
      /\ \A n \in 1 .. N : F[n] = Append(F[n - 1], s[n])
      /\ \A n \in 0 .. N : F[n] \in Seq(S)
  <2>1. N \in Nat /\ \A n \in 1 .. N : s[n] \in S
    OBVIOUS
  <2> QED BY <2>1, FilteredUnfolds, FilteredIn
<1>1. T = {}
  <2> SUFFICES ASSUME T # {} PROVE FALSE
    OBVIOUS
  <2> HIDE DEF F
  <2>1. PICK m \in T : \A k \in T : m <= k
    <3>1. T \subseteq Nat
      BY <1>0
    <3> HIDE DEF T
    <3> QED BY <3>1, LeastNat
  <2>2. m \in 0 .. N /\ ~Ok(m)
    BY <2>1
  <2>3. m # 0
    BY <1>0, <2>2
  <2>4. m - 1 \in 0 .. N /\ m \in 1 .. N /\ m - 1 < m
    BY <1>0, <2>2, <2>3
  <2>5. m - 1 \notin T
    <3>1. ~ (m <= m - 1)
      BY <1>0, <2>4
    <3> HIDE DEF T
    <3> QED BY <2>1, <3>1
  <2>6. Ok(m - 1) /\ F[m] = Append(F[m - 1], s[m]) /\ F[m - 1] \in Seq(S)
    BY <1>0, <2>4, <2>5
  <2>7. Len(F[m]) = m /\ \A k \in 1 .. m : F[m][k] = s[k]
    BY <2>4, <2>6
  <2> QED BY <2>2, <2>7
<1>2. Ok(N)
  <2>1. N \in 0 .. N
    BY <1>0
  <2> HIDE DEF Ok
  <2> QED BY <1>1, <2>1
<1>3. F[N] \in Seq(S) /\ Len(F[N]) = Len(s) /\ \A k \in 1 .. Len(s) : F[N][k] = s[k]
  BY <1>0, <1>2
<1> DEFINE t == F[N]
<1>4. t \in Seq(S) /\ s \in Seq(S) /\ Len(t) = Len(s) /\ \A k \in 1 .. Len(t) : t[k] = s[k]
  BY <1>3
<1> HIDE DEF t
<1>5. t = s
  BY <1>4, SeqEqual
<1> QED BY <1>5 DEF t

(* What the first piece leaves stays the first.                               *)
LEMMA FilteredFirst ==
  ASSUME NEW s, NEW S, Len(s) \in Nat, NEW N \in 1 .. Len(s), s[1] \in S
  PROVE  /\ Filtered(s, S)[N] \in Seq(S)
         /\ Len(Filtered(s, S)[N]) > 0 /\ Filtered(s, S)[N][1] = s[1]
<1> DEFINE F == Filtered(s, S)
           Ok(m) == Len(F[m]) > 0 /\ F[m][1] = s[1]
           T == {m \in 1 .. N : ~Ok(m)}
<1>0. /\ F[0] = <<>>
      /\ \A n \in 1 .. N : F[n] = IF s[n] \in S THEN Append(F[n - 1], s[n]) ELSE F[n - 1]
      /\ \A n \in 0 .. N : F[n] \in Seq(S)
  <2>1. \A n \in 0 .. N : F[n] \in Seq(S)
    <3> TAKE n \in 0 .. N
    <3>1. n \in 0 .. Len(s) /\ \A k \in 1 .. n : s[k] \in S => s[k] \in S
      OBVIOUS
    <3> QED BY <3>1, FilteredIn
  <2>2. \A n \in 1 .. N : n \in 1 .. Len(s)
    OBVIOUS
  <2> QED BY <2>1, <2>2, FilteredUnfolds
<1>1. T = {}
  <2> SUFFICES ASSUME T # {} PROVE FALSE
    OBVIOUS
  <2> HIDE DEF F
  <2>1. PICK m \in T : \A k \in T : m <= k
    <3>1. T \subseteq Nat
      OBVIOUS
    <3> HIDE DEF T
    <3> QED BY <3>1, LeastNat
  <2>2. m \in 1 .. N /\ ~Ok(m)
    BY <2>1
  <2>3. CASE m = 1
    <3>0. 1 \in 1 .. N /\ 1 - 1 = 0
      OBVIOUS
    <3>1. F[1] = Append(<<>>, s[1])
      BY <1>0, <3>0
    <3> QED BY <2>2, <2>3, <3>1
  <2>4. CASE m # 1
    <3>1. m - 1 \in 1 .. N /\ m - 1 \notin T
      BY <2>1, <2>2, <2>4
    <3>2. Ok(m - 1) /\ F[m - 1] \in Seq(S)
      BY <1>0, <3>1
    <3>3. F[m] = IF s[m] \in S THEN Append(F[m - 1], s[m]) ELSE F[m - 1]
      BY <1>0, <2>2
    <3> QED BY <2>2, <3>2, <3>3
  <2> QED BY <2>3, <2>4
<1>2. Ok(N)
  <2>1. N \in 1 .. N
    OBVIOUS
  <2> HIDE DEF Ok
  <2> QED BY <1>1, <2>1
<1> QED BY <1>0, <1>2

\* What f keeps of the first n members of s.
KeptOf(f, s, S, n) ==
  /\ f \in Seq({s[k] : k \in 1 .. n})
  /\ {f[k] : k \in 1 .. Len(f)} = {s[k] : k \in 1 .. n} \cap S
  /\ Len(f) > 0 => \E k \in 1 .. n : f[1] = s[k] /\ s[k] \in S /\ \A j \in 1 .. k - 1 : s[j] \notin S

(* One more member is kept if it is in S.                                     *)
LEMMA KeptMore ==
  ASSUME NEW s, NEW S, NEW n \in Nat, n # 0, NEW f, KeptOf(f, s, S, n - 1)
  PROVE  KeptOf(IF s[n] \in S THEN Append(f, s[n]) ELSE f, s, S, n)
<1> DEFINE A == {s[k] : k \in 1 .. n - 1}
           B == {s[k] : k \in 1 .. n}
           M == {f[k] : k \in 1 .. Len(f)}
<1>1. A \subseteq B /\ s[n] \in B /\ B = A \union {s[n]}
  <2>1. \A k : k \in 1 .. n <=> (k \in 1 .. n - 1 \/ k = n)
    OBVIOUS
  <2> QED BY <2>1
<1>2. /\ f \in Seq(A) /\ M = A \cap S
      /\ Len(f) > 0 => \E k \in 1 .. n - 1 : f[1] = s[k] /\ s[k] \in S /\ \A j \in 1 .. k - 1 : s[j] \notin S
  BY DEF KeptOf
<1>3. \A k \in 1 .. n - 1 : k \in 1 .. n
  OBVIOUS
<1>4. f \in Seq(B) /\ Len(f) \in Nat
  <2> HIDE DEF A, B
  <2>1. Len(f) \in Nat /\ f \in [1 .. Len(f) -> A]
    BY <1>2, LenProperties
  <2>2. f \in [1 .. Len(f) -> B]
    BY <1>1, <2>1
  <2> QED BY <2>1, <2>2
<1>5. CASE s[n] \notin S
  <2>1. M = B \cap S
    BY <1>1, <1>2, <1>5
  <2> HIDE DEF A, M
  <2>2. Len(f) > 0 => \E k \in 1 .. n : f[1] = s[k] /\ s[k] \in S /\ \A j \in 1 .. k - 1 : s[j] \notin S
    BY <1>2, <1>3
  <2> QED BY <1>4, <1>5, <2>1, <2>2 DEF KeptOf, M
<1>6. CASE s[n] \in S
  <2> DEFINE t == Append(f, s[n])
  <2> HIDE DEF A, B
  <2>1. /\ t \in Seq(B) /\ Len(t) = Len(f) + 1 /\ t[Len(f) + 1] = s[n]
        /\ \A k \in 1 .. Len(f) : t[k] = f[k]
    BY <1>1, <1>4, AppendProperties
  <2> HIDE DEF t
  <2>2. {t[k] : k \in 1 .. Len(t)} = M \union {s[n]}
    <3>1. \A k : k \in 1 .. Len(t) <=> (k \in 1 .. Len(f) \/ k = Len(f) + 1)
      BY <1>4, <2>1
    <3> QED BY <2>1, <3>1
  <2>3. {t[k] : k \in 1 .. Len(t)} = B \cap S
    <3> HIDE DEF M
    <3> QED BY <1>1, <1>2, <1>6, <2>2
  <2>4. \E k \in 1 .. n : t[1] = s[k] /\ s[k] \in S /\ \A j \in 1 .. k - 1 : s[j] \notin S
    <3>1. CASE Len(f) > 0
      <4>1. 1 \in 1 .. Len(f)
        BY <1>4, <3>1
      <4> QED BY <1>2, <1>3, <2>1, <3>1, <4>1
    <3>2. CASE Len(f) = 0
      <4>1. M = {}
        BY <3>2
      <4>2. t[1] = s[n]
        BY <2>1, <3>2
      <4>3. \A j \in 1 .. n - 1 : s[j] \notin S
        BY <1>2, <4>1 DEF A
      <4> QED BY <1>6, <4>2, <4>3
    <3> QED BY <1>4, <3>1, <3>2
  <2>5. KeptOf(t, s, S, n)
    BY <2>1, <2>3, <2>4 DEF KeptOf, B
  <2> QED BY <1>6, <2>5 DEF t
<1> QED BY <1>5, <1>6

(* What is kept of a sequence are its members in S, and what comes first is   *)
(* the first of them.                                                         *)
LEMMA KeepSays ==
  ASSUME NEW s, Len(s) \in Nat, NEW S
  PROVE  KeptOf(Keep(s, S), s, S, Len(s))
<1> DEFINE F == Filtered(s, S)
           N == Len(s)
           T == {m \in 0 .. N : ~KeptOf(F[m], s, S, m)}
<1>1. /\ F[0] = <<>>
      /\ \A n \in 1 .. N : F[n] = IF s[n] \in S THEN Append(F[n - 1], s[n]) ELSE F[n - 1]
  BY FilteredUnfolds
<1> HIDE DEF F, N
<1>2. KeptOf(F[0], s, S, 0)
  <2>1. 1 .. 0 = {} /\ <<>> \in Seq({}) /\ Len(<<>>) = 0
    OBVIOUS
  <2> QED BY <1>1, <2>1 DEF KeptOf
<1>3. N \in Nat
  BY DEF N
<1>4. T = {}
  <2> SUFFICES ASSUME T # {} PROVE FALSE
    OBVIOUS
  <2>1. T \subseteq Nat
    BY <1>3
  <2>2. PICK m \in T : \A j \in T : m <= j
    <3> HIDE DEF T
    <3> QED BY <2>1, LeastNat
  <2>3. m \in 0 .. N /\ ~KeptOf(F[m], s, S, m)
    OBVIOUS
  <2>4. m \in 1 .. N /\ m - 1 \in 0 .. N /\ m \in Nat /\ m # 0 /\ ~(m <= m - 1)
    BY <1>2, <1>3, <2>3
  <2>5. m - 1 \notin T
    <3> HIDE DEF T
    <3> QED BY <2>2, <2>4
  <2>6. KeptOf(F[m - 1], s, S, m - 1)
    BY <2>4, <2>5
  <2> QED BY <1>1, <2>3, <2>4, <2>6, KeptMore
<1>5. KeptOf(F[N], s, S, N)
  <2>1. N \in 0 .. N
    BY <1>3
  <2> QED BY <1>4, <2>1
<1> QED BY <1>5 DEF Keep, F, N

\* The members of a sequence.
Members(s) == {s[k] : k \in 1 .. Len(s)}

\* The function that a recursion from v by h defines.
Recurs(f, h, N, V, v) == f \in [0 .. N -> V] /\ f[0] = v /\ \A n \in 1 .. N : f[n] = h[<<n, f[n - 1]>>]

(* There is one, if every step keeps the type.                                *)
LEMMA RecursExists ==
  ASSUME NEW N \in Nat, NEW V, NEW v \in V, NEW h, Steps(h, N, V)
  PROVE  \E f : Recurs(f, h, N, V, v)
BY RecursionExists DEF Recurs

\* How the first sequences of ss are joined, one after the other.
Joining(it, ss, N) == it[1] = ss[1] /\ \A i \in 2 .. N : it[i] = it[i - 1] \o ss[i]

(* FlattenSeq joins the sequences one after the other.                        *)
LEMMA FlattenUnfolds ==
  ASSUME NEW N \in Nat, N # 0, NEW R, NEW ss \in [1 .. N -> Seq(R)]
  PROVE  \E it : FlattenSeq(ss) = it[N] /\ Joining(it, ss, N)
<1> DEFINE V == Seq(R)
           M == N - 1
           v == ss[1]
           h == [x \in (1 .. M) \X V |-> x[2] \o ss[x[1] + 1]]
           Eqn(f) == f = [i \in 1 .. Len(ss) |-> IF i = 1 THEN ss[i] ELSE f[i - 1] \o ss[i]]
           way == CHOOSE f : Eqn(f)
<1>0. Len(ss) = N
  OBVIOUS
<1>1. M \in Nat /\ v \in V
  OBVIOUS
<1>2. \A n \in 1 .. M : \A x \in V : h[<<n, x>>] = x \o ss[n + 1]
  OBVIOUS
<1>3. \A n \in 1 .. M : \A x \in V : x \o ss[n + 1] \in V
  <2>1. \A n \in 1 .. M : n + 1 \in 1 .. N
    OBVIOUS
  <2>2. \A n \in 1 .. M : ss[n + 1] \in Seq(R)
    BY <2>1
  <2> QED BY <2>2, ConcatProperties
<1>4. \E f : Recurs(f, h, M, V, v)
  <2> HIDE DEF h, V, M, v
  <2>1. Steps(h, M, V)
    BY <1>2, <1>3 DEF Steps
  <2> QED BY <1>1, <2>1, RecursExists
<1> HIDE DEF h, V
<1>5. PICK f : f \in [0 .. M -> V] /\ f[0] = v /\ \A n \in 1 .. M : f[n] = h[<<n, f[n - 1]>>]
  BY <1>4 DEF Recurs
<1>6. \A n \in 1 .. M : f[n] = f[n - 1] \o ss[n + 1]
  <2>1. \A n \in 1 .. M : n - 1 \in 0 .. M
    BY <1>1
  <2> HIDE DEF M
  <2> QED BY <1>2, <1>5, <2>1
<1> DEFINE e == [i \in 1 .. N |-> f[i - 1]]
<1>7. Eqn(e)
  <2>1. \A i \in 1 .. N : i = 1 \/ (i - 1 \in 1 .. M /\ i - 1 \in 1 .. N /\ (i - 1) - 1 \in 0 .. M /\ (i - 1) + 1 = i)
    OBVIOUS
  <2>2. \A i \in 1 .. N : e[i] = IF i = 1 THEN ss[i] ELSE e[i - 1] \o ss[i]
    <3> TAKE i \in 1 .. N
    <3>1. CASE i = 1
      BY <1>5, <3>1
    <3>2. CASE i # 1
      <4>1. i - 1 \in 1 .. M /\ i - 1 \in 1 .. N /\ (i - 1) + 1 = i
        BY <2>1, <3>2
      <4>2. f[i - 1] = f[(i - 1) - 1] \o ss[(i - 1) + 1]
        BY <1>6, <4>1
      <4>3. e[i - 1] = f[(i - 1) - 1] /\ e[i] = f[i - 1]
        BY <4>1
      <4> QED BY <3>2, <4>1, <4>2, <4>3
    <3> QED BY <3>1, <3>2
  <2> QED BY <1>0, <2>2
<1>8. Eqn(way)
  <2> HIDE DEF Eqn, e
  <2> QED BY <1>7
<1>9. FlattenSeq(ss) = way[N]
  BY <1>0 DEF FlattenSeq
<1> HIDE DEF way, e
<1>10. \A i \in 1 .. N : way[i] = IF i = 1 THEN ss[i] ELSE way[i - 1] \o ss[i]
  BY <1>0, <1>8
<1> HIDE DEF Eqn
<1>11. way[1] = ss[1]
  BY <1>10
<1>12. \A i \in 2 .. N : way[i] = way[i - 1] \o ss[i]
  <2>1. \A i \in 2 .. N : i \in 1 .. N /\ i # 1
    OBVIOUS
  <2> QED BY <1>10, <2>1
<1> QED BY <1>9, <1>11, <1>12 DEF Joining

(* The members of a sequence of sequences.                                    *)
LEMMA FlattenSays ==
  ASSUME NEW N \in Nat, NEW R, NEW ss \in [1 .. N -> Seq(R)]
  PROVE  /\ FlattenSeq(ss) \in Seq(R)
         /\ Members(FlattenSeq(ss)) = UNION {Members(ss[k]) : k \in 1 .. N}
<1>0. Len(ss) = N /\ ss \in Seq(Seq(R))
  OBVIOUS
<1>1. CASE N = 0
  <2>1. ss \in Seq(R) /\ Members(ss) = {} /\ 1 .. N = {}
    BY <1>0, <1>1 DEF Members
  <2>2. FlattenSeq(ss) = ss
    BY <1>0, <1>1 DEF FlattenSeq
  <2> QED BY <2>1, <2>2
<1>2. CASE N # 0
  <2>9. PICK it : FlattenSeq(ss) = it[N] /\ Joining(it, ss, N)
    BY <1>2, FlattenUnfolds
  <2> DEFINE Good(n) == it[n] \in Seq(R) /\ Members(it[n]) = UNION {Members(ss[k]) : k \in 1 .. n}
             T == {m \in 1 .. N : ~Good(m)}
  <2>11. Good(1)
    <3>1. 1 \in 1 .. N /\ 1 .. 1 = {1}
      BY <1>2
    <3>2. it[1] = ss[1] /\ ss[1] \in Seq(R)
      BY <2>9, <3>1 DEF Joining
    <3> QED BY <3>1, <3>2
  <2>12. ASSUME NEW m \in 2 .. N, Good(m - 1) PROVE Good(m)
    <3> DEFINE a == it[m - 1]
               b == ss[m]
               t == it[m]
    <3>1. m \in 1 .. N /\ m # 1 /\ b \in Seq(R) /\ a \in Seq(R)
      BY <2>12
    <3>2. t = a \o b
      BY <2>9 DEF Joining
    <3>3. Members(a) = UNION {Members(ss[k]) : k \in 1 .. m - 1}
      BY <2>12
    <3>4. \A k : k \in 1 .. m <=> (k \in 1 .. m - 1 \/ k = m)
      BY <3>1
    <3>5. UNION {Members(ss[k]) : k \in 1 .. m} = Members(a) \union Members(b)
      BY <3>3, <3>4
    <3> HIDE DEF a, b, t
    <3>6. t \in Seq(R) /\ Members(t) = Members(a) \union Members(b)
      <4>1. /\ t \in Seq(R) /\ Len(t) = Len(a) + Len(b) /\ Len(a) \in Nat /\ Len(b) \in Nat
            /\ \A k \in 1 .. Len(a) + Len(b) : t[k] = IF k <= Len(a) THEN a[k] ELSE b[k - Len(a)]
        BY <3>1, <3>2, ConcatProperties
      <4>2. \A x : x \in Members(t) => x \in Members(a) \union Members(b)
        <5> SUFFICES ASSUME NEW k \in 1 .. Len(t) PROVE t[k] \in Members(a) \union Members(b)
          BY DEF Members
        <5>1. CASE k <= Len(a)
          BY <4>1, <5>1 DEF Members
        <5>2. CASE ~(k <= Len(a))
          <6>1. k - Len(a) \in 1 .. Len(b) /\ t[k] = b[k - Len(a)]
            BY <4>1, <5>2
          <6> QED BY <6>1 DEF Members
        <5> QED BY <5>1, <5>2
      <4>3. \A k \in 1 .. Len(a) : k \in 1 .. Len(t) /\ t[k] = a[k]
        BY <4>1
      <4>4. \A k \in 1 .. Len(b) : k + Len(a) \in 1 .. Len(t) /\ t[k + Len(a)] = b[k]
        <5> TAKE k \in 1 .. Len(b)
        <5>1. k + Len(a) \in 1 .. Len(a) + Len(b) /\ ~(k + Len(a) <= Len(a)) /\ (k + Len(a)) - Len(a) = k
          BY <4>1
        <5> QED BY <4>1, <5>1
      <4>5. Members(a) \subseteq Members(t)
        BY <4>3 DEF Members
      <4>6. Members(b) \subseteq Members(t)
        BY <4>4 DEF Members
      <4> QED BY <4>1, <4>2, <4>5, <4>6
    <3> QED BY <3>5, <3>6 DEF t
  <2> HIDE DEF Good
  <2>13. T = {}
    <3> SUFFICES ASSUME T # {} PROVE FALSE
      OBVIOUS
    <3>1. T \subseteq Nat
      OBVIOUS
    <3>2. PICK m \in T : \A j \in T : m <= j
      <4> HIDE DEF T
      <4> QED BY <3>1, LeastNat
    <3>3. m \in 1 .. N /\ ~Good(m)
      OBVIOUS
    <3>4. m \in 2 .. N /\ m - 1 \in 1 .. N /\ ~(m <= m - 1)
      BY <2>11, <3>3
    <3>5. m - 1 \notin T
      <4> HIDE DEF T
      <4> QED BY <3>2, <3>4
    <3> QED BY <2>12, <3>3, <3>4, <3>5
  <2>14. Good(N)
    <3>1. N \in 1 .. N
      BY <1>2
    <3> QED BY <2>13, <3>1
  <2> QED BY <2>9, <2>14 DEF Good
<1> QED BY <1>1, <1>2

\* No member of s is listed twice.
Distinct(s) == \A i, j \in 1 .. Len(s) : s[i] = s[j] => i = j

(* A list without repetitions is as long as the set of its members, and no    *)
(* other list is.                                                             *)
LEMMA DistinctCount ==
  ASSUME NEW X, NEW s \in Seq(X)
  PROVE  IsFiniteSet(Members(s)) /\ (Cardinality(Members(s)) = Len(s) <=> Distinct(s))
<1> DEFINE N == Len(s)
           D == 1 .. N
           M == Members(s)
<1>1. N \in Nat /\ s \in [D -> X]
  BY LenProperties
<1>2. IsFiniteSet(D) /\ Cardinality(D) = N
  <2> HIDE DEF N
  <2>1. N \in Int /\ 1 \in Int /\ (1 > N => N = 0) /\ N - 1 + 1 = N
    BY <1>1
  <2> QED BY <1>1, <2>1, FS_Interval
<1>3. M = {s[k] : k \in D}
  BY DEF Members
<1> HIDE DEF N, D, M
<1>4. s \in [D -> M] /\ \A x \in M : \E k \in D : s[k] = x
  BY <1>1, <1>3
<1>5. s \in Surjection(D, M)
  BY <1>4 DEF Surjection
<1>6. IsFiniteSet(M) /\ (Cardinality(M) = Cardinality(D) <=> s \in Injection(D, M))
  BY <1>2, <1>5, FS_Surjection
<1>7. s \in Injection(D, M) <=> \A i, j \in D : s[i] = s[j] => i = j
  BY <1>4 DEF Injection, IsInjective
<1> QED BY <1>2, <1>6, <1>7 DEF Distinct, N, D, M

(* What is kept of a list without repetitions has none.                       *)
LEMMA KeptDistinct ==
  ASSUME NEW s, Len(s) \in Nat, NEW S, Distinct(s)
  PROVE  Distinct(Keep(s, S))
<1> DEFINE F == Filtered(s, S)
           N == Len(s)
           Good(m) == KeptOf(F[m], s, S, m) /\ Distinct(F[m])
           T == {m \in 0 .. N : ~Good(m)}
<1>1. /\ F[0] = <<>>
      /\ \A n \in 1 .. N : F[n] = IF s[n] \in S THEN Append(F[n - 1], s[n]) ELSE F[n - 1]
  BY FilteredUnfolds
<1>2. N \in Nat /\ \A i, j \in 1 .. N : s[i] = s[j] => i = j
  BY DEF Distinct
<1> HIDE DEF F, N
<1>3. Good(0)
  <2>1. 1 .. 0 = {} /\ <<>> \in Seq({}) /\ Len(<<>>) = 0
    OBVIOUS
  <2>2. KeptOf(F[0], s, S, 0)
    BY <1>1, <2>1 DEF KeptOf
  <2>3. Distinct(F[0])
    BY <1>1, <2>1 DEF Distinct
  <2> QED BY <2>2, <2>3
<1>4. ASSUME NEW m \in 1 .. N, Good(m - 1) PROVE Good(m)
  <2> DEFINE f == F[m - 1]
             t == F[m]
  <2>1. m \in Nat /\ m # 0 /\ KeptOf(f, s, S, m - 1) /\ Distinct(f)
    BY <1>2, <1>4
  <2>2. t = IF s[m] \in S THEN Append(f, s[m]) ELSE f
    BY <1>1
  <2> HIDE DEF f, t
  <2>3. KeptOf(t, s, S, m)
    BY <2>1, <2>2, KeptMore
  <2>4. CASE s[m] \notin S
    BY <2>1, <2>2, <2>3, <2>4 DEF t
  <2>5. CASE s[m] \in S
    <3> DEFINE B == {s[k] : k \in 1 .. m - 1}
    <3>1. f \in Seq(B) /\ \A k \in 1 .. Len(f) : f[k] \in B
      BY <2>1 DEF KeptOf
    <3>2. s[m] \notin B
      <4>1. \A k \in 1 .. m - 1 : k \in 1 .. N /\ k # m
        BY <1>2
      <4> QED BY <1>2, <4>1
    <3>3. /\ Len(f) \in Nat /\ Len(t) = Len(f) + 1 /\ t[Len(f) + 1] = s[m]
          /\ \A k \in 1 .. Len(f) : t[k] = f[k]
      <4>1. f \in Seq(B \union {s[m]}) /\ s[m] \in B \union {s[m]}
        <5> HIDE DEF B
        <5> QED BY <3>1
      <4> HIDE DEF B
      <4> QED BY <2>2, <2>5, <4>1, AppendProperties
    <3> HIDE DEF B
    <3>4. \A k \in 1 .. Len(t) : k \in 1 .. Len(f) \/ k = Len(f) + 1
      BY <3>3
    <3>5. Distinct(t)
      <4> SUFFICES ASSUME NEW i \in 1 .. Len(t), NEW j \in 1 .. Len(t), t[i] = t[j] PROVE i = j
        BY DEF Distinct
      <4>1. CASE i \in 1 .. Len(f) /\ j \in 1 .. Len(f)
        BY <2>1, <3>3, <4>1 DEF Distinct
      <4>2. CASE i \in 1 .. Len(f) /\ j = Len(f) + 1
        BY <3>1, <3>2, <3>3, <4>2
      <4>3. CASE i = Len(f) + 1 /\ j \in 1 .. Len(f)
        BY <3>1, <3>2, <3>3, <4>3
      <4> QED BY <3>4, <4>1, <4>2, <4>3
    <3> QED BY <2>3, <3>5 DEF t
  <2> QED BY <2>4, <2>5
<1> HIDE DEF Good
<1>5. T = {}
  <2> SUFFICES ASSUME T # {} PROVE FALSE
    OBVIOUS
  <2>1. T \subseteq Nat
    BY <1>2
  <2>2. PICK m \in T : \A j \in T : m <= j
    <3> HIDE DEF T
    <3> QED BY <2>1, LeastNat
  <2>3. m \in 1 .. N /\ m - 1 \in 0 .. N /\ ~Good(m) /\ ~(m <= m - 1)
    BY <1>2, <1>3
  <2>4. m - 1 \notin T
    <3> HIDE DEF T
    <3> QED BY <2>2, <2>3
  <2> QED BY <1>4, <2>3, <2>4
<1>6. Good(N)
  <2>1. N \in 0 .. N
    BY <1>2
  <2> QED BY <1>5, <2>1
<1> QED BY <1>6 DEF Good, Keep, F, N

(* All is kept of a list of members of S.                                     *)
LEMMA KeepsAll == ASSUME NEW S, NEW s \in Seq(S) PROVE Keep(s, S) = s
BY FilteredAll DEF Keep

(* Nothing more is kept of a list that is continued with nothing in S.        *)
LEMMA KeepsFront ==
  ASSUME NEW R, NEW a \in Seq(R), NEW b \in Seq(R), NEW S, \A k \in 1 .. Len(b) : b[k] \notin S
  PROVE  Keep(a \o b, S) = Keep(a, S)
<1> DEFINE c == a \o b
           A == Len(a)
           B == Len(b)
           F == Filtered(c, S)
           T == {n \in 0 .. B : F[A + n] # F[A]}
<1>1. /\ c \in Seq(R) /\ Len(c) = A + B /\ A \in Nat /\ B \in Nat
      /\ \A k \in 1 .. A + B : c[k] = IF k <= A THEN a[k] ELSE b[k - A]
  BY ConcatProperties
<1> HIDE DEF c
<1>2. \A n \in 1 .. Len(c) : F[n] = IF c[n] \in S THEN Append(F[n - 1], c[n]) ELSE F[n - 1]
  <2>1. Len(c) \in Nat
    BY <1>1
  <2> QED BY <2>1, FilteredUnfolds
<1>3. F[A] = Filtered(a, S)[A]
  <2>1. A <= Len(c) /\ A <= Len(a) /\ \A k \in 1 .. A : c[k] = a[k]
    BY <1>1
  <2>2. Len(c) \in Nat /\ Len(a) \in Nat
    BY <1>1
  <2>3. A \in Nat
    BY <1>1
  <2> HIDE DEF A
  <2> QED BY <2>1, <2>2, <2>3, FilteredPrefix
<1> HIDE DEF F, A, B
<1>4. ASSUME NEW n \in 1 .. B PROVE F[A + n] = F[A + (n - 1)]
  <2>1. A + n \in 1 .. Len(c) /\ A + n \in 1 .. A + B /\ ~(A + n <= A) /\ (A + n) - A = n /\ (A + n) - 1 = A + (n - 1)
    BY <1>1
  <2>2. c[A + n] = b[n]
    BY <1>1, <2>1
  <2>3. c[A + n] \notin S
    BY <2>2 DEF B
  <2> QED BY <1>2, <2>1, <2>3
<1>5. 0 \notin T
  <2>1. A + 0 = A
    BY <1>1
  <2> QED BY <2>1
<1>6. T = {}
  <2> SUFFICES ASSUME T # {} PROVE FALSE
    OBVIOUS
  <2>1. T \subseteq Nat
    BY <1>1
  <2>2. PICK m \in T : \A j \in T : m <= j
    <3> HIDE DEF T
    <3> QED BY <2>1, LeastNat
  <2>3. m \in 0 .. B /\ F[A + m] # F[A]
    OBVIOUS
  <2>4. m \in 1 .. B /\ m - 1 \in 0 .. B /\ ~(m <= m - 1)
    BY <1>1, <1>5, <2>3
  <2>5. m - 1 \notin T
    <3> HIDE DEF T
    <3> QED BY <2>2, <2>4
  <2> QED BY <1>4, <2>3, <2>4, <2>5
<1>7. B \in 0 .. B
  BY <1>1
<1>8. F[A + B] = F[A]
  BY <1>6, <1>7
<1> QED BY <1>1, <1>3, <1>8 DEF Keep, F, A, c

(* When nothing was kept of a list, only what follows is.                     *)
LEMMA KeepsBack ==
  ASSUME NEW R, NEW a \in Seq(R), NEW b \in Seq(R), NEW S, Keep(a, S) = <<>>
  PROVE  Keep(a \o b, S) = Keep(b, S)
<1> DEFINE c == a \o b
           A == Len(a)
           B == Len(b)
<1>1. /\ c \in Seq(R) /\ Len(c) = A + B /\ A \in Nat /\ B \in Nat
      /\ \A k \in 1 .. A + B : c[k] = IF k <= A THEN a[k] ELSE b[k - A]
  BY ConcatProperties
<1> HIDE DEF c
<1>2. Len(c) \in Nat /\ Len(a) \in Nat /\ Len(b) \in Nat
  BY <1>1
<1>3. Filtered(c, S)[A] = Filtered(a, S)[A]
  <2>1. A <= Len(c) /\ A <= Len(a) /\ \A k \in 1 .. A : c[k] = a[k]
    BY <1>1
  <2>2. A \in Nat
    BY <1>1
  <2> HIDE DEF A
  <2> QED BY <1>2, <2>1, <2>2, FilteredPrefix
<1>4. Filtered(a, S)[A] = <<>>
  BY DEF Keep
<1>5. Filtered(b, S)[0] = <<>>
  BY <1>2, FilteredUnfolds
<1>6. \A k \in 1 .. B : c[A + k] = b[0 + k]
  <2> TAKE k \in 1 .. B
  <2>1. A + k \in 1 .. A + B /\ ~(A + k <= A) /\ (A + k) - A = k /\ 0 + k = k
    BY <1>1
  <2> QED BY <1>1, <2>1
<1>7. Alike(c, b, S, A, 0, B)
  <2>1. 0 \in Nat /\ A + B <= Len(c) /\ 0 + B <= Len(b)
    BY <1>1
  <2>2. Filtered(c, S)[A] = Filtered(b, S)[0]
    BY <1>3, <1>4, <1>5
  <2> QED BY <1>1, <1>2, <1>6, <2>1, <2>2 DEF Alike
<1> HIDE DEF A, B
<1>8. Filtered(c, S)[A + B] = Filtered(b, S)[0 + B]
  BY <1>7, FilteredSame
<1>9. 0 + B = B
  BY <1>1
<1> QED BY <1>1, <1>8, <1>9 DEF Keep, c, B

\* Of the N sequences ss only the k-th has members in S, and no others.
OneIn(ss, N, S, k) ==
  ss[k] \in Seq(S) /\ \A j \in 1 .. N : j # k => \A x \in Members(ss[j]) : x \notin S

(* Of such sequences joined, that one is kept.                                *)
LEMMA FlattenKeeps ==
  ASSUME NEW N \in Nat, NEW R, NEW ss \in [1 .. N -> Seq(R)], NEW S, NEW k \in 1 .. N,
         OneIn(ss, N, S, k)
  PROVE  Keep(FlattenSeq(ss), S) = ss[k]
<1>1. N # 0
  OBVIOUS
<1>2. PICK it : FlattenSeq(ss) = it[N] /\ Joining(it, ss, N)
  BY <1>1, FlattenUnfolds
<1>3. it[1] = ss[1] /\ \A i \in 2 .. N : it[i] = it[i - 1] \o ss[i]
  BY <1>2 DEF Joining
<1> DEFINE Good(n) == it[n] \in Seq(R) /\ Keep(it[n], S) = IF n < k THEN <<>> ELSE ss[k]
           T == {m \in 1 .. N : ~Good(m)}
<1>4. \A j \in 1 .. N : j # k => \A i \in 1 .. Len(ss[j]) : ss[j][i] \notin S
  BY DEF Members, OneIn
<1>5. Keep(ss[k], S) = ss[k]
  BY KeepsAll DEF OneIn
<1>6. \A s \in Seq(R) : Len(s) \in Nat
  OBVIOUS
<1>7. ASSUME NEW s \in Seq(R), \A i \in 1 .. Len(s) : s[i] \notin S PROVE Keep(s, S) = <<>>
  <2> DEFINE e == <<>>
  <2>1. e \in Seq(R) /\ e \in Seq(S) /\ e \o s = s
    OBVIOUS
  <2>2. Keep(e, S) = e
    BY <2>1, KeepsAll
  <2> HIDE DEF e
  <2>3. Keep(e \o s, S) = Keep(e, S)
    BY <1>7, <2>1, KeepsFront
  <2> QED BY <2>1, <2>2, <2>3 DEF e
<1>8. Good(1)
  <2>1. 1 \in 1 .. N /\ ss[1] \in Seq(R)
    OBVIOUS
  <2>2. CASE k = 1
    BY <1>3, <1>5, <2>1, <2>2
  <2>3. CASE k # 1
    <3>1. 1 < k
      BY <2>3
    <3>2. Keep(ss[1], S) = <<>>
      BY <1>4, <1>7, <2>1, <2>3
    <3> QED BY <1>3, <2>1, <3>1, <3>2
  <2> QED BY <2>2, <2>3
<1>9. ASSUME NEW m \in 2 .. N, Good(m - 1) PROVE Good(m)
  <2> DEFINE a == it[m - 1]
             b == ss[m]
  <2>1. /\ m \in 1 .. N /\ b \in Seq(R) /\ a \in Seq(R)
        /\ Keep(a, S) = IF m - 1 < k THEN <<>> ELSE ss[k]
    BY <1>9
  <2>2. it[m] = a \o b
    BY <1>3
  <2>3. m # k => \A i \in 1 .. Len(b) : b[i] \notin S
    BY <1>4, <2>1
  <2>4. b = ss[m]
    OBVIOUS
  <2> HIDE DEF a, b
  <2>5. it[m] \in Seq(R)
    BY <2>1, <2>2
  <2>6. CASE m < k
    <3>1. m - 1 < k /\ m # k
      BY <2>6
    <3>2. Keep(a, S) = <<>>
      BY <2>1, <3>1
    <3>3. Keep(a \o b, S) = Keep(a, S)
      BY <2>1, <2>3, <3>1, KeepsFront
    <3> QED BY <2>2, <2>5, <2>6, <3>2, <3>3
  <2>7. CASE m = k
    <3>1. m - 1 < k /\ ~(m < k)
      BY <2>7
    <3>2. Keep(a, S) = <<>>
      BY <2>1, <3>1
    <3>3. Keep(a \o b, S) = Keep(b, S)
      BY <2>1, <3>2, KeepsBack
    <3> QED BY <1>5, <2>2, <2>4, <2>5, <2>7, <3>1, <3>3
  <2>8. CASE k < m
    <3>1. ~(m - 1 < k) /\ ~(m < k) /\ m # k
      BY <2>8
    <3>2. Keep(a, S) = ss[k]
      BY <2>1, <3>1
    <3>3. Keep(a \o b, S) = Keep(a, S)
      BY <2>1, <2>3, <3>1, KeepsFront
    <3> QED BY <2>2, <2>5, <3>1, <3>2, <3>3
  <2> QED BY <2>6, <2>7, <2>8
<1> HIDE DEF Good
<1>10. T = {}
  <2> SUFFICES ASSUME T # {} PROVE FALSE
    OBVIOUS
  <2>1. T \subseteq Nat
    OBVIOUS
  <2>2. PICK m \in T : \A j \in T : m <= j
    <3> HIDE DEF T
    <3> QED BY <2>1, LeastNat
  <2>3. m \in 1 .. N /\ ~Good(m)
    OBVIOUS
  <2>4. m \in 2 .. N /\ m - 1 \in 1 .. N /\ ~(m <= m - 1)
    BY <1>8, <2>3
  <2>5. m - 1 \notin T
    <3> HIDE DEF T
    <3> QED BY <2>2, <2>4
  <2> QED BY <1>9, <2>3, <2>4, <2>5
<1>11. Good(N)
  <2>1. N \in 1 .. N
    OBVIOUS
  <2> QED BY <1>10, <2>1
<1>12. ~(N < k)
  OBVIOUS
<1> QED BY <1>2, <1>11, <1>12 DEF Good

(* SetToSeq lists a finite set.                                               *)
LEMMA SetToSeqSays ==
  ASSUME NEW S, IsFiniteSet(S)
  PROVE  /\ Cardinality(S) \in Nat
         /\ SetToSeq(S) \in [1 .. Cardinality(S) -> S]
         /\ {SetToSeq(S)[k] : k \in 1 .. Cardinality(S)} = S
         /\ \A i, j \in 1 .. Cardinality(S) : SetToSeq(S)[i] = SetToSeq(S)[j] => i = j
<1> DEFINE N == Cardinality(S)
           f == CHOOSE g \in [1 .. N -> S] : IsInjective(g)
<1>1. N \in Nat /\ ExistsBijection(1 .. N, S)
  BY FS_CardinalityType
<1>2. \E g \in [1 .. N -> S] : IsInjective(g)
  BY <1>1 DEF ExistsBijection, Bijection, Injection
<1>3. f \in [1 .. N -> S] /\ IsInjective(f)
  BY <1>2
<1>4. SetToSeq(S) = f
  BY DEF SetToSeq
<1> HIDE DEF f
<1>5. f \in Injection(1 .. N, S)
  BY <1>3 DEF Injection
<1>6. IsFiniteSet(1 .. N) /\ Cardinality(1 .. N) = N
  <2> HIDE DEF N
  <2>1. N \in Int /\ 1 \in Int /\ (1 > N => N = 0) /\ N - 1 + 1 = N
    BY <1>1
  <2> QED BY <1>1, <2>1, FS_Interval
<1>7. f \in Surjection(1 .. N, S)
  BY <1>5, <1>6, FS_Injection
<1>8. {f[k] : k \in 1 .. N} = S
  BY <1>7 DEF Surjection
<1>9. \A i, j \in 1 .. N : f[i] = f[j] => i = j
  BY <1>3 DEF IsInjective
<1> QED BY <1>1, <1>3, <1>4, <1>8, <1>9

-----------------------------------------------------------------------------
(* Numbers.                                                                   *)

(* Max and Min of two numbers.                                                *)
LEMMA MaxMin ==
  ASSUME NEW a \in Int, NEW b \in Int
  PROVE  /\ Max({a, b}) = IF a >= b THEN a ELSE b
         /\ Min({a, b}) = IF a <= b THEN a ELSE b
<1> DEFINE x == IF a >= b THEN a ELSE b
           y == IF a <= b THEN a ELSE b
<1>1. x \in {a, b} /\ \A z \in {a, b} : x >= z
  OBVIOUS
<1>2. y \in {a, b} /\ \A z \in {a, b} : y <= z
  OBVIOUS
<1>3. \A z \in {a, b} : (\A w \in {a, b} : z >= w) => z = x
  OBVIOUS
<1>4. \A z \in {a, b} : (\A w \in {a, b} : z <= w) => z = y
  OBVIOUS
<1> HIDE DEF x, y
<1>5. Max({a, b}) = x
  BY <1>1, <1>3 DEF Max
<1>6. Min({a, b}) = y
  BY <1>2, <1>4 DEF Min
<1> QED BY <1>5, <1>6 DEF x, y

(* A set of numbers below a bound has a least and a greatest one.             *)
LEMMA Extremes ==
  ASSUME NEW n \in Nat, NEW S, S \subseteq 0 .. n, S # {}
  PROVE  /\ Min(S) \in S /\ Max(S) \in S
         /\ \A x \in S : Min(S) <= x /\ x <= Max(S)
<1>1. S \subseteq Nat
  OBVIOUS
<1>2. \E m \in S : \A x \in S : m <= x
  BY <1>1, LeastNat
<1>3. \E m \in S : \A x \in S : m >= x
  <2> DEFINE T == {n - x : x \in S}
  <2>0. \A x \in S : n - x \in Nat
    OBVIOUS
  <2>1. T \subseteq Nat /\ T # {}
    BY <2>0
  <2>2. PICK t \in T : \A u \in T : t <= u
    <3> HIDE DEF T
    <3> QED BY <2>1, LeastNat
  <2>3. PICK m \in S : t = n - m
    BY <2>2
  <2>4. \A x \in S : n - m <= n - x
    BY <2>2, <2>3
  <2>5. \A x \in S : x \in Int
    OBVIOUS
  <2> QED BY <2>3, <2>4, <2>5
<1>4. Min(S) \in S /\ \A x \in S : Min(S) <= x
  BY <1>2 DEF Min
<1>5. Max(S) \in S /\ \A x \in S : Max(S) >= x
  BY <1>3 DEF Max
<1>6. Max(S) \in Nat /\ \A x \in S : x \in Nat
  BY <1>1, <1>5
<1> QED BY <1>4, <1>5, <1>6

(* Induction: no counterexample without the one before it, and none at zero.  *)
LEMMA NoFirst ==
  ASSUME NEW N \in Nat, NEW T, T \subseteq 0 .. N, 0 \notin T,
         \A m \in 1 .. N : m \in T => m - 1 \in T
  PROVE  T = {}
<1> SUFFICES ASSUME T # {} PROVE FALSE
  OBVIOUS
<1>1. T \subseteq Nat
  OBVIOUS
<1>2. PICK m \in T : \A j \in T : m <= j
  BY <1>1, LeastNat
<1>3. m \in 1 .. N /\ ~(m <= m - 1)
  OBVIOUS
<1> QED BY <1>2, <1>3

(* Division with remainder undoes a product and a sum.                        *)
LEMMA RowAndColumn ==
  ASSUME NEW W \in Nat, NEW q \in Nat, NEW r \in 0 .. W - 1
  PROVE  (q * W + r) % W = r /\ (q * W + r) \div W = q
<1> DEFINE n == q * W + r
           d == n \div W
           m == n % W
<1>1. W \in Nat \ {0} /\ W > 0 /\ n \in Nat /\ q * W \in Nat /\ r \in Nat /\ r < W
  OBVIOUS
<1>2. d \in Int /\ m \in 0 .. W - 1 /\ n = d * W + m
  <2> HIDE DEF n
  <2>1. n \in Int /\ W \in Int /\ W > 0
    BY <1>1
  <2> QED BY <2>1, Z3
<1> HIDE DEF d, m
<1>3. (d - q) * W = r - m /\ r - m < W /\ r - m > -W
  BY <1>1, <1>2
<1>4. d - q \in Int
  BY <1>2
<1> DEFINE e == d - q
<1>5. ~(e >= 1)
  <2> SUFFICES ASSUME e >= 1 PROVE FALSE
    OBVIOUS
  <2>1. e * W >= W
    <3>1. e \in Int
      BY <1>4
    <3> HIDE DEF e
    <3>2. e - 1 \in Nat
      BY <3>1
    <3>3. (e - 1) * W \in Nat /\ (e - 1) * W = e * W - W
      BY <3>1, <3>2, <1>1
    <3> QED BY <3>1, <3>3, <1>1
  <2> QED BY <1>1, <1>2, <1>3, <2>1
<1>6. ~(e <= -1)
  <2> SUFFICES ASSUME e <= -1 PROVE FALSE
    OBVIOUS
  <2>1. (-1 - e) \in Nat
    BY <1>4
  <2>2. (-1 - e) * W \in Nat /\ (-1 - e) * W = -W - e * W
    BY <1>1, <1>4, <2>1
  <2> QED BY <1>1, <1>2, <1>3, <2>2
<1>7. d = q
  BY <1>2, <1>5, <1>6
<1>8. m = r
  BY <1>1, <1>2, <1>7
<1> QED BY <1>7, <1>8 DEF d, m

-----------------------------------------------------------------------------
(* Words of any width, from -M - 1 to M, as in the module Words.              *)
(*                                                                            *)
(* What is left of an exact result differs from it by a multiple of the number *)
(* of words.                                                                  *)
LEMMA WrapShifts ==
  ASSUME NEW M \in Nat, NEW x \in Int
  PROVE  LET w == ((x + M + 1) % (2 * M + 2)) - M - 1
         IN  w \in -M - 1 .. M /\ \E k \in Int : w = x - k * (2 * M + 2)
<1> DEFINE m == 2 * M + 2
           y == x + M + 1
           w == (y % m) - M - 1
<1>1. m \in Nat /\ m > 0 /\ y \in Int
  OBVIOUS
<1>2. y % m \in 0 .. m - 1 /\ y \div m \in Int /\ y = m * (y \div m) + (y % m)
  <2> HIDE DEF m, y
  <2>1. y % m \in 0 .. m - 1 /\ y \div m \in Int
    BY <1>1
  <2>2. y = m * (y \div m) + (y % m)
    BY <1>1
  <2> QED BY <2>1, <2>2
<1>3. w = x - (y \div m) * m
  BY <1>1, <1>2
<1>4. w \in -M - 1 .. M
  BY <1>1, <1>2
<1>5. \E k \in Int : w = x - k * m
  BY <1>2, <1>3
<1> QED BY <1>4, <1>5

(* A result that is a word is left as it is.                                  *)
LEMMA WrapKeepsWords ==
  ASSUME NEW M \in Nat, NEW x \in -M - 1 .. M
  PROVE  ((x + M + 1) % (2 * M + 2)) - M - 1 = x
<1>1. (x + M + 1) % (2 * M + 2) = x + M + 1
  OBVIOUS
<1> QED BY <1>1

\* w is the word that x leaves behind, and Divided truncates towards zero.
WrapsTo(M, x, w) == w = ((x + M + 1) % (2 * M + 2)) - M - 1

Divided(w, a) == IF w >= 0 THEN w \div a ELSE -((-w) \div a)

(* The product of two positive words, divided by one of them, gives the other *)
(* exactly if it is a word itself.                                            *)
THEOREM QuotientTellsOverflow ==
  ASSUME NEW M \in Nat, NEW a \in 1 .. M, NEW b \in 1 .. M, NEW w, WrapsTo(M, a * b, w)
  PROVE  /\ w \in -M - 1 .. M
         /\ Divided(w, a) = b <=> a * b <= M
         /\ a * b <= M => w = a * b
<1> w = ((a * b + M + 1) % (2 * M + 2)) - M - 1
  BY DEF WrapsTo
<1> DEFINE p == a * b
           q == IF w >= 0 THEN w \div a ELSE -((-w) \div a)
<1>1. a \in Nat /\ b \in Nat /\ a >= 1 /\ b >= 1 /\ p \in Nat /\ p >= 1
  OBVIOUS
<1>2. w \in -M - 1 .. M /\ \E k \in Int : w = p - k * (2 * M + 2)
  <2>1. p \in Int /\ w = ((p + M + 1) % (2 * M + 2)) - M - 1
    BY <1>1
  <2> HIDE DEF p
  <2> QED BY <2>1, WrapShifts
<1>3. p <= M => w = p
  <2> HAVE p <= M
  <2>1. p \in -M - 1 .. M /\ w = ((p + M + 1) % (2 * M + 2)) - M - 1
    BY <1>1
  <2> HIDE DEF p
  <2> QED BY <2>1, WrapKeepsWords
<1>4. ASSUME p <= M PROVE q = b
  <2>1. w = p /\ w >= 0
    BY <1>1, <1>3, <1>4
  <2>2. (a * b) \div a = b
    BY <1>1
  <2> QED BY <2>1, <2>2
<1>5. ASSUME q = b PROVE p <= M
  <2>1. w >= 0
    <3>1. SUFFICES ASSUME w < 0 PROVE FALSE
      BY <1>2
    <3>2. q = -((-w) \div a) /\ -w \in Nat
      BY <3>1, <1>2
    <3>3. (-w) \div a >= 0
      BY <3>2, <1>1
    <3> QED BY <3>2, <3>3, <1>1, <1>5
  <2>2. w \in Nat /\ w \div a = b
    BY <2>1, <1>2, <1>5
  \* The remainder is less than a, so w is less than a above p: no shift by the
  \* number of words fits in between.
  <2>3. w = a * (w \div a) + (w % a)
    BY <2>2, <1>1
  <2>5. w % a \in 0 .. a - 1
    BY <2>2, <1>1
  <2>4. p <= w
    BY <2>2, <2>3, <2>5, <1>1
  <2> QED BY <2>4, <1>1, <1>2
<1>6. Divided(w, a) = q
  BY DEF Divided
<1> HIDE DEF p, q
<1>7. /\ w \in -M - 1 .. M
      /\ Divided(w, a) = b <=> p <= M
      /\ p <= M => w = p
  BY <1>2, <1>3, <1>4, <1>5, <1>6
<1> QED BY <1>7 DEF p
=============================================================================
