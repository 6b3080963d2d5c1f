---------------------------- MODULE ConfigProofs ----------------------------
(* Config and Policy, for integers of every width and for all files,          *)
(* environments and paths.  The memory ceiling: the check that Validate makes *)
(* on a product that may have wrapped around says what the same check on the  *)
(* exact product would say.  The routes: New's sort has exactly one result,   *)
(* so the first match is the one that comes before all others that match; and *)
(* matching on trimmed strings is matching by segments.                       *)
EXTENDS Config, Lemmas, SequenceTheorems

-----------------------------------------------------------------------------
(* The ceiling.                                                               *)


\* What Load has found, and that the three numbers the ceiling is about are words.
IInv == /\ result \in {"none", "ok", "refused"}
        /\ result = "ok" => Validate(cfg)
        /\ result = "refused" => ~Validate(cfg)
        /\ result # "none" => {cfg.pool, cfg.maxBytes, cfg.ceiling} \subseteq Word
        /\ \E family \in Families : input \in family

LEMMA DefaultsAreWords ==
  /\ {DefaultPool, DefaultMaxBytes, DefaultCeiling} \subseteq Word
  /\ 0 \in Word
BY MaxIntAssumption, DefaultsAssumption DEF Word

LEMMA TheOrIsWord ==
  ASSUME NEW own \in Optional(Word), NEW otherwise \in Word
  PROVE  TheOr(own, otherwise) \in Word
BY DEF TheOr, Optional

(* What defaults and the environment leave in the numbers of a file.          *)
LEMMA LoadedNumbers ==
  ASSUME NEW family \in Families, NEW in \in family
  PROVE  LET c == ApplyDefaults(ApplyEnv(in.file, in.env))
         IN {c.pool, c.maxBytes, c.ceiling} \subseteq Word
<1> DEFINE e == ApplyEnv(in.file, in.env)
           c == ApplyDefaults(e)
<1>1. /\ in.file = [f \in Fields |-> in.file[f]]
      /\ {in.file.pool, in.file.maxBytes, in.file.ceiling} \subseteq Word
      /\ in.env.pool \in Optional(Word) /\ in.env.maxBytes \in Optional(Word)
  BY FamiliesAssumption
<1>2. /\ e.pool = TheOr(in.env.pool, in.file.pool)
      /\ e.maxBytes = TheOr(in.env.maxBytes, in.file.maxBytes)
      /\ e.ceiling = in.file.ceiling
      /\ e = [f \in Fields |-> e[f]]
  <2> HIDE DEF e
  <2> QED BY <1>1 DEF e, ApplyEnv, Fields
<1>3. {e.pool, e.maxBytes, e.ceiling} \subseteq Word
  BY <1>1, <1>2, TheOrIsWord
<1>4. /\ c.pool = NonZeroOr(e.pool, DefaultPool)
      /\ c.maxBytes = NonZeroOr(e.maxBytes, DefaultMaxBytes)
      /\ c.ceiling = NonZeroOr(e.ceiling, DefaultCeiling)
  <2> HIDE DEF e
  <2> QED BY <1>2 DEF ApplyDefaults, Fields
<1> QED BY <1>3, <1>4, DefaultsAreWords DEF NonZeroOr

LEMMA InitIInv == Init => IInv
BY DEF Init, IInv

LEMMA NextIInv == IInv /\ [Next]_vars => IInv'
<1> SUFFICES ASSUME IInv, [Next]_vars PROVE IInv'
  OBVIOUS
<1>1. CASE Load
  <2>1. PICK family \in Families : input \in family
    BY DEF IInv
  <2>2. cfg' = ApplyDefaults(ApplyEnv(input.file, input.env)) /\ input' = input
    BY <1>1 DEF Load
  <2>3. ({cfg.pool, cfg.maxBytes, cfg.ceiling} \subseteq Word)'
    BY <2>1, <2>2, LoadedNumbers
  <2>4. \/ result' = "ok" /\ Validate(cfg')
        \/ result' = "refused" /\ ~Validate(cfg')
    BY <1>1 DEF Load
  <2> QED BY <2>1, <2>2, <2>3, <2>4 DEF IInv
<1>2. CASE BuildPolicy
  BY <1>2 DEF BuildPolicy, IInv
<1>3. CASE Request
  BY <1>3 DEF Request, IInv
<1>4. CASE UNCHANGED vars
  BY <1>4 DEF vars, IInv
<1> QED BY <1>1, <1>2, <1>3, <1>4 DEF Next

(* The check of Validate is the comparison of the exact product.              *)
LEMMA WithinCeilingExact ==
  ASSUME NEW c, c.pool \in 1 .. MaxInt, c.maxBytes \in 1 .. MaxInt, c.ceiling \in Word
  PROVE  WithinCeiling(c) <=> c.pool * c.maxBytes <= c.ceiling
<1> DEFINE a == c.maxBytes
           b == c.pool
<1>1. /\ Wrap(a * b) \in Word
      /\ Quot(Wrap(a * b), a) = b <=> a * b <= MaxInt
      /\ a * b <= MaxInt => Wrap(a * b) = a * b
  <2>1. a \in 1 .. MaxInt /\ b \in 1 .. MaxInt /\ MaxInt \in Nat
    BY MaxIntAssumption
  <2> HIDE DEF a, b
  <2> DEFINE w == Wrap(a * b)
  <2>2. WrapsTo(MaxInt, a * b, w)
    BY DEF Wrap, WrapsTo
  <2> HIDE DEF w
  <2>3. /\ w \in -MaxInt - 1 .. MaxInt
        /\ Divided(w, a) = b <=> a * b <= MaxInt
        /\ a * b <= MaxInt => w = a * b
    BY <2>1, <2>2, QuotientTellsOverflow
  <2>4. w \in Word /\ Quot(w, a) = Divided(w, a)
    BY <2>3 DEF Word, Quot, Divided
  <2> QED BY <2>3, <2>4 DEF w
<1>2. c.ceiling <= MaxInt /\ c.ceiling \in Int /\ a \in Nat /\ b \in Nat /\ a # 0
  BY MaxIntAssumption DEF Word
<1>3. a * b = b * a /\ a * b \in Nat
  BY <1>2
<1>4. WithinCeiling(c) <=> Quot(Wrap(a * b), a) = b /\ Wrap(a * b) <= c.ceiling
  BY <1>2 DEF WithinCeiling
<1> QED BY <1>1, <1>2, <1>3, <1>4, MaxIntAssumption

LEMMA IInvCeiling == IInv => CeilingExact
<1> SUFFICES ASSUME IInv PROVE CeilingExact
  OBVIOUS
<1>1. ASSUME result # "none", WellFormed(cfg)
      PROVE  /\ WithinCeiling(cfg) <=> Peak <= cfg.ceiling
             /\ Peak \in Nat /\ Peak >= 1 /\ cfg.ceiling \in Int
  <2>1. cfg.pool \in 1 .. MaxInt /\ cfg.maxBytes \in 1 .. MaxInt /\ cfg.ceiling \in Word
    <3>1. cfg.pool \in Word /\ cfg.maxBytes \in Word /\ cfg.ceiling \in Word
      BY <1>1 DEF IInv
    <3>2. cfg.pool >= 1 /\ cfg.maxBytes >= 1
      BY <1>1 DEF WellFormed
    <3> QED BY <3>1, <3>2, MaxIntAssumption DEF Word
  <2>2. WithinCeiling(cfg) <=> Peak <= cfg.ceiling
    BY <2>1, WithinCeilingExact DEF Peak
  <2>3. cfg.ceiling \in Int
    BY <2>1, MaxIntAssumption DEF Word
  <2>4. Peak \in Nat /\ Peak >= 1
    BY <2>1, MaxIntAssumption DEF Peak
  <2> QED BY <2>2, <2>3, <2>4
<1>2. CASE result = "ok"
  BY <1>1, <1>2 DEF IInv, Validate, CeilingExact
<1>3. CASE result = "refused"
  BY <1>1, <1>3 DEF IInv, Validate, CeilingExact
<1>4. CASE result = "none"
  BY <1>4 DEF CeilingExact
<1> QED BY <1>2, <1>3, <1>4 DEF IInv

(* An accepted configuration keeps the exact product under the ceiling, and   *)
(* none is refused that would have: for every width, file and environment.    *)
THEOREM ConfigCeilingExact == Spec => []CeilingExact
BY InitIInv, NextIInv, IInvCeiling, PTL DEF Spec

-----------------------------------------------------------------------------
(* The order of New's sort.                                                   *)
RouteList(c) == /\ Len(c) \in Nat /\ DOMAIN c = 1 .. Len(c)
                /\ \A i \in DOMAIN c : c[i].prefix \in Seq(Chars)
SortPairs(c) == {p \in (DOMAIN c) \X (DOMAIN c) : SortsBefore(c, p[1], p[2])}

\* Where two prefixes of one length differ first.
Differ(s, t, i) == i \in 1 .. Len(s) /\ s[i] < t[i] /\ \A j \in 1 .. i - 1 : s[j] = t[j]

LEMMA BeforeMeans ==
  ASSUME NEW s \in Seq(Chars), NEW t \in Seq(Chars), Len(s) = Len(t)
  PROVE  Before(s, t) <=> \E i : Differ(s, t, i)
<1>1. ~ IsStrictPrefix(s, t)
  <2>1. SubSeq(s, 1, Len(s)) = s /\ SubSeq(t, 1, Len(s)) = t
    BY SubSeqFull
  <2> QED BY <2>1 DEF IsStrictPrefix, IsPrefix
<1>2. DOMAIN s \intersect DOMAIN t = 1 .. Len(s)
  OBVIOUS
<1> QED BY <1>1, <1>2 DEF Before, Differ

LEMMA BeforeTotal ==
  ASSUME NEW s \in Seq(Chars), NEW t \in Seq(Chars), Len(s) = Len(t), s # t
  PROVE  Before(s, t) \/ Before(t, s)
<1> DEFINE T == {i \in 1 .. Len(s) : s[i] # t[i]}
<1>1. T # {}
  <2> SUFFICES ASSUME T = {} PROVE FALSE
    OBVIOUS
  <2>1. \A i \in 1 .. Len(s) : s[i] = t[i]
    OBVIOUS
  <2> QED BY <2>1, SeqEqual
<1>2. PICK i \in T : \A j \in T : i <= j
  <2>1. T \subseteq Nat
    OBVIOUS
  <2> HIDE DEF T
  <2> QED BY <1>1, <2>1, LeastNat
<1>3. i \in 1 .. Len(s) /\ s[i] \in Int /\ t[i] \in Int /\ s[i] # t[i]
  BY <1>2 DEF Chars
<1>4. ASSUME NEW j \in 1 .. i - 1 PROVE s[j] = t[j]
  <2>1. j \in 1 .. Len(s) /\ ~ (i <= j)
    BY <1>3
  <2>2. j \notin T
    <3> HIDE DEF T
    <3> QED BY <1>2, <2>1
  <2> QED BY <2>1, <2>2
<1>5. Differ(s, t, i) \/ Differ(t, s, i)
  BY <1>3, <1>4 DEF Differ
<1> QED BY <1>5, BeforeMeans

LEMMA BeforeTransitive ==
  ASSUME NEW s \in Seq(Chars), NEW t \in Seq(Chars), NEW u \in Seq(Chars),
         Len(s) = Len(t), Len(t) = Len(u), Before(s, t), Before(t, u)
  PROVE  Before(s, u)
<1>1. PICK i : Differ(s, t, i)
  BY BeforeMeans
<1>2. PICK k : Differ(t, u, k)
  BY BeforeMeans
<1>3. i \in 1 .. Len(s) /\ k \in 1 .. Len(s) /\ s[i] < t[i] /\ t[k] < u[k]
  BY <1>1, <1>2 DEF Differ
<1>4. \A j \in 1 .. Len(s) : s[j] \in Int /\ t[j] \in Int /\ u[j] \in Int
  BY DEF Chars
<1>5. CASE i <= k
  <2>1. s[i] < u[i]
    <3>1. CASE i = k
      BY <1>3, <1>4, <3>1
    <3>2. CASE i < k
      <4>1. t[i] = u[i]
        BY <1>2, <1>3, <3>2 DEF Differ
      <4> QED BY <1>3, <4>1
    <3> QED BY <1>3, <1>5, <3>1, <3>2
  <2>2. \A j \in 1 .. i - 1 : s[j] = t[j] /\ t[j] = u[j]
    BY <1>1, <1>2, <1>3, <1>5 DEF Differ
  <2>3. Differ(s, u, i)
    BY <1>3, <2>1, <2>2 DEF Differ
  <2> QED BY <2>3, BeforeMeans
<1>6. CASE k < i
  <2>1. s[k] = t[k]
    BY <1>1, <1>3, <1>6 DEF Differ
  <2>2. \A j \in 1 .. k - 1 : s[j] = t[j] /\ t[j] = u[j]
    BY <1>1, <1>2, <1>3, <1>6 DEF Differ
  <2>3. Differ(s, u, k)
    BY <1>3, <2>1, <2>2 DEF Differ
  <2> QED BY <2>3, BeforeMeans
<1> QED BY <1>3, <1>5, <1>6

LEMMA BeforeIrreflexive ==
  ASSUME NEW s \in Seq(Chars)
  PROVE  ~ Before(s, s)
<1> SUFFICES ASSUME Before(s, s) PROVE FALSE
  OBVIOUS
<1>1. PICK i : Differ(s, s, i)
  BY BeforeMeans
<1>2. s[i] \in Int
  BY <1>1 DEF Differ, Chars
<1> QED BY <1>1, <1>2 DEF Differ

(* New's sort has one result, whatever the routes.                            *)
LEMMA SortIsOrder ==
  ASSUME NEW c, RouteList(c)
  PROVE  IsOrder(SortPairs(c), DOMAIN c)
<1> DEFINE L(i) == Len(c[i].prefix)
           P(i) == c[i].prefix
<1>1. \A i \in DOMAIN c : P(i) \in Seq(Chars) /\ L(i) \in Nat /\ i \in Int
  BY DEF RouteList
<1>2. \A i, j \in DOMAIN c : <<i, j>> \in SortPairs(c) <=>
        \/ L(i) > L(j)
        \/ L(i) = L(j) /\ (Before(P(i), P(j)) \/ (P(i) = P(j) /\ i < j))
  BY DEF SortPairs, SortsBefore, InByteOrder
<1> HIDE DEF P, SortPairs
<1> USE DEF L
<1>3. \A i \in DOMAIN c : <<i, i>> \notin SortPairs(c)
  <2> TAKE i \in DOMAIN c
  <2>1. ~ Before(P(i), P(i))
    BY <1>1, BeforeIrreflexive
  <2> QED BY <1>1, <1>2, <2>1
<1>4. ASSUME NEW i \in DOMAIN c, NEW j \in DOMAIN c, NEW k \in DOMAIN c,
             <<i, j>> \in SortPairs(c), <<j, k>> \in SortPairs(c)
      PROVE  <<i, k>> \in SortPairs(c)
  <2>1. L(i) = L(j) /\ L(j) = L(k) /\ Before(P(i), P(j)) /\ Before(P(j), P(k))
          => Before(P(i), P(k))
    BY <1>1, BeforeTransitive DEF P
  <2> HIDE DEF L
  <2> QED BY <1>1, <1>2, <1>4, <2>1
<1>5. ASSUME NEW i \in DOMAIN c, NEW j \in DOMAIN c, i # j
      PROVE  <<i, j>> \in SortPairs(c) \/ <<j, i>> \in SortPairs(c)
  <2>1. L(i) = L(j) /\ P(i) # P(j) => Before(P(i), P(j)) \/ Before(P(j), P(i))
    BY <1>1, BeforeTotal DEF P
  <2> HIDE DEF L
  <2> QED BY <1>1, <1>2, <1>5, <2>1
<1> QED BY <1>3, <1>4, <1>5 DEF IsOrder

-----------------------------------------------------------------------------
(* What a request gets.                                                       *)

\* The routes of c in D, in sorted order, are those of an enumeration o of D.
Lists(o, c, D) == /\ o \in [1 .. Cardinality(D) -> D]
                  /\ Range(o) = D
                  /\ \A a, b \in DOMAIN o : a < b => SortsBefore(c, o[a], o[b])

LEMMA SortedLists ==
  ASSUME NEW c, RouteList(c), NEW D \in SUBSET DOMAIN c
  PROVE  /\ Cardinality(D) \in Nat
         /\ \E o : Lists(o, c, D) /\ Sorted(c, D) = [k \in 1 .. Cardinality(D) |-> c[o[k]]]
<1>1. IsFiniteSet(D)
  <2>1. IsFiniteSet(1 .. Len(c))
    BY FS_Interval DEF RouteList
  <2> QED BY <2>1, FS_Subset DEF RouteList
<1>2. IsOrder(SortPairs(c), D)
  BY SortIsOrder DEF IsOrder
<1>3. PICK o \in [1 .. Cardinality(D) -> D] :
        /\ {o[a] : a \in 1 .. Cardinality(D)} = D
        /\ \A a, b \in 1 .. Cardinality(D) : a < b => <<o[a], o[b]>> \in SortPairs(c)
  BY <1>1, <1>2, ListedInOrder
<1>4. \E x \in [1 .. Cardinality(D) -> D] :
        /\ Range(x) = D
        /\ \A a, b \in DOMAIN x : a < b => SortsBefore(c, x[a], x[b])
  <2>1. Range(o) = D
    BY <1>3 DEF Range
  <2>2. \A a, b \in DOMAIN o : a < b => SortsBefore(c, o[a], o[b])
    BY <1>3 DEF SortPairs
  <2> QED BY <2>1, <2>2
<1> DEFINE w == CHOOSE x \in [1 .. Cardinality(D) -> D] :
                  /\ Range(x) = D
                  /\ \A a, b \in DOMAIN x : a < b => SortsBefore(c, x[a], x[b])
<1>5. Lists(w, c, D)
  BY <1>4 DEF Lists
<1>6. Sorted(c, D) = [k \in 1 .. Cardinality(D) |-> c[w[k]]]
  BY DEF Sorted
<1> HIDE DEF w
<1> QED BY <1>1, <1>5, <1>6, FS_CardinalityType

\* The routes that a request for pth competes for.
Hits(c, pth) == {k \in DOMAIN c \ Defaults(c) : MatchPathPrefix(pth, c[k].prefix)}
Contest(c, pth) == IF Hits(c, pth) # {} THEN Hits(c, pth) ELSE Defaults(c)
Wins(c, S, k) == k \in S /\ \A j \in S \ {k} : SortsBefore(c, k, j)

LEMMA MatchWins ==
  ASSUME NEW c, RouteList(c), NEW pth
  PROVE  LET r == FirstMatch(RoutesOf(c), DefaultOf(c), pth)
         IN \/ \E k : Wins(c, Contest(c, pth), k) /\ r = c[k]
            \/ Contest(c, pth) = {} /\ r = NoRoute
<1> DEFINE D == DOMAIN c \ Defaults(c)
           E == Defaults(c)
<1>1. D \in SUBSET DOMAIN c /\ E \in SUBSET DOMAIN c
  BY DEF Defaults
<1>2. /\ Cardinality(D) \in Nat
      /\ \E o : Lists(o, c, D) /\ RoutesOf(c) = [k \in 1 .. Cardinality(D) |-> c[o[k]]]
  BY <1>1, SortedLists DEF RoutesOf
<1>3. PICK o : Lists(o, c, D) /\ RoutesOf(c) = [k \in 1 .. Cardinality(D) |-> c[o[k]]]
  BY <1>2
<1>4. /\ DOMAIN o = 1 .. Cardinality(D) /\ DOMAIN RoutesOf(c) = DOMAIN o
      /\ \A k \in DOMAIN o : RoutesOf(c)[k] = c[o[k]] /\ o[k] \in D
      /\ \A i \in D : \E k \in DOMAIN o : o[k] = i
      /\ \A a, b \in DOMAIN o : a < b => SortsBefore(c, o[a], o[b])
      /\ DOMAIN o \subseteq Nat
  <2> HIDE DEF D
  <2>1. DOMAIN o = 1 .. Cardinality(D) /\ Range(o) = D
    BY <1>3 DEF Lists
  <2>2. \A k \in DOMAIN o : o[k] \in D
    BY <2>1 DEF Range
  <2>3. \A i \in D : \E k \in DOMAIN o : o[k] = i
    BY <2>1 DEF Range
  <2>4. \A a, b \in DOMAIN o : a < b => SortsBefore(c, o[a], o[b])
    BY <1>3 DEF Lists
  <2>5. DOMAIN RoutesOf(c) = DOMAIN o /\ \A k \in DOMAIN o : RoutesOf(c)[k] = c[o[k]]
    BY <1>3, <2>1
  <2> QED BY <1>2, <2>1, <2>2, <2>3, <2>4, <2>5
<1> DEFINE hits == {k \in DOMAIN RoutesOf(c) : MatchPathPrefix(pth, RoutesOf(c)[k].prefix)}
           r == FirstMatch(RoutesOf(c), DefaultOf(c), pth)
<1>5. /\ hits \subseteq Nat /\ hits \subseteq DOMAIN o
      /\ \A k \in hits : o[k] \in Hits(c, pth)
      /\ \A i \in Hits(c, pth) : \E k \in hits : o[k] = i
  BY <1>4 DEF Hits
<1>6. r = IF hits = {} THEN DefaultOf(c) ELSE RoutesOf(c)[Min(hits)]
  BY DEF FirstMatch
<1> HIDE DEF hits, D, E, r
<1>7. CASE hits # {}
  <2>1. Min(hits) \in hits /\ \A k \in hits : Min(hits) <= k
    <3>1. \E k \in hits : \A m \in hits : k <= m
      BY <1>5, <1>7, LeastNat
    <3> QED BY <3>1 DEF Min
  <2> DEFINE m == Min(hits)
  <2>2. r = c[o[m]] /\ m \in hits /\ o[m] \in Hits(c, pth)
    BY <1>4, <1>5, <1>6, <1>7, <2>1
  <2>3. ASSUME NEW j \in Hits(c, pth) \ {o[m]} PROVE SortsBefore(c, o[m], j)
    <3>1. PICK k \in hits : o[k] = j
      BY <1>5
    <3>2. m <= k /\ m # k /\ m \in Nat /\ k \in Nat
      BY <1>5, <2>1, <2>2, <2>3, <3>1
    <3>3. m < k /\ m \in DOMAIN o /\ k \in DOMAIN o
      BY <1>5, <2>2, <3>2
    <3> HIDE DEF m
    <3> QED BY <1>4, <3>1, <3>3
  <2>4. Wins(c, Contest(c, pth), o[m])
    BY <2>2, <2>3 DEF Wins, Contest
  <2> QED BY <2>2, <2>4 DEF r
<1>8. CASE hits = {}
  <2>1. Hits(c, pth) = {} /\ Contest(c, pth) = E
    BY <1>5, <1>8 DEF Contest, E
  <2>2. r = DefaultOf(c)
    BY <1>6, <1>8
  <2>3. CASE E = {}
    BY <2>1, <2>2, <2>3 DEF DefaultOf, E, r
  <2>4. CASE E # {}
    <3>1. PICK e : Lists(e, c, E) /\ Sorted(c, E) = [k \in 1 .. Cardinality(E) |-> c[e[k]]]
      BY <1>1, SortedLists
    <3>2. Cardinality(E) \in Nat /\ DOMAIN e = 1 .. Cardinality(E)
      BY <1>1, <3>1, SortedLists DEF Lists
    <3>3. /\ \A i \in E : \E k \in DOMAIN e : e[k] = i
          /\ \A k \in DOMAIN e : e[k] \in E
          /\ \A a, b \in DOMAIN e : a < b => SortsBefore(c, e[a], e[b])
      BY <3>1 DEF Lists, Range
    <3>4. 1 \in DOMAIN e /\ r = c[e[1]]
      <4>1. 1 \in DOMAIN e
        BY <2>4, <3>2, <3>3
      <4> QED BY <2>2, <2>4, <3>1, <3>2, <4>1 DEF DefaultOf, E
    <3>5. ASSUME NEW j \in E \ {e[1]} PROVE SortsBefore(c, e[1], j)
      <4>1. PICK k \in DOMAIN e : e[k] = j
        BY <3>3
      <4>2. 1 < k
        BY <3>2, <3>5, <4>1
      <4> QED BY <3>3, <3>4, <4>1, <4>2
    <3>6. Wins(c, Contest(c, pth), e[1])
      BY <2>1, <3>3, <3>4, <3>5 DEF Wins
    <3> QED BY <3>4, <3>6 DEF r
  <2> QED BY <2>3, <2>4
<1> QED BY <1>7, <1>8

-----------------------------------------------------------------------------
(* The order of the configuration.                                            *)

(* Of two different prefixes it does not matter where they are written.       *)
LEMMA SortsByPrefix ==
  ASSUME NEW c, NEW d, NEW i, NEW j, NEW k, NEW m,
         c[i].prefix = d[k].prefix, c[j].prefix = d[m].prefix, c[i].prefix # c[j].prefix,
         SortsBefore(c, i, j)
  PROVE  SortsBefore(d, k, m)
BY DEF SortsBefore, InByteOrder

LEMMA BackwardsMatch ==
  ASSUME NEW c, RouteList(c), NEW pth,
         \A i, j \in DOMAIN c : c[i].prefix = c[j].prefix => i = j
  PROVE  FirstMatch(RoutesOf(Reverse(c)), DefaultOf(Reverse(c)), pth)
           = FirstMatch(RoutesOf(c), DefaultOf(c), pth)
<1> DEFINE b == Reverse(c)
           n == Len(c)
           At(k) == (n - k) + 1
           r == FirstMatch(RoutesOf(c), DefaultOf(c), pth)
           q == FirstMatch(RoutesOf(b), DefaultOf(b), pth)
<1>1. /\ n \in Nat /\ DOMAIN c = 1 .. n /\ DOMAIN b = 1 .. n /\ Len(b) = n
      /\ \A k \in 1 .. n : At(k) \in 1 .. n /\ At(At(k)) = k /\ b[k] = c[At(k)]
      /\ \A k \in 1 .. n : c[k].prefix \in Seq(Chars)
  BY DEF RouteList, Reverse
<1>2. RouteList(b)
  <2> HIDE DEF b, n, At
  <2> QED BY <1>1 DEF RouteList
<1> HIDE DEF b, n, At
<1>3. \A k \in 1 .. n : /\ k \in Defaults(b) <=> At(k) \in Defaults(c)
                        /\ k \in Hits(b, pth) <=> At(k) \in Hits(c, pth)
  BY <1>1 DEF Defaults, Hits
<1>4. /\ Hits(b, pth) \subseteq 1 .. n /\ Hits(c, pth) \subseteq 1 .. n
      /\ Defaults(b) \subseteq 1 .. n /\ Defaults(c) \subseteq 1 .. n
  BY <1>1 DEF Defaults, Hits
<1>5. Hits(b, pth) # {} <=> Hits(c, pth) # {}
  BY <1>1, <1>3, <1>4
<1>6. /\ Contest(b, pth) \subseteq 1 .. n /\ Contest(c, pth) \subseteq 1 .. n
      /\ \A k \in 1 .. n : k \in Contest(b, pth) <=> At(k) \in Contest(c, pth)
  BY <1>3, <1>4, <1>5 DEF Contest
<1> HIDE DEF r, q
<1>7. \/ \E k : Wins(c, Contest(c, pth), k) /\ r = c[k]
      \/ Contest(c, pth) = {} /\ r = NoRoute
  BY MatchWins DEF r
<1>8. \/ \E k : Wins(b, Contest(b, pth), k) /\ q = b[k]
      \/ Contest(b, pth) = {} /\ q = NoRoute
  BY <1>2, MatchWins DEF q
<1>9. CASE Contest(c, pth) = {}
  <2>1. Contest(b, pth) = {}
    BY <1>1, <1>6, <1>9
  <2> QED BY <1>7, <1>8, <1>9, <2>1 DEF Wins, r, q, b
<1>10. CASE Contest(c, pth) # {}
  <2>1. Contest(b, pth) # {}
    BY <1>1, <1>6, <1>10
  <2>2. PICK k : Wins(c, Contest(c, pth), k) /\ r = c[k]
    BY <1>7, <1>10
  <2>3. PICK l : Wins(b, Contest(b, pth), l) /\ q = b[l]
    BY <1>8, <2>1
  <2>4. /\ k \in Contest(c, pth) /\ k \in 1 .. n /\ l \in Contest(b, pth) /\ l \in 1 .. n
        /\ At(k) \in Contest(b, pth) /\ At(l) \in Contest(c, pth)
        /\ At(k) \in 1 .. n /\ At(l) \in 1 .. n
    BY <1>1, <1>6, <2>2, <2>3 DEF Wins
  <2>5. k = At(l)
    <3> SUFFICES ASSUME k # At(l) PROVE FALSE
      OBVIOUS
    <3>1. SortsBefore(c, k, At(l))
      BY <2>2, <2>4 DEF Wins
    <3>2. SortsBefore(b, l, At(k))
      <4>1. At(k) # l
        BY <1>1, <2>4
      <4> QED BY <2>3, <2>4, <4>1 DEF Wins
    <3>3. /\ c[At(l)].prefix = b[l].prefix /\ c[k].prefix = b[At(k)].prefix
          /\ c[k].prefix # c[At(l)].prefix
      BY <1>1, <2>4
    <3>4. SortsBefore(c, At(l), k)
      BY <3>2, <3>3, SortsByPrefix
    <3>5. <<k, At(l)>> \in SortPairs(c) /\ <<At(l), k>> \in SortPairs(c)
      BY <1>1, <2>4, <3>1, <3>4 DEF SortPairs
    <3> QED BY <1>1, <2>4, <3>5, SortIsOrder DEF IsOrder
  <2> QED BY <1>1, <2>2, <2>3, <2>4, <2>5 DEF r, q, b
<1> QED BY <1>9, <1>10

-----------------------------------------------------------------------------
(* The settings of a route.                                                   *)
RInv ==
  /\ \E family \in Families : input \in family
  /\ result # "none" => cfg = ApplyDefaults(ApplyEnv(input.file, input.env))
  /\ loaded => /\ result = "ok"
               /\ config = [k \in DOMAIN cfg.routes |-> PolicyRoute(cfg, cfg.routes[k])]
               /\ routes = RoutesOf(config) /\ default = DefaultOf(config)
  /\ path = NoPath => matched = NoRoute
  /\ path # NoPath => path \in Paths /\ loaded /\ matched = FirstMatch(routes, default, path)

LEMMA NoPathIsNone == NoPath \notin Seq(Chars)
<1> SUFFICES ASSUME NoPath \in Seq(Chars) PROVE FALSE
  OBVIOUS
<1>1. NoPath[1] = 0 /\ 1 \in DOMAIN NoPath /\ Len(NoPath) = 1
  BY DEF NoPath
<1>2. NoPath[1] \in Chars
  <2> HIDE DEF NoPath
  <2> QED BY <1>1
<1> QED BY <1>1, <1>2 DEF Chars

LEMMA InitRInv == Init => RInv
BY DEF Init, PolicyInit, RInv, NoPath, NoRoute

LEMMA NextRInv == RInv /\ [Next]_vars => RInv'
<1> SUFFICES ASSUME RInv, [Next]_vars PROVE RInv'
  OBVIOUS
<1>1. CASE Load
  BY <1>1 DEF Load, RInv, policyVars
<1>2. CASE BuildPolicy
  BY <1>2 DEF BuildPolicy, New, RInv
<1>3. CASE Request
  <2>1. path' # NoPath
    BY <1>3, NoPathIsNone, PathsAssumption DEF Request, Match
  <2> QED BY <1>3, <2>1 DEF Request, Match, RInv
<1>4. CASE UNCHANGED vars
  BY <1>4 DEF vars, policyVars, RInv
<1> QED BY <1>1, <1>2, <1>3, <1>4 DEF Next

(* What a file's routes become, and the global settings they inherit.         *)
LEMMA LoadedRoutes ==
  ASSUME NEW family \in Families, NEW in \in family
  PROVE  LET c == ApplyDefaults(ApplyEnv(in.file, in.env))
             file == in.file
         IN /\ file.routes \in Seq(Route)
            /\ c.routes = [k \in DOMAIN file.routes |-> Inherit(file.routes[k], c)]
            /\ c.failOpen = file.failOpen /\ c.strip = file.strip /\ c.accepted = file.accepted
            /\ c.maxBytes = NonZeroOr(TheOr(in.env.maxBytes, file.maxBytes), DefaultMaxBytes)
<1> DEFINE file == in.file
           e == ApplyEnv(in.file, in.env)
           c == ApplyDefaults(e)
<1>1. /\ file = [f \in Fields |-> file[f]]
      /\ file.routes \in Seq(Route)
  BY FamiliesAssumption
<1>2. /\ e.maxBytes = TheOr(in.env.maxBytes, file.maxBytes)
      /\ e.routes = file.routes
      /\ e.failOpen = file.failOpen /\ e.strip = file.strip /\ e.accepted = file.accepted
      /\ e = [f \in Fields |-> e[f]]
  <2> HIDE DEF e, file
  <2> QED BY <1>1 DEF e, file, ApplyEnv, Fields
<1> DEFINE g == [e EXCEPT !.listen = IF @ = "" THEN DefaultListen ELSE @,
                          !.pool = NonZeroOr(@, DefaultPool),
                          !.maxBytes = NonZeroOr(@, DefaultMaxBytes),
                          !.maxPixels = NonZeroOr(@, DefaultMaxPixels),
                          !.ceiling = NonZeroOr(@, DefaultCeiling)]
<1>3. /\ g.maxBytes = NonZeroOr(e.maxBytes, DefaultMaxBytes)
      /\ g.routes = e.routes
      /\ g.failOpen = e.failOpen /\ g.strip = e.strip /\ g.accepted = e.accepted
      /\ g = [f \in Fields |-> g[f]]
  <2> HIDE DEF e
  <2> QED BY <1>2 DEF Fields
<1>4. c = [g EXCEPT !.routes = [k \in DOMAIN @ |-> Inherit(@[k], g)]]
  BY DEF ApplyDefaults
<1> HIDE DEF e, g, c
<1>5. /\ c.maxBytes = g.maxBytes /\ c.failOpen = g.failOpen
      /\ c.strip = g.strip /\ c.accepted = g.accepted
      /\ c.routes = [k \in DOMAIN g.routes |-> Inherit(g.routes[k], g)]
  BY <1>3, <1>4 DEF Fields
<1>6. ASSUME NEW r PROVE Inherit(r, g) = Inherit(r, c)
  BY <1>5 DEF Inherit
<1>7. c.routes = [k \in DOMAIN file.routes |-> Inherit(file.routes[k], c)]
  BY <1>2, <1>3, <1>5, <1>6
<1>8. /\ c.failOpen = file.failOpen /\ c.strip = file.strip /\ c.accepted = file.accepted
      /\ c.maxBytes = NonZeroOr(TheOr(in.env.maxBytes, file.maxBytes), DefaultMaxBytes)
  BY <1>2, <1>3, <1>5
<1>9. c = ApplyDefaults(ApplyEnv(in.file, in.env))
  BY DEF c, e
<1> HIDE DEF file
<1>10. LET b == c IN
         /\ b.routes = [k \in DOMAIN file.routes |-> Inherit(file.routes[k], b)]
         /\ b.failOpen = file.failOpen /\ b.strip = file.strip /\ b.accepted = file.accepted
         /\ b.maxBytes = NonZeroOr(TheOr(in.env.maxBytes, file.maxBytes), DefaultMaxBytes)
  BY <1>7, <1>8
<1> QED BY <1>1, <1>10 DEF c, e, file

(* What a route of the file is in the policy.                                 *)
Settled(q, r, c) ==
  /\ q.prefix = r.prefix /\ q.action = r.action /\ q.detectors = r.detectors
  /\ q.failOpen = IF r.failOpen = {} THEN c.failOpen ELSE r.failOpen = {TRUE}
  /\ q.strip = IF r.strip = {} THEN c.strip ELSE r.strip = {TRUE}
  /\ {q.accepted} = IF r.accepted = {} THEN {c.accepted} ELSE r.accepted
  /\ q.maxBytes = IF r.maxBytes = 0 THEN c.maxBytes ELSE r.maxBytes

LEMMA RouteSettings ==
  ASSUME NEW r \in Route, \A a, b \in r.accepted : a = b,
         NEW c, c.failOpen \in BOOLEAN, c.strip \in BOOLEAN
  PROVE  Settled(PolicyRoute(c, Inherit(r, c)), r, c)
<1> DEFINE h == Inherit(r, c)
           q == PolicyRoute(c, h)
<1>1. \A v, w : TheOr({v}, w) = v
  BY DEF TheOr
<1>2. /\ h.prefix = r.prefix /\ h.action = r.action /\ h.detectors = r.detectors
      /\ h.maxBytes = NonZeroOr(r.maxBytes, c.maxBytes)
      /\ h.strip = {TheOr(r.strip, c.strip)}
      /\ h.failOpen = {TheOr(r.failOpen, c.failOpen)}
      /\ h.accepted = {TheOr(r.accepted, c.accepted)}
  BY DEF Inherit, Route
<1> HIDE DEF h
<1>3. /\ q.prefix = r.prefix /\ q.action = r.action /\ q.detectors = r.detectors
      /\ q.maxBytes = NonZeroOr(r.maxBytes, c.maxBytes)
      /\ q.strip = TheOr(r.strip, c.strip)
      /\ q.failOpen = TheOr(r.failOpen, c.failOpen)
      /\ q.accepted = TheOr(r.accepted, c.accepted)
  <2>1. /\ q.prefix = h.prefix /\ q.action = h.action /\ q.detectors = h.detectors
        /\ q.maxBytes = h.maxBytes
        /\ q.strip = TheOr(h.strip, c.strip)
        /\ q.failOpen = TheOr(h.failOpen, c.failOpen)
        /\ q.accepted = TheOr(h.accepted, {})
    BY DEF PolicyRoute
  <2> HIDE DEF q
  <2>2. /\ TheOr(h.strip, c.strip) = TheOr(r.strip, c.strip)
        /\ TheOr(h.failOpen, c.failOpen) = TheOr(r.failOpen, c.failOpen)
        /\ TheOr(h.accepted, {}) = TheOr(r.accepted, c.accepted)
    BY <1>1, <1>2, Zenon
  <2> QED BY <1>2, <2>1, <2>2
<1> HIDE DEF q
<1>4. \A own \in Optional(BOOLEAN) : \A v \in BOOLEAN :
        TheOr(own, v) = IF own = {} THEN v ELSE own = {TRUE}
  <2> TAKE own \in Optional(BOOLEAN), v \in BOOLEAN
  <2>1. own = {} \/ own = {TRUE} \/ own = {FALSE}
    BY DEF Optional
  <2>2. CASE own = {}
    BY <2>2 DEF TheOr
  <2>3. CASE own = {TRUE}
    <3>1. TheOr(own, v) = TRUE
      BY <1>1, <2>3
    <3> QED BY <2>3, <3>1
  <2>4. CASE own = {FALSE}
    <3>1. TheOr(own, v) = FALSE
      BY <1>1, <2>4
    <3>2. own # {} /\ own # {TRUE}
      BY <2>4
    <3> QED BY <3>1, <3>2
  <2> QED BY <2>1, <2>2, <2>3, <2>4
<1>5. r.failOpen \in Optional(BOOLEAN) /\ r.strip \in Optional(BOOLEAN)
  BY DEF Route
<1>6. {TheOr(r.accepted, c.accepted)} = IF r.accepted = {} THEN {c.accepted} ELSE r.accepted
  BY DEF TheOr
<1>7. /\ q.strip = IF r.strip = {} THEN c.strip ELSE r.strip = {TRUE}
      /\ q.failOpen = IF r.failOpen = {} THEN c.failOpen ELSE r.failOpen = {TRUE}
  BY <1>3, <1>4, <1>5
<1>8. Settled(q, r, c)
  BY <1>3, <1>6, <1>7 DEF NonZeroOr, Settled
<1> QED BY <1>8 DEF q, h

LEMMA LoadedList == RInv /\ loaded => RouteList(config)
<1> SUFFICES ASSUME RInv, loaded PROVE RouteList(config)
  OBVIOUS
<1> DEFINE rs == input.file.routes
<1>1. /\ rs \in Seq(Route) /\ cfg.routes = [k \in DOMAIN rs |-> Inherit(rs[k], cfg)]
      /\ config = [k \in DOMAIN cfg.routes |-> PolicyRoute(cfg, cfg.routes[k])]
  BY LoadedRoutes DEF RInv
<1> HIDE DEF rs
<1>2. DOMAIN config = 1 .. Len(rs) /\ Len(rs) \in Nat
      /\ \A k \in 1 .. Len(rs) : config[k] = PolicyRoute(cfg, Inherit(rs[k], cfg)) /\ rs[k] \in Route
  BY <1>1
<1>3. \A k \in 1 .. Len(rs) : config[k].prefix = rs[k].prefix /\ rs[k].prefix \in Seq(Chars)
  <2> TAKE k \in 1 .. Len(rs)
  <2>1. rs[k] \in Route
    BY <1>2
  <2>2. Inherit(rs[k], cfg).prefix = rs[k].prefix
    BY <2>1 DEF Inherit, Route
  <2>3. config[k].prefix = Inherit(rs[k], cfg).prefix
    BY <1>2 DEF PolicyRoute
  <2> QED BY <2>1, <2>2, <2>3 DEF Route
<1>4. Len(config) = Len(rs)
  BY <1>1, <1>2
<1> QED BY <1>2, <1>3, <1>4 DEF RouteList

LEMMA RInvOrder == RInv => OrderIndependent
<1> SUFFICES ASSUME RInv, loaded, path # NoPath,
                    \A i, j \in DOMAIN config : config[i].prefix = config[j].prefix => i = j
             PROVE  FirstMatch(RoutesOf(Reverse(config)), DefaultOf(Reverse(config)), path) = matched
  BY DEF OrderIndependent
<1> QED BY LoadedList, BackwardsMatch DEF RInv

LEMMA RInvSettings == RInv => SettingsFollowRoute
<1> SUFFICES ASSUME RInv, matched # NoRoute PROVE SettingsFollowRoute
  BY DEF SettingsFollowRoute
<1> DEFINE file == input.file
           env == input.env
           rs == file.routes
<1>1. loaded /\ RouteList(config) /\ matched = FirstMatch(RoutesOf(config), DefaultOf(config), path)
  BY LoadedList DEF RInv
<1>2. PICK k : Wins(config, Contest(config, path), k) /\ matched = config[k]
  BY <1>1, MatchWins
<1>3. PICK family \in Families : input \in family
  BY DEF RInv
<1>4. /\ cfg = ApplyDefaults(ApplyEnv(file, env))
      /\ config = [i \in DOMAIN cfg.routes |-> PolicyRoute(cfg, cfg.routes[i])]
  BY <1>1 DEF RInv
<1>5. /\ rs \in Seq(Route)
      /\ cfg.routes = [i \in DOMAIN rs |-> Inherit(rs[i], cfg)]
      /\ cfg.failOpen = file.failOpen /\ cfg.strip = file.strip /\ cfg.accepted = file.accepted
      /\ cfg.maxBytes = NonZeroOr(TheOr(env.maxBytes, file.maxBytes), DefaultMaxBytes)
  BY <1>3, <1>4, LoadedRoutes
<1>6. /\ file.failOpen \in BOOLEAN /\ file.strip \in BOOLEAN
      /\ \A r \in Range(rs) : \A a, b \in r.accepted : a = b
      /\ env.maxBytes \in Optional(Word) /\ file.maxBytes \in Word
  BY <1>3, FamiliesAssumption
<1> HIDE DEF file, env, rs
<1>7. /\ DOMAIN config = DOMAIN rs /\ DOMAIN rs = 1 .. Len(rs) /\ Len(rs) \in Nat
      /\ \A i \in DOMAIN rs : /\ config[i] = PolicyRoute(cfg, Inherit(rs[i], cfg))
                              /\ rs[i] \in Route
                              /\ \A a, b \in rs[i].accepted : a = b
  BY <1>4, <1>5, <1>6 DEF Range
<1>8. k \in DOMAIN rs /\ Contest(config, path) \subseteq DOMAIN config
  BY <1>2, <1>7 DEF Wins, Contest, Hits, Defaults
<1>0. \A i \in DOMAIN rs : Settled(config[i], rs[i], cfg)
  BY <1>5, <1>6, <1>7, RouteSettings
<1>9. \A i \in DOMAIN rs : config[i].prefix = rs[i].prefix
  BY <1>0 DEF Settled
<1> DEFINE same == {i \in DOMAIN rs : rs[i].prefix = matched.prefix}
<1>10. Min(same) = k
  <2>1. k \in same
    BY <1>2, <1>8, <1>9
  <2>2. ASSUME NEW i \in same PROVE k <= i
    <3>1. i \in DOMAIN rs /\ config[i].prefix = config[k].prefix
      BY <1>2, <1>8, <1>9
    <3>2. i \in Contest(config, path)
      BY <1>2, <1>7, <3>1 DEF Wins, Contest, Hits, Defaults, IsDefault
    <3>3. CASE i # k
      <4>1. SortsBefore(config, k, i)
        BY <1>2, <3>2, <3>3 DEF Wins
      <4>2. ~ Before(config[k].prefix, config[i].prefix) /\ Len(config[k].prefix) \in Nat
        <5>1. config[k].prefix \in Seq(Chars)
          BY <1>1, <1>7, <1>8 DEF RouteList
        <5> QED BY <3>1, <5>1, BeforeIrreflexive
      <4>3. k < i
        BY <3>1, <4>1, <4>2 DEF SortsBefore, InByteOrder
      <4> QED BY <1>7, <1>8, <3>1, <4>3
    <3>4. CASE i = k
      BY <1>7, <1>8, <3>4
    <3> QED BY <3>3, <3>4
  <2>3. same \subseteq Nat
    BY <1>7
  <2> HIDE DEF same
  <2>4. \A x \in same : (\A y \in same : x <= y) => x = k
    BY <2>1, <2>2, <2>3
  <2> QED BY <2>1, <2>2, <2>4 DEF Min
<1> DEFINE r == rs[k]
<1>11. /\ matched.action = r.action /\ matched.detectors = r.detectors
       /\ matched.failOpen = IF r.failOpen = {} THEN cfg.failOpen ELSE r.failOpen = {TRUE}
       /\ matched.strip = IF r.strip = {} THEN cfg.strip ELSE r.strip = {TRUE}
       /\ {matched.accepted} = IF r.accepted = {} THEN {cfg.accepted} ELSE r.accepted
       /\ matched.maxBytes = IF r.maxBytes = 0 THEN cfg.maxBytes ELSE r.maxBytes
  BY <1>0, <1>2, <1>8 DEF Settled
<1> DEFINE global == CASE env.maxBytes \ {0} # {} -> CHOOSE n \in env.maxBytes : TRUE
                       [] env.maxBytes = {} /\ file.maxBytes # 0 -> file.maxBytes
                       [] OTHER -> DefaultMaxBytes
<1>12. cfg.maxBytes = global
  <2>1. env.maxBytes = {} \/ \E v \in Word : env.maxBytes = {v}
    BY <1>6 DEF Optional
  <2>2. CASE env.maxBytes = {}
    BY <1>5, <2>2 DEF NonZeroOr, TheOr
  <2>3. CASE \E v \in Word : env.maxBytes = {v}
    <3>1. PICK v \in Word : env.maxBytes = {v}
      BY <2>3
    <3>2. TheOr(env.maxBytes, file.maxBytes) = v /\ (CHOOSE n \in env.maxBytes : TRUE) = v
      BY <3>1 DEF TheOr
    <3>3. env.maxBytes \ {0} # {} <=> v # 0
      BY <3>1
    <3> QED BY <1>5, <3>1, <3>2, <3>3 DEF NonZeroOr
  <2> QED BY <2>1, <2>2, <2>3
<1> HIDE DEF global
<1>13. /\ matched.action = r.action /\ matched.detectors = r.detectors
       /\ matched.failOpen = IF r.failOpen = {} THEN file.failOpen ELSE r.failOpen = {TRUE}
       /\ matched.strip = IF r.strip = {} THEN file.strip ELSE r.strip = {TRUE}
       /\ {matched.accepted} = IF r.accepted = {} THEN {file.accepted} ELSE r.accepted
       /\ matched.maxBytes = IF r.maxBytes = 0 THEN global ELSE r.maxBytes
  BY <1>5, <1>11, <1>12
<1> QED BY <1>10, <1>13 DEF SettingsFollowRoute, file, env, rs, global

-----------------------------------------------------------------------------
(* Segments.                                                                  *)
SegmentLists == Seq(Seq(Chars))
Scanned(s, n, segs) ==
  IF s[n] = Slash THEN segs
  ELSE IF n = 1 \/ s[n - 1] = Slash THEN Append(segs, <<s[n]>>)
  ELSE [segs EXCEPT ![Len(segs)] = Append(@, s[n])]

LEMMA ScannedTypes ==
  ASSUME NEW s \in Seq(Chars), NEW n \in 1 .. Len(s), NEW segs \in SegmentLists
  PROVE  Scanned(s, n, segs) \in SegmentLists
<1>1. s[n] \in Chars
  OBVIOUS
<1>2. <<s[n]>> \in Seq(Chars)
  BY <1>1
<1>3. Append(segs, <<s[n]>>) \in SegmentLists
  BY <1>2 DEF SegmentLists
<1> DEFINE k == Len(segs)
           d == [segs EXCEPT ![k] = Append(@, s[n])]
<1>4. d \in SegmentLists
  <2>1. k \in Nat /\ segs \in [1 .. k -> Seq(Chars)]
    BY DEF SegmentLists
  <2>2. k \in 1 .. k => Append(segs[k], s[n]) \in Seq(Chars)
    BY <1>1, <2>1
  <2>3. d \in [1 .. k -> Seq(Chars)]
    <3> HIDE DEF k
    <3> QED BY <2>1, <2>2
  <2> HIDE DEF k, d
  <2> QED BY <2>1, <2>3 DEF SegmentLists
<1> QED BY <1>3, <1>4 DEF Scanned

LEMMA SplitUnfolds ==
  ASSUME NEW s \in Seq(Chars)
  PROVE  /\ Split(s)[0] = <<>>
         /\ \A n \in 1 .. Len(s) : Split(s)[n] = Scanned(s, n, Split(s)[n - 1])
         /\ \A n \in 0 .. Len(s) : Split(s)[n] \in SegmentLists
<1> DEFINE N == Len(s)
           h == [x \in (1 .. N) \X SegmentLists |-> Scanned(s, x[1], x[2])]
           Eqn(f) == f = [n \in 0 .. Len(s) |->
                           IF n = 0 THEN <<>>
                           ELSE LET segs == f[n - 1] IN
                                IF s[n] = Slash THEN segs
                                ELSE IF n = 1 \/ s[n - 1] = Slash THEN Append(segs, <<s[n]>>)
                                ELSE [segs EXCEPT ![Len(segs)] = Append(@, s[n])]]
           it == CHOOSE f : Eqn(f)
           Solution(f) == f = [n \in 0 .. N |-> IF n = 0 THEN <<>> ELSE Scanned(s, n, f[n - 1])]
<1>1. N \in Nat /\ <<>> \in SegmentLists /\ Steps(h, N, SegmentLists)
  BY ScannedTypes DEF SegmentLists, Steps
<1>2. PICK f \in [0 .. N -> SegmentLists] : f[0] = <<>> /\ \A n \in 1 .. N : f[n] = h[<<n, f[n - 1]>>]
  <2> HIDE DEF h, N
  <2> QED BY <1>1, RecursionExists
<1>3. \A n \in 1 .. N : f[n - 1] \in SegmentLists /\ f[n] = Scanned(s, n, f[n - 1])
  <2> TAKE n \in 1 .. N
  <2>1. n - 1 \in 0 .. N
    BY <1>1
  <2>2. f[n - 1] \in SegmentLists
    <3> HIDE DEF N, h
    <3> QED BY <1>2, <2>1
  <2>3. h[<<n, f[n - 1]>>] = Scanned(s, n, f[n - 1])
    BY <2>2
  <2> HIDE DEF h, N
  <2> QED BY <1>2, <2>2, <2>3
<1>4. Solution(f)
  <2>1. \A n \in 0 .. N : n = 0 \/ n \in 1 .. N
    BY <1>1
  <2> HIDE DEF N, h
  <2> QED BY <1>2, <1>3, <2>1
<1>5. \A g : Solution(g) <=> Eqn(g)
  BY DEF Scanned
<1> HIDE DEF Solution
<1>6. Eqn(it)
  <2>1. Eqn(f)
    BY <1>4, <1>5
  <2> HIDE DEF Eqn
  <2> QED BY <2>1
<1>7. Split(s) = it
  BY DEF Split
<1> HIDE DEF it, Eqn
<1>8. Solution(it)
  BY <1>5, <1>6
<1>9. it[0] = <<>> /\ \A n \in 1 .. N : it[n] = Scanned(s, n, it[n - 1])
  BY <1>1, <1>8 DEF Solution
<1> DEFINE T == {n \in 0 .. N : it[n] \notin SegmentLists}
<1>10. T = {}
  <2> SUFFICES ASSUME T # {} PROVE FALSE
    OBVIOUS
  <2>1. PICK m \in T : \A k \in T : m <= k
    <3>1. T \subseteq Nat
      OBVIOUS
    <3> HIDE DEF T
    <3> QED BY <3>1, LeastNat
  <2>2. m \in 0 .. N /\ it[m] \notin SegmentLists
    BY <2>1
  <2>3. m # 0
    BY <1>1, <1>9, <2>2
  <2>4. m \in 1 .. N /\ m - 1 \in 0 .. N /\ m - 1 < m
    BY <1>1, <2>2, <2>3
  <2>5. m - 1 \notin T
    <3>1. ~ (m <= m - 1)
      BY <2>4
    <3> HIDE DEF T
    <3> QED BY <2>1, <3>1
  <2>6. it[m - 1] \in SegmentLists
    BY <2>4, <2>5
  <2> HIDE DEF T
  <2> QED BY <1>9, <2>2, <2>4, <2>6, ScannedTypes
<1>11. \A n \in 0 .. N : it[n] \in SegmentLists
  BY <1>10
<1> QED BY <1>7, <1>9, <1>11

\* One more character: the list before it and the one after.
Grown(v, w, c) ==
  /\ Len(v) >= 1 /\ Len(w) = Len(v) /\ \A k \in 1 .. Len(v) - 1 : w[k] = v[k]
  /\ w[Len(v)] = Append(v[Len(v)], c)

(* A character after a slash begins a segment, and one after another belongs  *)
(* to the same.                                                               *)
LEMMA OneStep ==
  ASSUME NEW s \in Seq(Chars), Rooted(s), NEW n \in 1 .. Len(s)
  PROVE  LET v == Split(s)[n - 1]
             w == Split(s)[n]
         IN /\ v \in SegmentLists /\ w \in SegmentLists
            /\ s[n] = Slash => w = v
            /\ s[n] # Slash => n > 1 /\ n - 1 \in 1 .. Len(s)
            /\ s[n] # Slash /\ s[n - 1] = Slash => w = Append(v, <<s[n]>>)
            /\ s[n] # Slash /\ s[n - 1] # Slash => Grown(v, w, s[n])
<1> DEFINE P(m) == Split(s)[m]
           T == {m \in 1 .. Len(s) : s[m] # Slash /\ Len(P(m)) < 1}
<1>1. /\ P(0) = <<>>
      /\ \A m \in 1 .. Len(s) : P(m) = Scanned(s, m, P(m - 1))
      /\ \A m \in 0 .. Len(s) : P(m) \in SegmentLists
  BY SplitUnfolds
<1> HIDE DEF P
<1>2. \A m \in 0 .. Len(s) : Len(P(m)) \in Nat /\ P(m) \in Seq(Seq(Chars))
  BY <1>1 DEF SegmentLists
<1>3. \A m \in 1 .. Len(s) : s[m] # Slash => m > 1 /\ m - 1 \in 1 .. Len(s)
  <2> TAKE m \in 1 .. Len(s)
  <2>1. s # <<>>
    OBVIOUS
  <2>2. s[1] = Slash
    BY <2>1 DEF Rooted
  <2> QED BY <2>2
<1>4. T = {}
  <2> SUFFICES ASSUME T # {} PROVE FALSE
    OBVIOUS
  <2>1. PICK m \in T : \A k \in T : m <= k
    <3>1. T \subseteq Nat
      OBVIOUS
    <3> HIDE DEF T
    <3> QED BY <3>1, LeastNat
  <2>2. m \in 1 .. Len(s) /\ s[m] # Slash /\ Len(P(m)) < 1
    BY <2>1
  <2>3. m - 1 \in 1 .. Len(s) /\ m - 1 < m /\ m # 1 /\ m - 1 \in 0 .. Len(s)
    BY <1>3, <2>2
  <2>4. m - 1 \notin T
    <3>1. ~ (m <= m - 1)
      BY <2>3
    <3> HIDE DEF T
    <3> QED BY <2>1, <3>1
  <2> DEFINE v == P(m - 1)
  <2>5. Len(v) \in Nat /\ v \in Seq(Seq(Chars))
    BY <1>2, <2>3
  <2>6. P(m) = Scanned(s, m, v)
    BY <1>1, <2>2
  <2>7. CASE s[m - 1] = Slash
    <3>1. P(m) = Append(v, <<s[m]>>)
      BY <2>2, <2>6, <2>7 DEF Scanned
    <3> QED BY <2>2, <2>5, <3>1
  <2>8. CASE s[m - 1] # Slash
    <3>1. P(m) = [v EXCEPT ![Len(v)] = Append(@, s[m])]
      BY <2>2, <2>3, <2>6, <2>8 DEF Scanned
    <3>2. Len(v) >= 1
      BY <2>3, <2>4, <2>5, <2>8
    <3>3. Len(P(m)) = Len(v)
      BY <2>5, <3>1
    <3> QED BY <2>2, <3>2, <3>3
  <2> QED BY <2>7, <2>8
<1> DEFINE v == P(n - 1)
           w == P(n)
<1>5. v \in Seq(Seq(Chars)) /\ w \in Seq(Seq(Chars)) /\ Len(v) \in Nat /\ n - 1 \in 0 .. Len(s)
  BY <1>2
<1>6. w = Scanned(s, n, v)
  BY <1>1
<1>7. s[n] = Slash => w = v
  BY <1>6 DEF Scanned
<1>8. s[n] # Slash => n > 1 /\ n - 1 \in 1 .. Len(s)
  BY <1>3
<1>9. s[n] # Slash /\ s[n - 1] = Slash => w = Append(v, <<s[n]>>)
  BY <1>6 DEF Scanned
<1>10. ASSUME s[n] # Slash, s[n - 1] # Slash PROVE Grown(v, w, s[n])
  <2>1. w = [v EXCEPT ![Len(v)] = Append(@, s[n])]
    BY <1>6, <1>8, <1>10 DEF Scanned
  <2>2. Len(v) >= 1
    <3>1. n - 1 \notin T
      <4> HIDE DEF T
      <4> QED BY <1>4
    <3> QED BY <1>5, <1>8, <1>10, <3>1
  <2> HIDE DEF v, w
  <2> QED BY <1>5, <2>1, <2>2 DEF Grown
<1> QED BY <1>5, <1>7, <1>8, <1>9, <1>10 DEF P, SegmentLists

\* What has begun is still there later, and complete if a slash follows.
Begun(v, w) == /\ Len(v) <= Len(w)
               /\ \A k \in 1 .. Len(v) - 1 : w[k] = v[k]
               /\ Len(v) >= 1 => /\ Len(v[Len(v)]) <= Len(w[Len(v)])
                                 /\ \A j \in 1 .. Len(v[Len(v)]) : w[Len(v)][j] = v[Len(v)][j]
Closed(v, w) == Len(v) <= Len(w) /\ \A k \in 1 .. Len(v) : w[k] = v[k]

LEMMA BegunStays ==
  ASSUME NEW s \in Seq(Chars), Rooted(s), NEW n \in 0 .. Len(s), NEW m \in n .. Len(s)
  PROVE  Begun(Split(s)[n], Split(s)[m])
<1> DEFINE P(i) == Split(s)[i]
           v == P(n)
           T == {i \in n .. Len(s) : ~ Begun(v, P(i))}
<1>1. \A i \in 0 .. Len(s) : P(i) \in Seq(Seq(Chars)) /\ Len(P(i)) \in Nat
  BY SplitUnfolds DEF SegmentLists
<1>2. \A i \in 1 .. Len(s) :
        /\ s[i] = Slash => P(i) = P(i - 1)
        /\ s[i] # Slash => \/ P(i) = Append(P(i - 1), <<s[i]>>)
                           \/ Grown(P(i - 1), P(i), s[i])
  BY OneStep
<1> HIDE DEF P
<1>3. T = {}
  <2> SUFFICES ASSUME T # {} PROVE FALSE
    OBVIOUS
  <2>1. PICK i \in T : \A k \in T : i <= k
    <3>1. T \subseteq Nat
      OBVIOUS
    <3> HIDE DEF T
    <3> QED BY <3>1, LeastNat
  <2>2. i \in n .. Len(s) /\ ~ Begun(v, P(i))
    BY <2>1
  <2>3. v \in Seq(Seq(Chars)) /\ Len(v) \in Nat
    BY <1>1
  <2>4. i # n
    <3>1. Begun(v, v)
      <4> HIDE DEF v
      <4>1. Len(v) >= 1 => v[Len(v)] \in Seq(Chars)
        BY <2>3
      <4> QED BY <2>3, <4>1 DEF Begun
    <3> QED BY <2>2, <3>1
  <2>5. i \in 1 .. Len(s) /\ i - 1 \in n .. Len(s) /\ i - 1 < i /\ i - 1 \in 0 .. Len(s)
    BY <2>2, <2>4
  <2>6. i - 1 \notin T
    <3>1. ~ (i <= i - 1)
      BY <2>5
    <3> HIDE DEF T
    <3> QED BY <2>1, <3>1
  <2> DEFINE u == P(i - 1)
             w == P(i)
  <2>7. Begun(v, u)
    BY <2>5, <2>6
  <2>8. u \in Seq(Seq(Chars)) /\ w \in Seq(Seq(Chars)) /\ Len(u) \in Nat /\ Len(w) \in Nat
    BY <1>1, <2>2, <2>5
  <2>9. s[i] \in Chars
    BY <2>5
  <2>10. \/ w = u \/ w = Append(u, <<s[i]>>) \/ Grown(u, w, s[i])
    BY <1>2, <2>5
  <2> HIDE DEF u, v, w
  <2>11. CASE w = u
    BY <2>2, <2>7, <2>11 DEF w
  <2>12. CASE w = Append(u, <<s[i]>>)
    <3>1. Len(w) = Len(u) + 1 /\ \A k \in 1 .. Len(u) : w[k] = u[k]
      BY <2>8, <2>12
    <3>2. Len(v) <= Len(w) /\ \A k \in 1 .. Len(v) : w[k] = u[k]
      BY <2>3, <2>7, <2>8, <3>1 DEF Begun
    <3>3. /\ \A k \in 1 .. Len(v) - 1 : w[k] = v[k]
          /\ Len(v) >= 1 => w[Len(v)] = u[Len(v)]
      BY <2>3, <2>7, <3>2 DEF Begun
    <3>4. Begun(v, w)
      BY <2>7, <3>2, <3>3 DEF Begun
    <3> QED BY <2>2, <3>4 DEF w
  <2>13. CASE Grown(u, w, s[i])
    <3>1. /\ Len(w) = Len(u) /\ Len(u) >= 1
          /\ \A k \in 1 .. Len(u) - 1 : w[k] = u[k]
          /\ u[Len(u)] \in Seq(Chars)
          /\ w[Len(u)] = Append(u[Len(u)], s[i])
      BY <2>8, <2>13 DEF Grown
    <3>2. /\ Len(w[Len(u)]) = Len(u[Len(u)]) + 1 /\ Len(u[Len(u)]) \in Nat
          /\ \A j \in 1 .. Len(u[Len(u)]) : w[Len(u)][j] = u[Len(u)][j]
      BY <3>1, <2>9
    <3>3. Len(v) >= 1 => v[Len(v)] \in Seq(Chars) /\ Len(v[Len(v)]) \in Nat
      BY <2>3
    <3>4. CASE Len(v) = Len(u)
      <4> DEFINE c == Len(u)
      <4>1. /\ Len(v) = c /\ c >= 1 /\ Len(w) = c
            /\ \A k \in 1 .. c - 1 : w[k] = v[k]
        BY <2>7, <3>1, <3>4 DEF Begun
      <4>2. /\ Len(v[c]) <= Len(u[c]) /\ Len(w[c]) = Len(u[c]) + 1
            /\ Len(v[c]) \in Nat /\ Len(u[c]) \in Nat
            /\ \A j \in 1 .. Len(v[c]) : u[c][j] = v[c][j]
            /\ \A j \in 1 .. Len(u[c]) : w[c][j] = u[c][j]
        BY <2>7, <3>1, <3>2, <3>3, <3>4 DEF Begun
      <4>3. Len(v[c]) <= Len(w[c]) /\ \A j \in 1 .. Len(v[c]) : w[c][j] = v[c][j]
        <5> DEFINE x == v[c]
                   y == u[c]
                   z == w[c]
        <5> HIDE DEF x, y, z, c
        <5>1. /\ Len(x) <= Len(y) /\ Len(z) = Len(y) + 1 /\ Len(x) \in Nat /\ Len(y) \in Nat
              /\ \A j \in 1 .. Len(x) : y[j] = x[j]
              /\ \A j \in 1 .. Len(y) : z[j] = y[j]
          BY <4>2 DEF x, y, z
        <5>2. Len(x) <= Len(z) /\ \A j \in 1 .. Len(x) : z[j] = x[j]
          BY <5>1
        <5> QED BY <5>2 DEF x, y, z
      <4> HIDE DEF c
      <4>4. Begun(v, w)
        BY <2>8, <4>1, <4>3 DEF Begun
      <4> QED BY <2>2, <4>4 DEF w
    <3>5. CASE Len(v) < Len(u)
      <4>1. \A k \in 1 .. Len(v) : w[k] = u[k]
        BY <2>3, <2>8, <3>1, <3>5
      <4>2. /\ \A k \in 1 .. Len(v) - 1 : w[k] = v[k]
            /\ Len(v) >= 1 => w[Len(v)] = u[Len(v)]
        <5> DEFINE c == Len(v)
        <5>1. c \in Nat /\ \A k \in 1 .. c - 1 : u[k] = v[k]
          BY <2>3, <2>7 DEF Begun
        <5>2. \A k \in 1 .. c : w[k] = u[k]
          BY <4>1
        <5> HIDE DEF c
        <5>3. /\ \A k \in 1 .. c - 1 : w[k] = v[k]
              /\ c >= 1 => w[c] = u[c]
          BY <5>1, <5>2
        <5> QED BY <5>3 DEF c
      <4>3. Begun(v, w)
        BY <2>7, <3>1, <4>2 DEF Begun
      <4> QED BY <2>2, <4>3 DEF w
    <3> QED BY <2>3, <2>7, <2>8, <3>4, <3>5 DEF Begun
  <2> QED BY <2>10, <2>11, <2>12, <2>13
<1>4. m \notin T
  <2> HIDE DEF T
  <2> QED BY <1>3
<1>5. Begun(v, P(m))
  BY <1>4
<1> QED BY <1>5 DEF P

LEMMA ClosedStays ==
  ASSUME NEW s \in Seq(Chars), Rooted(s), NEW n \in 0 .. Len(s), NEW m \in n .. Len(s),
         n = Len(s) \/ s[n + 1] = Slash
  PROVE  Closed(Split(s)[n], Split(s)[m])
<1> DEFINE P(i) == Split(s)[i]
           v == P(n)
           Ok(i) == Closed(v, P(i)) /\ (i > n /\ s[i] # Slash => Len(v) < Len(P(i)))
           T == {i \in n .. Len(s) : ~ Ok(i)}
<1>1. \A i \in 0 .. Len(s) : P(i) \in Seq(Seq(Chars)) /\ Len(P(i)) \in Nat
  BY SplitUnfolds DEF SegmentLists
<1>2. \A i \in 1 .. Len(s) :
        /\ s[i] = Slash => P(i) = P(i - 1)
        /\ s[i] # Slash /\ s[i - 1] = Slash => P(i) = Append(P(i - 1), <<s[i]>>)
        /\ s[i] # Slash /\ s[i - 1] # Slash => Grown(P(i - 1), P(i), s[i])
  BY OneStep
<1> HIDE DEF P
<1>3. T = {}
  <2> SUFFICES ASSUME T # {} PROVE FALSE
    OBVIOUS
  <2>1. PICK i \in T : \A k \in T : i <= k
    <3>1. T \subseteq Nat
      OBVIOUS
    <3> HIDE DEF T
    <3> QED BY <3>1, LeastNat
  <2>2. i \in n .. Len(s) /\ ~ Ok(i)
    BY <2>1
  <2>3. v \in Seq(Seq(Chars)) /\ Len(v) \in Nat
    BY <1>1
  <2>4. i # n
    <3>1. Closed(v, v)
      <4> HIDE DEF v
      <4> QED BY <2>3 DEF Closed
    <3> QED BY <2>2, <3>1
  <2>5. /\ i \in 1 .. Len(s) /\ i - 1 \in n .. Len(s) /\ i - 1 < i /\ i - 1 \in 0 .. Len(s)
        /\ s[n + 1] = Slash
    BY <2>2, <2>4
  <2>6. i - 1 \notin T
    <3>1. ~ (i <= i - 1)
      BY <2>5
    <3> HIDE DEF T
    <3> QED BY <2>1, <3>1
  <2> DEFINE u == P(i - 1)
             w == P(i)
  <2>7. Closed(v, u) /\ (i - 1 > n /\ s[i - 1] # Slash => Len(v) < Len(u))
    BY <2>5, <2>6
  <2>8. u \in Seq(Seq(Chars)) /\ w \in Seq(Seq(Chars)) /\ Len(u) \in Nat /\ Len(w) \in Nat
    BY <1>1, <2>2, <2>5
  <2>9. /\ s[i] = Slash => w = u
        /\ s[i] # Slash /\ s[i - 1] = Slash => w = Append(u, <<s[i]>>)
        /\ s[i] # Slash /\ s[i - 1] # Slash => Grown(u, w, s[i])
    BY <1>2, <2>5
  <2>10. ~ (Closed(v, w) /\ (s[i] # Slash => Len(v) < Len(w)))
    BY <2>2
  <2> HIDE DEF u, v, w
  <2>11. CASE s[i] = Slash
    BY <2>7, <2>9, <2>10, <2>11
  <2>12. CASE s[i] # Slash /\ s[i - 1] = Slash
    <3>1. Len(w) = Len(u) + 1 /\ \A k \in 1 .. Len(u) : w[k] = u[k]
      <4>1. w = Append(u, <<s[i]>>)
        BY <2>9, <2>12
      <4> QED BY <2>8, <4>1
    <3> QED BY <2>3, <2>7, <2>8, <2>10, <3>1 DEF Closed
  <2>13. CASE s[i] # Slash /\ s[i - 1] # Slash
    <3>1. i - 1 > n
      <4>1. i # n + 1
        BY <2>5, <2>13
      <4> QED BY <2>2, <2>4, <4>1
    <3>2. Len(v) < Len(u) /\ Len(w) = Len(u) /\ \A k \in 1 .. Len(u) - 1 : w[k] = u[k]
      BY <2>7, <2>9, <2>13, <3>1 DEF Grown
    <3> QED BY <2>3, <2>7, <2>8, <2>10, <3>2 DEF Closed
  <2> QED BY <2>11, <2>12, <2>13
<1>4. m \notin T
  <2> HIDE DEF T
  <2> QED BY <1>3
<1>5. Closed(v, P(m))
  BY <1>4
<1> QED BY <1>5 DEF P

LEMMA SplitSame ==
  ASSUME NEW s \in Seq(Chars), NEW t \in Seq(Chars), NEW d \in Nat, d <= Len(s), d <= Len(t),
         \A k \in 1 .. d : s[k] = t[k]
  PROVE  Split(s)[d] = Split(t)[d]
<1> DEFINE P(i) == Split(s)[i]
           Q(i) == Split(t)[i]
           T == {i \in 0 .. d : P(i) # Q(i)}
<1>1. /\ P(0) = Q(0)
      /\ \A i \in 1 .. Len(s) : P(i) = Scanned(s, i, P(i - 1))
      /\ \A i \in 1 .. Len(t) : Q(i) = Scanned(t, i, Q(i - 1))
  BY SplitUnfolds
<1> HIDE DEF P, Q
<1>2. T = {}
  <2> SUFFICES ASSUME T # {} PROVE FALSE
    OBVIOUS
  <2>1. PICK i \in T : \A k \in T : i <= k
    <3>1. T \subseteq Nat
      OBVIOUS
    <3> HIDE DEF T
    <3> QED BY <3>1, LeastNat
  <2>2. i \in 0 .. d /\ P(i) # Q(i)
    BY <2>1
  <2>3. i # 0
    BY <1>1, <2>2
  <2>4. /\ i \in 1 .. d /\ i \in 1 .. Len(s) /\ i \in 1 .. Len(t) /\ i - 1 \in 0 .. d /\ i - 1 < i
        /\ i # 1 => i - 1 \in 1 .. d
    BY <2>2, <2>3
  <2>5. i - 1 \notin T
    <3>1. ~ (i <= i - 1)
      BY <2>4
    <3> HIDE DEF T
    <3> QED BY <2>1, <3>1
  <2>6. P(i - 1) = Q(i - 1)
    BY <2>4, <2>5
  <2>7. s[i] = t[i] /\ (i # 1 => s[i - 1] = t[i - 1])
    BY <2>4
  <2>8. Scanned(s, i, P(i - 1)) = Scanned(t, i, Q(i - 1))
    BY <2>6, <2>7 DEF Scanned
  <2> QED BY <1>1, <2>2, <2>4, <2>8
<1>3. d \notin T
  <2> HIDE DEF T
  <2> QED BY <1>2
<1>4. P(d) = Q(d)
  BY <1>3
<1> QED BY <1>4 DEF P, Q

LEMMA PrefixMeans ==
  ASSUME NEW S, NEW a \in Seq(S), NEW b \in Seq(S)
  PROVE  IsPrefix(a, b) <=> Len(a) <= Len(b) /\ \A k \in 1 .. Len(a) : a[k] = b[k]
<1>1. SubSeq(a, 1, Len(a)) = a
  BY SubSeqFull
<1>2. ASSUME Len(a) <= Len(b), \A k \in 1 .. Len(a) : a[k] = b[k]
      PROVE  SubSeq(b, 1, Len(a)) = a
  <2> DEFINE d == SubSeq(b, 1, Len(a))
  <2>1. d \in Seq(S) /\ Len(d) = Len(a) /\ \A k \in 1 .. Len(d) : d[k] = b[k]
    BY <1>2
  <2> HIDE DEF d
  <2>2. d = a
    BY <1>2, <2>1, SeqEqual
  <2> QED BY <2>2 DEF d
<1>3. ASSUME Len(a) <= Len(b), SubSeq(b, 1, Len(a)) = a, NEW k \in 1 .. Len(a)
      PROVE  a[k] = b[k]
  <2>1. SubSeq(b, 1, Len(a))[k] = b[k]
    BY <1>3
  <2> QED BY <1>3, <2>1
<1> QED BY <1>1, <1>2, <1>3 DEF IsPrefix

LEMMA SegmentsAre ==
  ASSUME NEW s \in Seq(Chars)
  PROVE  Segments(s) = Split(s)[Len(s)] /\ Segments(s) \in SegmentLists
BY SplitUnfolds DEF Segments

(* What a character that is no slash leaves in the end.                       *)
LEMMA NextCharacter ==
  ASSUME NEW s \in Seq(Chars), Rooted(s), NEW n \in 0 .. Len(s), n < Len(s), s[n + 1] # Slash
  PROVE  LET v == Split(s)[n]
             w == Segments(s)
         IN /\ n >= 1
            /\ s[n] = Slash =>
                 /\ Len(v) + 1 <= Len(w) /\ Len(w[Len(v) + 1]) >= 1
                 /\ w[Len(v) + 1][1] = s[n + 1]
            /\ s[n] # Slash =>
                 /\ 1 <= Len(v) /\ Len(v) <= Len(w)
                 /\ Len(w[Len(v)]) >= Len(v[Len(v)]) + 1
                 /\ w[Len(v)][Len(v[Len(v)]) + 1] = s[n + 1]
<1> DEFINE v == Split(s)[n]
           u == Split(s)[n + 1]
           w == Segments(s)
           c == s[n + 1]
<1>0. n + 1 \in 1 .. Len(s) /\ n + 1 \in 0 .. Len(s) /\ (n + 1) - 1 = n /\ c \in Chars
      /\ Len(s) \in (n + 1) .. Len(s)
  OBVIOUS
<1>1. /\ v \in SegmentLists /\ u \in SegmentLists /\ n >= 1
      /\ s[n] = Slash => u = Append(v, <<c>>)
      /\ s[n] # Slash => Grown(v, u, c)
  <2> HIDE DEF c
  <2>1. n + 1 > 1 => n >= 1
    OBVIOUS
  <2> QED BY <1>0, <2>1, OneStep DEF c
<1>2. Begun(u, w)
  BY <1>0, BegunStays, SegmentsAre
<1>3. w \in SegmentLists
  BY SegmentsAre
<1> HIDE DEF u, v, w, c
<1>4. /\ v \in Seq(Seq(Chars)) /\ u \in Seq(Seq(Chars)) /\ w \in Seq(Seq(Chars))
      /\ Len(v) \in Nat /\ Len(u) \in Nat /\ Len(w) \in Nat
  BY <1>1, <1>3 DEF SegmentLists
<1>5. ASSUME s[n] = Slash
      PROVE  /\ Len(v) + 1 <= Len(w) /\ Len(w[Len(v) + 1]) >= 1
             /\ w[Len(v) + 1][1] = c
  <2>1. Len(u) = Len(v) + 1 /\ u[Len(v) + 1] = <<c>>
    <3>1. <<c>> \in Seq(Chars) /\ u = Append(v, <<c>>)
      BY <1>0, <1>1, <1>5
    <3> QED BY <1>4, <3>1
  <2>2. Len(<<c>>) = 1 /\ <<c>>[1] = c /\ 1 \in 1 .. Len(<<c>>)
    OBVIOUS
  <2>3. Len(u) >= 1 /\ Len(u) <= Len(w)
    BY <1>2, <1>4, <2>1 DEF Begun
  <2> QED BY <1>2, <2>1, <2>2, <2>3 DEF Begun
<1>6. ASSUME s[n] # Slash
      PROVE  /\ 1 <= Len(v) /\ Len(v) <= Len(w)
             /\ Len(w[Len(v)]) >= Len(v[Len(v)]) + 1
             /\ w[Len(v)][Len(v[Len(v)]) + 1] = c
  <2> DEFINE x == v[Len(v)]
             y == u[Len(v)]
             z == w[Len(v)]
  <2>1. 1 <= Len(v) /\ Len(u) = Len(v) /\ y = Append(x, c) /\ x \in Seq(Chars)
    BY <1>1, <1>4, <1>6 DEF Grown
  <2>2. Len(u) <= Len(w) /\ Len(y) <= Len(z) /\ \A j \in 1 .. Len(y) : z[j] = y[j]
    BY <1>2, <2>1 DEF Begun
  <2> HIDE DEF x, y, z
  <2>3. Len(y) = Len(x) + 1 /\ y[Len(x) + 1] = c /\ Len(x) + 1 \in 1 .. Len(y)
    BY <1>0, <2>1
  <2> QED BY <2>1, <2>2, <2>3 DEF x, y, z
<1> QED BY <1>1, <1>5, <1>6 DEF v, w, c

(* A trimmed prefix matches exactly by segments.                              *)
Tidy(s) == s \in Seq(Chars) /\ Rooted(s) /\ NoDoubledSlash(s)

LEMMA SegmentsOfNested ==
  ASSUME NEW s, Tidy(s), NEW t, Tidy(t), Len(t) <= Len(s),
         \A k \in 1 .. Len(t) : s[k] = t[k]
  PROVE  /\ Len(Segments(t)) <= Len(Segments(s))
         /\ Len(t) = Len(s) \/ s[Len(t) + 1] = Slash => IsPrefix(Segments(t), Segments(s))
<1> s \in Seq(Chars) /\ t \in Seq(Chars) /\ Rooted(s) /\ Rooted(t)
  BY DEF Tidy
<1> DEFINE n == Len(t)
<1>1. n \in 0 .. Len(s) /\ Len(s) \in n .. Len(s) /\ n \in Nat /\ n <= Len(t)
  OBVIOUS
<1>2. Split(s)[n] = Split(t)[n]
  BY <1>1, SplitSame
<1>3. Segments(t) = Split(s)[n] /\ Segments(s) = Split(s)[Len(s)]
  BY <1>2, SegmentsAre
<1>4. Len(Segments(t)) <= Len(Segments(s))
  BY <1>1, <1>3, BegunStays DEF Begun
<1>5. ASSUME n = Len(s) \/ s[n + 1] = Slash PROVE IsPrefix(Segments(t), Segments(s))
  <2>1. Closed(Segments(t), Segments(s))
    BY <1>1, <1>3, <1>5, ClosedStays
  <2>2. Segments(t) \in Seq(Seq(Chars)) /\ Segments(s) \in Seq(Seq(Chars))
    BY SegmentsAre DEF SegmentLists
  <2> QED BY <2>1, <2>2, PrefixMeans DEF Closed
<1> QED BY <1>4, <1>5

LEMMA SegmentsTell ==
  ASSUME NEW s, Tidy(s), NEW t, Tidy(t), t # <<>>, t[Len(t)] # Slash,
         IsPrefix(Segments(t), Segments(s))
  PROVE  /\ Len(t) <= Len(s) /\ \A k \in 1 .. Len(t) : s[k] = t[k]
         /\ Len(t) < Len(s) => s[Len(t) + 1] = Slash
<1> s \in Seq(Chars) /\ t \in Seq(Chars) /\ Rooted(s) /\ Rooted(t)
  BY DEF Tidy
<1> DEFINE A == Segments(t)
           B == Segments(s)
<1>1. /\ A \in Seq(Seq(Chars)) /\ B \in Seq(Seq(Chars)) /\ Len(A) \in Nat /\ Len(B) \in Nat
      /\ A = Split(t)[Len(t)] /\ B = Split(s)[Len(s)]
  BY SegmentsAre DEF SegmentLists
<1>2. Len(A) <= Len(B) /\ \A k \in 1 .. Len(A) : A[k] = B[k]
  BY <1>1, PrefixMeans
<1> HIDE DEF A, B
\* Up to d both are the same, and d is as far as that goes.
<1> DEFINE M == {d \in Nat : d <= Len(s) /\ d <= Len(t) /\ \A k \in 1 .. d : s[k] = t[k]}
           U == {d \in Nat : d + 1 \notin M}
<1>3. PICK d \in M : d + 1 \notin M
  <2>1. 0 \in M
    OBVIOUS
  <2>2. U # {}
    <3>1. Len(s) + 1 \notin M /\ Len(s) \in Nat
      OBVIOUS
    <3> QED BY <3>1
  <2>3. PICK d \in U : \A k \in U : d <= k
    <3>1. U \subseteq Nat
      OBVIOUS
    <3> HIDE DEF U
    <3> QED BY <2>2, <3>1, LeastNat
  <2>4. d \in Nat /\ d + 1 \notin M
    BY <2>3
  <2>5. CASE d = 0
    BY <2>1, <2>4, <2>5
  <2>6. CASE d # 0
    <3>1. d - 1 \in Nat /\ ~ (d <= d - 1) /\ (d - 1) + 1 = d
      BY <2>4, <2>6
    <3>2. d - 1 \notin U
      <4> HIDE DEF U
      <4> QED BY <2>3, <3>1
    <3>3. d \in M
      <4>1. (d - 1) + 1 \in M
        BY <3>1, <3>2
      <4> HIDE DEF M
      <4> QED BY <3>1, <4>1
    <3> QED BY <2>4, <3>3
  <2> QED BY <2>5, <2>6
<1>4. d \in Nat /\ d <= Len(s) /\ d <= Len(t) /\ \A k \in 1 .. d : s[k] = t[k]
  BY <1>3
<1>5. ~ (d < Len(s) /\ d < Len(t) /\ s[d + 1] = t[d + 1])
  <2> SUFFICES ASSUME d < Len(s), d < Len(t), s[d + 1] = t[d + 1] PROVE FALSE
    OBVIOUS
  <2>1. \A k \in 1 .. d + 1 : s[k] = t[k]
    BY <1>4
  <2> QED BY <1>3, <1>4, <2>1
<1> HIDE DEF M, U
<1> DEFINE v == Split(s)[d]
<1>6. v = Split(t)[d] /\ v \in Seq(Seq(Chars)) /\ Len(v) \in Nat
  <2>1. Split(s)[d] = Split(t)[d]
    BY <1>4, SplitSame
  <2>2. d \in 0 .. Len(s)
    BY <1>4
  <2> QED BY <2>1, <2>2, SplitUnfolds DEF SegmentLists
<1> HIDE DEF v
<1>7. /\ d <= Len(s) /\ (d = Len(s) \/ s[d + 1] = Slash) => Closed(v, B)
      /\ d <= Len(t) /\ (d = Len(t) \/ t[d + 1] = Slash) => Closed(v, A)
  <2>1. d \in 0 .. Len(s) /\ d \in 0 .. Len(t) /\ Len(s) \in d .. Len(s) /\ Len(t) \in d .. Len(t)
    BY <1>4
  <2> QED BY <1>1, <1>6, <2>1, ClosedStays DEF v
\* A character of s or of t behind that is found in its list of segments.
<1> DEFINE Found(w, c) == /\ d >= 1
                          /\ s[d] = Slash => /\ Len(v) + 1 <= Len(w)
                                             /\ w[Len(v) + 1][1] = c
                          /\ s[d] # Slash => /\ 1 <= Len(v) /\ Len(v) <= Len(w)
                                             /\ Len(w[Len(v)]) >= Len(v[Len(v)]) + 1
                                             /\ w[Len(v)][Len(v[Len(v)]) + 1] = c
<1>8. d < Len(s) /\ s[d + 1] # Slash => Found(B, s[d + 1])
  <2>1. d \in 0 .. Len(s)
    BY <1>4
  <2> QED BY <2>1, NextCharacter DEF v, B
<1>9. d < Len(t) /\ t[d + 1] # Slash => Found(A, t[d + 1])
  <2>1. d \in 0 .. Len(t) /\ (d >= 1 => s[d] = t[d])
    BY <1>4
  <2> QED BY <1>6, <2>1, NextCharacter DEF A
<1>10. ASSUME s[d] # Slash PROVE \A c : ~ (Closed(v, B) /\ Found(A, c)) /\ ~ (Closed(v, A) /\ Found(B, c))
  <2>1. ASSUME NEW c, Closed(v, B), Found(A, c) PROVE FALSE
    <3>1. 1 <= Len(v) /\ Len(v) <= Len(A) /\ Len(A[Len(v)]) >= Len(v[Len(v)]) + 1
      BY <1>10, <2>1
    <3> DEFINE l == Len(v)
    <3>2. l \in 1 .. l /\ l \in 1 .. Len(A) /\ v[l] \in Seq(Chars)
      <4>1. l \in Nat /\ 1 <= l /\ l <= Len(A)
        BY <1>6, <2>1, <3>1 DEF Closed
      <4> QED BY <1>6, <1>1, <4>1
    <3>3. A[l] = v[l]
      <4>1. v[l] = B[l]
        BY <2>1, <3>2 DEF Closed
      <4> HIDE DEF l
      <4> QED BY <1>2, <3>2, <4>1
    <3> QED BY <3>1, <3>2, <3>3
  <2>2. ASSUME NEW c, Closed(v, A), Found(B, c) PROVE FALSE
    <3>1. 1 <= Len(v) /\ Len(B[Len(v)]) >= Len(v[Len(v)]) + 1
      BY <1>10, <2>2
    <3> DEFINE l == Len(v)
    <3>2. l \in 1 .. l /\ l \in 1 .. Len(A) /\ v[l] \in Seq(Chars)
      <4>1. l \in Nat /\ 1 <= l /\ l <= Len(A)
        BY <1>6, <2>2, <3>1 DEF Closed
      <4> QED BY <1>6, <1>1, <4>1
    <3>3. B[l] = v[l]
      <4>1. v[l] = A[l]
        BY <2>2, <3>2 DEF Closed
      <4> HIDE DEF l
      <4> QED BY <1>2, <3>2, <4>1
    <3> QED BY <3>1, <3>2, <3>3
  <2> QED BY <2>1, <2>2
<1>11. ASSUME NEW a, NEW b, Found(A, a), Found(B, b) PROVE a = b
  <2> DEFINE l == Len(v)
             i == Len(v[Len(v)]) + 1
  <2>1. CASE s[d] = Slash
    <3>1. A[l + 1][1] = a /\ B[l + 1][1] = b /\ l + 1 <= Len(A)
      BY <1>11, <2>1
    <3>2. l + 1 \in 1 .. Len(A)
      BY <1>1, <1>6, <3>1
    <3>3. A[l + 1] = B[l + 1]
      BY <1>2, <3>2
    <3> QED BY <3>1, <3>3
  <2>2. CASE s[d] # Slash
    <3>1. A[l][i] = a /\ B[l][i] = b /\ 1 <= l /\ l <= Len(A)
      BY <1>11, <2>2
    <3>2. l \in 1 .. Len(A)
      BY <1>1, <1>6, <3>1
    <3>3. A[l] = B[l]
      BY <1>2, <3>2
    <3> QED BY <3>1, <3>3
  <2> QED BY <2>1, <2>2
<1>12. /\ Found(A, t[d + 1]) \/ Found(B, s[d + 1]) => d >= 1
       /\ d >= 1 => s[d] = t[d]
       /\ d >= 1 /\ d < Len(t) => ~ (t[d] = Slash /\ t[d + 1] = Slash)
       /\ d >= 1 /\ d < Len(s) => ~ (s[d] = Slash /\ s[d + 1] = Slash)
  <2>1. d >= 1 => d \in 1 .. d
    BY <1>4
  <2>2. d >= 1 /\ d < Len(t) => d \in 1 .. Len(t) - 1
    BY <1>4
  <2>3. d >= 1 /\ d < Len(s) => d \in 1 .. Len(s) - 1
    BY <1>4
  <2> QED BY <1>4, <2>1, <2>2, <2>3 DEF Tidy, NoDoubledSlash
<1>13. s[d + 1] = Slash \/ Found(B, s[d + 1]) \/ d = Len(s)
  BY <1>4, <1>8
<1>14. t[d + 1] = Slash \/ Found(A, t[d + 1]) \/ d = Len(t)
  BY <1>4, <1>9
<1>15. d = Len(s) => d = Len(t)
  <2> SUFFICES ASSUME d = Len(s), d # Len(t) PROVE FALSE
    OBVIOUS
  <2>1. B = v /\ Closed(v, B) /\ d < Len(t)
    BY <1>1, <1>4, <1>7 DEF v
  <2>2. CASE Found(A, t[d + 1])
    <3>1. CASE s[d] = Slash
      BY <1>1, <1>2, <1>6, <2>1, <2>2, <3>1
    <3>2. CASE s[d] # Slash
      <4> HIDE DEF Found
      <4> QED BY <1>10, <2>1, <2>2, <3>2
    <3> QED BY <3>1, <3>2
  <2>3. CASE t[d + 1] = Slash
    <3> DEFINE n == d + 1
    <3>1. n \in 1 .. Len(t) /\ n # Len(t) /\ n \in 0 .. Len(t) /\ n < Len(t) /\ n - 1 = d
      <4>1. d + 1 # Len(t)
        BY <2>3
      <4> QED BY <1>4, <2>1, <4>1
    <3>2. Split(t)[n] = v
      BY <1>6, <2>3, <3>1, OneStep
    <3>3. t[n + 1] # Slash
      <4>1. n \in 1 .. Len(t) - 1
        BY <3>1
      <4> HIDE DEF n
      <4> QED BY <2>3, <4>1 DEF Tidy, NoDoubledSlash, n
    <3>4. Len(v) + 1 <= Len(A)
      <4>1. t[n] = Slash
        BY <2>3
      <4> HIDE DEF n
      <4> QED BY <3>1, <3>2, <3>3, <4>1, NextCharacter DEF A
    <3> QED BY <1>1, <1>2, <1>6, <2>1, <3>4
  <2> HIDE DEF Found
  <2> QED BY <1>14, <2>2, <2>3
<1> HIDE DEF Found
<1>16. d = Len(t)
  <2> SUFFICES ASSUME d # Len(t) PROVE FALSE
    OBVIOUS
  <2>1. d < Len(t) /\ d < Len(s) /\ s[d + 1] # t[d + 1]
    BY <1>4, <1>5, <1>15
  <2>2. CASE Found(A, t[d + 1]) /\ Found(B, s[d + 1])
    BY <1>11, <2>1, <2>2
  <2>3. CASE Found(A, t[d + 1]) /\ s[d + 1] = Slash
    BY <1>7, <1>10, <1>12, <2>1, <2>3, <1>4
  <2>4. CASE t[d + 1] = Slash /\ Found(B, s[d + 1])
    BY <1>7, <1>10, <1>12, <2>1, <2>4, <1>4
  <2> QED BY <1>13, <1>14, <2>1, <2>2, <2>3, <2>4
<1>17. d < Len(s) => s[d + 1] = Slash
  <2> SUFFICES ASSUME d < Len(s), s[d + 1] # Slash PROVE FALSE
    OBVIOUS
  <2>1. Found(B, s[d + 1]) /\ Closed(v, A) /\ d >= 1 /\ s[d] # Slash
    BY <1>4, <1>7, <1>12, <1>13, <1>16
  <2> QED BY <1>10, <2>1
<1> QED BY <1>4, <1>16, <1>17

-----------------------------------------------------------------------------
(* Trimming.                                                                  *)

\* t is p, or p without the slash it ends with.
Cut(p, t) == /\ t \in Seq(Chars) /\ Len(t) <= Len(p) /\ Len(p) <= Len(t) + 1
             /\ \A k \in 1 .. Len(t) : t[k] = p[k]
             /\ Len(t) < Len(p) => p[Len(p)] = Slash
             /\ t # <<>> => t[Len(t)] # Slash

LEMMA TrimCuts ==
  ASSUME NEW p \in Seq(Chars), NoDoubledSlash(p)
  PROVE  Cut(p, TrimRight(p))
<1> DEFINE n == Len(p)
           M == {0} \union {i \in DOMAIN p : p[i] # Slash}
           m == Max(M)
           t == SubSeq(p, 1, m)
<1>1. n \in Nat /\ DOMAIN p = 1 .. n
  OBVIOUS
<1>2. \E x \in M : n <= x + 1 /\ (x < n => p[n] = Slash) /\ \A y \in M : x >= y
  <2>1. CASE n = 0
    BY <1>1, <2>1
  <2>2. CASE n # 0 /\ p[n] # Slash
    <3>1. n \in M /\ \A y \in M : n >= y
      BY <1>1, <2>2
    <3> QED BY <1>1, <3>1
  <2>3. CASE n # 0 /\ p[n] = Slash
    <3>1. \A y \in M : n - 1 >= y
      BY <1>1, <2>3
    <3>2. n - 1 \in M
      <4>1. CASE n = 1
        BY <4>1
      <4>2. CASE n # 1
        <5>1. n - 1 \in 1 .. n - 1 /\ (n - 1) + 1 = n /\ n - 1 \in 1 .. n
          BY <1>1, <2>3, <4>2
        <5>2. p[n - 1] # Slash
          BY <2>3, <5>1 DEF NoDoubledSlash
        <5> QED BY <1>1, <5>1, <5>2
      <4> QED BY <4>1, <4>2
    <3> HIDE DEF M
    <3> QED BY <1>1, <2>3, <3>1, <3>2
  <2> QED BY <2>1, <2>2, <2>3
<1>3. M \subseteq 0 .. n
  BY <1>1
<1>4. m \in M /\ n <= m + 1 /\ (m < n => p[n] = Slash)
  <2> HIDE DEF M
  <2>1. PICK x \in M : n <= x + 1 /\ (x < n => p[n] = Slash) /\ \A y \in M : x >= y
    BY <1>2
  <2>2. \A z \in M : (\A y \in M : z >= y) => z = x
    BY <1>3, <2>1
  <2> QED BY <2>1, <2>2 DEF Max
<1>5. m \in 0 .. n /\ (m # 0 => p[m] # Slash)
  BY <1>3, <1>4
<1> HIDE DEF M, m
<1>6. t \in Seq(Chars) /\ Len(t) = m /\ \A k \in 1 .. m : t[k] = p[k]
  BY <1>1, <1>5
<1>7. TrimRight(p) = t
  BY DEF TrimRight, t, m, M
<1> HIDE DEF t
<1>8. t # <<>> => m # 0 /\ m \in 1 .. m
  BY <1>5, <1>6
<1> QED BY <1>1, <1>4, <1>5, <1>6, <1>7, <1>8 DEF Cut

LEMMA CutIsTidy ==
  ASSUME NEW p \in Seq(Chars), NoDoubledSlash(p), NEW t, Cut(p, t), Rooted(p)
  PROVE  Tidy(t) /\ Segments(p) = Segments(t)
<1>1. t \in Seq(Chars) /\ Len(t) \in Nat /\ Len(p) \in Nat
  BY DEF Cut
<1>2. Rooted(t)
  BY <1>1 DEF Cut, Rooted
<1>3. NoDoubledSlash(t)
  <2> SUFFICES ASSUME NEW k \in 1 .. Len(t) - 1, t[k] = Slash, t[k + 1] = Slash PROVE FALSE
    BY DEF NoDoubledSlash
  <2>1. k \in 1 .. Len(t) /\ k + 1 \in 1 .. Len(t) /\ k \in 1 .. Len(p) - 1
    BY <1>1 DEF Cut
  <2> QED BY <2>1 DEF Cut, NoDoubledSlash
<1>4. Split(p)[Len(t)] = Split(t)[Len(t)]
  BY <1>1, SplitSame DEF Cut
<1>5. Split(p)[Len(p)] = Split(p)[Len(t)]
  <2>1. CASE Len(t) = Len(p)
    BY <2>1
  <2>2. CASE Len(t) < Len(p)
    <3>1. Len(p) \in 1 .. Len(p) /\ Len(p) - 1 = Len(t) /\ p[Len(p)] = Slash
      BY <1>1, <2>2 DEF Cut
    <3> QED BY <3>1, OneStep
  <2> QED BY <1>1, <2>1, <2>2 DEF Cut
<1> QED BY <1>1, <1>2, <1>3, <1>4, <1>5, SegmentsAre DEF Tidy

\* The path pth is t or goes on with a slash behind it.
Leads(t, pth) == /\ Len(t) <= Len(pth) /\ \A k \in 1 .. Len(t) : pth[k] = t[k]
                 /\ Len(t) < Len(pth) => pth[Len(t) + 1] = Slash

LEMMA MatchLeads ==
  ASSUME NEW p, NEW t \in Seq(Chars), TrimRight(p) = t, t # <<>>, NEW pth \in Seq(Chars)
  PROVE  MatchPathPrefix(pth, p) <=> Leads(t, pth)
<1> DEFINE u == Append(t, Slash)
<1>1. MatchPathPrefix(pth, p) <=> pth = t \/ IsPrefix(u, pth)
  BY DEF MatchPathPrefix
<1>2. Slash \in Chars
  BY DEF Slash, Chars
<1>3. /\ u \in Seq(Chars) /\ Len(u) = Len(t) + 1 /\ u[Len(t) + 1] = Slash
      /\ \A k \in 1 .. Len(t) : u[k] = t[k]
      /\ \A k \in 1 .. Len(t) + 1 : k \in 1 .. Len(t) \/ k = Len(t) + 1
      /\ Len(t) \in Nat /\ Len(pth) \in Nat
  BY <1>2
<1> HIDE DEF u
<1>4. IsPrefix(u, pth) <=> Len(u) <= Len(pth) /\ \A k \in 1 .. Len(u) : u[k] = pth[k]
  <2>1. u \in Seq(Chars)
    BY <1>3
  <2> DEFINE Same(a, b) == Len(a) <= Len(b) /\ \A k \in 1 .. Len(a) : a[k] = b[k]
  <2>2. \A a, b \in Seq(Chars) : IsPrefix(a, b) <=> Same(a, b)
    BY PrefixMeans
  <2>3. IsPrefix(u, pth) <=> Same(u, pth)
    <3> HIDE DEF Same
    <3> QED BY <2>1, <2>2
  <2> QED BY <2>3
<1>5. pth = t => Leads(t, pth)
  BY DEF Leads
<1>6. IsPrefix(u, pth) => Leads(t, pth)
  <2> SUFFICES ASSUME IsPrefix(u, pth) PROVE Leads(t, pth)
    OBVIOUS
  <2>1. /\ \A k \in 1 .. Len(t) : k \in 1 .. Len(u)
        /\ Len(t) + 1 \in 1 .. Len(u)
    BY <1>3
  <2> QED BY <1>3, <1>4, <2>1 DEF Leads
<1>7. ASSUME Leads(t, pth), pth # t PROVE IsPrefix(u, pth)
  <2>1. Len(t) # Len(pth)
    BY <1>7, SeqEqual DEF Leads
  <2> QED BY <1>3, <1>4, <1>7, <2>1 DEF Leads
<1> QED BY <1>1, <1>5, <1>6, <1>7

LEMMA DefaultSegments ==
  ASSUME NEW p \in Seq(Chars), p = <<>> \/ p = <<Slash>>
  PROVE  Rooted(p) /\ Segments(p) = <<>>
<1>1. Rooted(p)
  BY DEF Rooted
<1>2. CASE p = <<>>
  <2>1. Len(p) = 0
    BY <1>2
  <2>2. Segments(p) = Split(p)[Len(p)] /\ Split(p)[0] = <<>>
    BY SegmentsAre, SplitUnfolds
  <2> QED BY <1>1, <2>1, <2>2
<1>3. CASE p = <<Slash>>
  <2>1. Len(p) = 1 /\ 1 \in 1 .. Len(p) /\ p[1] = Slash /\ 1 - 1 = 0
    BY <1>3
  <2>2. Split(p)[1] = Split(p)[0]
    BY <1>1, <2>1, OneStep
  <2>3. Segments(p) = Split(p)[Len(p)] /\ Split(p)[0] = <<>>
    BY SegmentsAre, SplitUnfolds
  <2> QED BY <1>1, <2>1, <2>2, <2>3
<1> QED BY <1>2, <1>3

\* p is the prefix of a route that is not the default, and t what is left of it.
Kept(p, t) == /\ p \in Seq(Chars) /\ NoDoubledSlash(p) /\ p # <<>> /\ p # <<Slash>>
              /\ t = TrimRight(p)

LEMMA KeptLeads ==
  ASSUME NEW p, NEW t, Kept(p, t), NEW pth, Tidy(pth)
  PROVE  /\ Cut(p, t) /\ t # <<>>
         /\ MatchPathPrefix(pth, p) <=> Leads(t, pth)
         /\ MatchPathPrefix(pth, p) => Rooted(p)
<1>1. Cut(p, t) /\ p \in Seq(Chars) /\ t \in Seq(Chars) /\ pth \in Seq(Chars) /\ Rooted(pth)
  BY TrimCuts DEF Kept, Cut, Tidy
<1>2. t # <<>>
  <2> SUFFICES ASSUME t = <<>> PROVE FALSE
    OBVIOUS
  <2>1. Len(p) = 0 \/ (Len(p) = 1 /\ p[Len(p)] = Slash)
    <3>1. Len(t) = 0
      BY <1>1
    <3>2. Len(p) \in Nat /\ Len(p) <= 1 /\ (0 < Len(p) => p[Len(p)] = Slash)
      <4> HIDE DEF Kept
      <4> QED BY <1>1, <3>1 DEF Cut
    <3> QED BY <3>2
  <2>2. CASE Len(p) = 0
    BY <1>1, <2>2 DEF Kept
  <2>3. CASE Len(p) = 1 /\ p[1] = Slash
    <3> DEFINE q == <<Slash>>
    <3>1. q \in Seq(Chars) /\ Len(q) = 1 /\ q[1] = Slash
      BY DEF Slash, Chars
    <3>2. \A k \in 1 .. Len(p) : p[k] = q[k]
      BY <2>3, <3>1
    <3> HIDE DEF q
    <3>3. p = q
      BY <1>1, <2>3, <3>1, <3>2, SeqEqual
    <3> QED BY <3>3 DEF Kept, q
  <2> QED BY <2>1, <2>2, <2>3
<1>3. MatchPathPrefix(pth, p) <=> Leads(t, pth)
  BY <1>1, <1>2, MatchLeads DEF Kept
<1>4. Leads(t, pth) => Rooted(p)
  <2> SUFFICES ASSUME Leads(t, pth) PROVE Rooted(p)
    OBVIOUS
  <2>1. 1 \in 1 .. Len(t) /\ Len(pth) >= 1
    BY <1>1, <1>2 DEF Leads
  <2>2. p[1] = pth[1] /\ pth # <<>>
    BY <1>1, <2>1 DEF Leads, Cut
  <2> QED BY <1>1, <2>2 DEF Rooted
<1> QED BY <1>1, <1>2, <1>3, <1>4

(* Matching is by segments.                                                   *)
LEMMA MatchBySegments ==
  ASSUME NEW p, NEW t, Kept(p, t), NEW pth, Tidy(pth)
  PROVE  MatchPathPrefix(pth, p) <=> Rooted(p) /\ IsPrefix(Segments(p), Segments(pth))
<1>1. /\ Cut(p, t) /\ t # <<>> /\ p \in Seq(Chars) /\ NoDoubledSlash(p)
      /\ MatchPathPrefix(pth, p) <=> Leads(t, pth)
      /\ MatchPathPrefix(pth, p) => Rooted(p)
  BY KeptLeads DEF Kept
<1>2. ASSUME Rooted(p) PROVE Leads(t, pth) <=> IsPrefix(Segments(p), Segments(pth))
  <2>1. Tidy(t) /\ Segments(p) = Segments(t)
    BY <1>1, <1>2, CutIsTidy
  <2>2. Leads(t, pth) => IsPrefix(Segments(t), Segments(pth))
    <3>1. Len(t) \in Nat /\ Len(pth) \in Nat
      BY <2>1 DEF Tidy
    <3> QED BY <2>1, <3>1, SegmentsOfNested DEF Leads
  <2>3. IsPrefix(Segments(t), Segments(pth)) => Leads(t, pth)
    <3>1. t[Len(t)] # Slash
      BY <1>1 DEF Cut
    <3> QED BY <1>1, <2>1, <3>1, SegmentsTell DEF Leads
  <2> QED BY <2>1, <2>2, <2>3
<1> QED BY <1>1, <1>2

(* Of two that match, the one that is not shorter has no fewer segments.      *)
LEMMA LongerHasMore ==
  ASSUME NEW p, NEW t, Kept(p, t), NEW q, NEW u, Kept(q, u), NEW pth, Tidy(pth),
         MatchPathPrefix(pth, p), MatchPathPrefix(pth, q), Len(p) >= Len(q)
  PROVE  Len(Segments(q)) <= Len(Segments(p))
<1>1. /\ Cut(p, t) /\ Leads(t, pth) /\ Rooted(p) /\ p \in Seq(Chars) /\ NoDoubledSlash(p)
      /\ Cut(q, u) /\ Leads(u, pth) /\ Rooted(q) /\ q \in Seq(Chars) /\ NoDoubledSlash(q)
      /\ u # <<>>
  BY KeptLeads DEF Kept
<1>2. Tidy(t) /\ Tidy(u) /\ Segments(p) = Segments(t) /\ Segments(q) = Segments(u)
  BY <1>1, CutIsTidy
<1>3. /\ Len(t) \in Nat /\ Len(u) \in Nat /\ Len(p) \in Nat /\ Len(q) \in Nat
      /\ Len(pth) \in Nat
  BY <1>1, <1>2 DEF Tidy
<1>4. Len(u) <= Len(t)
  <2> SUFFICES ASSUME Len(u) > Len(t) PROVE FALSE
    BY <1>3
  <2>1. Len(u) = Len(t) + 1
    BY <1>1, <1>3 DEF Cut
  <2>2. Len(t) < Len(pth) /\ Len(u) \in 1 .. Len(u)
    BY <1>1, <1>3, <2>1 DEF Leads
  <2>3. pth[Len(u)] = Slash /\ pth[Len(u)] = u[Len(u)]
    BY <1>1, <2>1, <2>2 DEF Leads
  <2> QED BY <1>1, <2>3 DEF Cut
<1>5. \A k \in 1 .. Len(u) : t[k] = u[k]
  <2> TAKE k \in 1 .. Len(u)
  <2>1. k \in 1 .. Len(t)
    BY <1>3, <1>4
  <2> QED BY <1>1, <2>1 DEF Leads
<1> QED BY <1>2, <1>4, <1>5, SegmentsOfNested

LEMMA RInvLongest == RInv => TidyLongestSegmentWins
<1> SUFFICES ASSUME RInv, loaded, path # NoPath, \A r \in Range(config) : NoDoubledSlash(r.prefix)
             PROVE  LongestSegmentPrefix
  BY DEF TidyLongestSegmentWins
<1> DEFINE P(k) == config[k].prefix
           T(k) == TrimRight(P(k))
           D == Defaults(config)
<1>1. /\ RouteList(config) /\ Tidy(path)
      /\ matched = FirstMatch(RoutesOf(config), DefaultOf(config), path)
  BY LoadedList, PathsAssumption DEF RInv, Tidy
<1>2. \A k \in DOMAIN config : P(k) \in Seq(Chars) /\ NoDoubledSlash(P(k)) /\ Len(P(k)) \in Nat
  BY <1>1 DEF RouteList, Range
<1>3. \A k \in DOMAIN config \ D : Kept(P(k), T(k))
  BY <1>2 DEF Kept, Defaults, IsDefault
<1>4. \A k \in D : k \in DOMAIN config /\ Rooted(P(k)) /\ Segments(P(k)) = <<>>
  <2> TAKE k \in D
  <2>1. k \in DOMAIN config /\ (P(k) = <<>> \/ P(k) = <<Slash>>)
    BY DEF Defaults, IsDefault
  <2> QED BY <1>2, <2>1, DefaultSegments
<1>5. Segments(path) \in Seq(Seq(Chars))
  BY <1>1, SegmentsAre DEF Tidy, SegmentLists
<1>6. IsPrefix(<<>>, Segments(path))
  <2> DEFINE e == <<>>
  <2>1. e \in Seq(Seq(Chars)) /\ Len(e) = 0 /\ Len(Segments(path)) \in Nat
    BY <1>5
  <2> HIDE DEF e
  <2>2. Len(e) <= Len(Segments(path)) /\ \A k \in 1 .. Len(e) : e[k] = Segments(path)[k]
    BY <2>1
  <2>3. IsPrefix(e, Segments(path))
    <3> DEFINE b == Segments(path)
    <3> HIDE DEF b
    <3>1. b \in Seq(Seq(Chars)) /\ Len(e) <= Len(b) /\ \A k \in 1 .. Len(e) : e[k] = b[k]
      BY <1>5, <2>2 DEF b
    <3> QED BY <2>1, <3>1, PrefixMeans DEF b
  <2> QED BY <2>3 DEF e
<1>7. \A k \in DOMAIN config :
        config[k] \in Candidates <=> Rooted(P(k)) /\ IsPrefix(Segments(P(k)), Segments(path))
  BY DEF Candidates, Range
<1>8. \A k \in DOMAIN config : config[k] \in Candidates <=> k \in Hits(config, path) \/ k \in D
  <2> TAKE k \in DOMAIN config
  <2>1. CASE k \in D
    BY <1>4, <1>6, <1>7, <2>1
  <2>2. CASE k \notin D
    <3>1. MatchPathPrefix(path, P(k)) <=> Rooted(P(k)) /\ IsPrefix(Segments(P(k)), Segments(path))
      BY <1>1, <1>3, <2>2, MatchBySegments
    <3> QED BY <1>7, <2>2, <3>1 DEF Hits
  <2> QED BY <2>1, <2>2
<1>9. \A r \in Candidates : \E k \in DOMAIN config : r = config[k]
  BY DEF Candidates, Range
<1>10. /\ \A k \in Hits(config, path) : k \in DOMAIN config \ D /\ MatchPathPrefix(path, P(k))
       /\ \A k \in DOMAIN config : config[k] # NoRoute
  BY <1>2, NoPathIsNone DEF Hits, NoRoute
<1> HIDE DEF P, T, D
<1>11. CASE Contest(config, path) = {} /\ matched = NoRoute
  <2>1. Hits(config, path) = {} /\ D = {}
    BY <1>11 DEF Contest, D
  <2> QED BY <1>8, <1>9, <1>11, <2>1 DEF LongestSegmentPrefix
<1>12. ASSUME NEW k, Wins(config, Contest(config, path), k), matched = config[k]
       PROVE  LongestSegmentPrefix
  <2>1. k \in Contest(config, path) /\ k \in DOMAIN config /\ (k \in Hits(config, path) \/ k \in D)
    BY <1>4, <1>10, <1>12 DEF Wins, Contest, D
  <2>2. matched \in Candidates /\ matched # NoRoute
    BY <1>8, <1>10, <1>12, <2>1
  <2>3. ASSUME NEW r \in Candidates
        PROVE  Len(Segments(r.prefix)) <= Len(Segments(matched.prefix))
    <3>1. PICK j \in DOMAIN config : r = config[j]
      BY <1>9
    <3>2. j \in Hits(config, path) \/ j \in D
      BY <1>8, <3>1
    <3>3. Len(Segments(P(k))) \in Nat
      BY <1>2, <2>1, SegmentsAre DEF SegmentLists
    <3>4. CASE j \in D
      <4>1. Len(Segments(P(j))) = 0
        BY <1>4, <3>4
      <4> QED BY <1>12, <3>1, <3>3, <4>1 DEF P
    <3>5. CASE j \in Hits(config, path)
      <4>1. k \in Hits(config, path) /\ j \in Contest(config, path)
        BY <2>1, <3>5 DEF Contest
      <4>2. j = k \/ SortsBefore(config, k, j)
        BY <1>12, <4>1 DEF Wins
      <4>3. Len(P(k)) >= Len(P(j))
        <5>1. Len(P(k)) \in Nat /\ Len(P(j)) \in Nat
          BY <1>2, <2>1, <3>1
        <5> QED BY <4>2, <5>1 DEF SortsBefore, P
      <4>4. Kept(P(k), T(k)) /\ Kept(P(j), T(j))
        BY <1>3, <1>10, <3>5, <4>1
      <4>5. Len(Segments(P(j))) <= Len(Segments(P(k)))
        BY <1>1, <1>10, <3>5, <4>1, <4>3, <4>4, LongerHasMore
      <4> QED BY <1>12, <3>1, <4>5 DEF P
    <3> QED BY <3>2, <3>4, <3>5
  <2> QED BY <2>2, <2>3 DEF LongestSegmentPrefix
<1> QED BY <1>1, <1>11, <1>12, MatchWins

-----------------------------------------------------------------------------
(* The order of the routes in the configuration does not matter: New sorts    *)
(* them, and no two different prefixes compare alike.                         *)
THEOREM ConfigOrderIndependent == Spec => []OrderIndependent
BY InitRInv, NextRInv, RInvOrder, PTL DEF Spec

(* A request is handled under the settings written for its route.             *)
THEOREM ConfigSettingsFollowRoute == Spec => []SettingsFollowRoute
BY InitRInv, NextRInv, RInvSettings, PTL DEF Spec

(* Sorted by raw length and matched after trimming, the first route to match  *)
(* is the longest segment prefix of the path.                                 *)
THEOREM ConfigLongestSegmentWins == Spec => []TidyLongestSegmentWins
BY InitRInv, NextRInv, RInvLongest, PTL DEF Spec
=============================================================================
