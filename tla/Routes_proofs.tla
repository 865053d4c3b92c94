---------------------------- MODULE Routes_proofs ----------------------------
(***************************************************************************)
(* The shares of the live servers, the results reported and the retries of *)
(* the dead servers, for any number of servers and callers, on Prompt.     *)
(*                                                                         *)
(* The shares and the results follow from DataInv, the invariant of the    *)
(* two copies, the table the agent computes and what the callers hold; the *)
(* retries from IInv, the invariant of their counter, and the shares.      *)
(* The folds of the library are recursive functions: Climb and FoldExists  *)
(* replace induction by a set of numbers that grows up to a bound.         *)
(***************************************************************************)
EXTENDS Routes, FiniteSetTheorems, SequenceTheorems, WellFoundedInduction, TLAPS

-----------------------------------------------------------------------------
(* Induction up to a bound, and the folds of the library.                  *)

\* Induction up to n, with a set of numbers in the place of a predicate.
LEMMA Climb ==
  ASSUME NEW n \in Nat, NEW T, 0 \in T, \A k \in 0..n - 1 : k \in T => k + 1 \in T
  PROVE  \A k \in 0..n : k \in T
<1> DEFINE Bad == {k \in 0..n : k \notin T}
<1> SUFFICES ASSUME Bad # {} PROVE FALSE
  OBVIOUS
<1>1. Bad \subseteq Nat
  OBVIOUS
<1>2. PICK i \in Bad : \A j \in Bad : ~(<<j, i>> \in OpToRel(<, Nat))
  BY <1>1, WFMin, NatLessThanWellFounded
<1>3. \A j \in Bad : ~(j < i)
  BY <1>1, <1>2 DEF OpToRel
<1>4. i \in 0..n /\ i # 0
  OBVIOUS
<1>5. i - 1 \in 0..n - 1 /\ i - 1 \notin Bad /\ i - 1 + 1 = i
  BY <1>3, <1>4
<1> QED
  BY <1>4, <1>5

\* The largest of a set of numbers that holds its bound.
LEMMA MaxOf ==
  ASSUME NEW n \in Nat, NEW s, s \subseteq 1..n + 1, n + 1 \in s
  PROVE  Max(s) = n + 1
<1>1. \A y \in s : n + 1 >= y
  OBVIOUS
<1>2. \A x \in s : (\A y \in s : x >= y) => x = n + 1
  OBVIOUS
<1> QED
  BY <1>1, <1>2 DEF Max

\* A set of numbers with a bound has a largest one.
LEMMA MaxIn ==
  ASSUME NEW n \in Nat, NEW s, s \subseteq 1..n, s # {}
  PROVE  Max(s) \in s
<1> DEFINE T == {k \in 0..n : \A u \in SUBSET (1..k) : u # {} => Max(u) \in u}
<1>1. 0 \in T
  <2>1. 0 \in 0..n
    OBVIOUS
  <2>2. \A u \in SUBSET (1..0) : u # {} => Max(u) \in u
    <3>1. \A u \in SUBSET (1..0) : u = {}
      OBVIOUS
    <3> QED
      BY <3>1
  <2> QED
    BY <2>1, <2>2
<1>2. ASSUME NEW k \in 0..n - 1, k \in T PROVE k + 1 \in T
  <2>0. k \in Nat /\ k + 1 \in 0..n
    OBVIOUS
  <2> SUFFICES ASSUME NEW u \in SUBSET (1..k + 1), u # {} PROVE Max(u) \in u
    BY <2>0
  <2>1. CASE k + 1 \in u
    <3> HIDE DEF T
    <3> QED
      BY <2>0, <2>1, MaxOf
  <2>2. CASE k + 1 \notin u
    <3>1. u \in SUBSET (1..k)
      BY <2>2
    <3> QED
      BY <1>2, <3>1
  <2> QED
    BY <2>1, <2>2
<1> HIDE DEF T
<1>3. n \in T
  BY <1>1, <1>2, Climb
<1> QED
  BY <1>3 DEF T

\* The folds of the library work on subsets of the indices, the last index first.
Folds(it, n, base, g) ==
  it = [s \in SUBSET (1..n) |->
          IF s = {} THEN base ELSE g[<<it[s \ {Max(s)}], Max(s)>>]]

\* The recursive function of a fold exists, and stays in the set its steps stay in.
LEMMA FoldExists ==
  ASSUME NEW n \in Nat, NEW St, NEW base \in St, NEW g \in [St \X (1..n) -> St]
  PROVE  \E it \in [SUBSET (1..n) -> St] : Folds(it, n, base, g)
<1> DEFINE T == {k \in 0..n : \E it \in [SUBSET (1..k) -> St] : Folds(it, k, base, g)}
<1>1. 0 \in T
  <2> DEFINE it == [s \in SUBSET (1..0) |-> base]
  <2>1. \A s \in SUBSET (1..0) : s = {}
    OBVIOUS
  <2>2. it \in [SUBSET (1..0) -> St]
    OBVIOUS
  <2>3. Folds(it, 0, base, g)
    BY <2>1 DEF Folds
  <2> QED
    BY <2>2, <2>3
<1>2. ASSUME NEW k \in 0..n - 1, k \in T PROVE k + 1 \in T
  <2>1. PICK f \in [SUBSET (1..k) -> St] : Folds(f, k, base, g)
    BY <1>2
  <2> DEFINE h == [s \in SUBSET (1..k + 1) |->
                     IF k + 1 \in s THEN g[<<f[s \ {k + 1}], k + 1>>] ELSE f[s]]
  <2>2. \A s \in SUBSET (1..k + 1) : k + 1 \notin s => s \in SUBSET (1..k)
    OBVIOUS
  <2>3. \A s \in SUBSET (1..k + 1) : s \ {k + 1} \in SUBSET (1..k)
    OBVIOUS
  <2>4. k + 1 \in 1..n
    OBVIOUS
  <2>5. h \in [SUBSET (1..k + 1) -> St]
    <3>1. ASSUME NEW s \in SUBSET (1..k + 1), k + 1 \in s
          PROVE  g[<<f[s \ {k + 1}], k + 1>>] \in St
      <4>1. f[s \ {k + 1}] \in St
        BY <2>1, <2>3
      <4>2. <<f[s \ {k + 1}], k + 1>> \in St \X (1..n)
        BY <2>4, <4>1
      <4> QED
        BY <4>2
    <3>2. ASSUME NEW s \in SUBSET (1..k + 1), k + 1 \notin s PROVE f[s] \in St
      BY <2>1, <2>2, <3>2
    <3> QED
      BY <3>1, <3>2
  <2>6. ASSUME NEW s \in SUBSET (1..k + 1)
        PROVE  h[s] = IF s = {} THEN base ELSE g[<<h[s \ {Max(s)}], Max(s)>>]
    <3>1. CASE k + 1 \in s
      <4>1. Max(s) = k + 1 /\ s # {}
        <5>1. k \in Nat /\ s \subseteq 1..k + 1
          OBVIOUS
        <5> HIDE DEF T, h
        <5> QED
          BY <3>1, <5>1, MaxOf
      <4>2. h[s \ {k + 1}] = f[s \ {k + 1}]
        BY <2>3
      <4> QED
        BY <3>1, <4>1, <4>2
    <3>2. CASE k + 1 \notin s
      <4>1. s \in SUBSET (1..k) /\ h[s] = f[s]
        BY <2>2, <3>2
      <4>2. f[s] = IF s = {} THEN base ELSE g[<<f[s \ {Max(s)}], Max(s)>>]
        BY <2>1, <4>1 DEF Folds
      <4>3. s # {} => h[s \ {Max(s)}] = f[s \ {Max(s)}]
        <5>1. s \ {Max(s)} \in SUBSET (1..k + 1) /\ k + 1 \notin s \ {Max(s)}
          BY <3>2
        <5> QED
          BY <5>1
      <4> HIDE DEF h
      <4> QED
        BY <4>1, <4>2, <4>3
    <3> QED
      BY <3>1, <3>2
  <2>7. Folds(h, k + 1, base, g)
    <3>1. h = [s \in SUBSET (1..k + 1) |-> h[s]]
      OBVIOUS
    <3> HIDE DEF h
    <3> QED
      BY <2>6, <3>1 DEF Folds
  <2> HIDE DEF h
  <2> QED
    BY <2>4, <2>5, <2>7
<1> HIDE DEF T
<1>3. n \in T
  BY <1>1, <1>2, Climb
<1> QED
  BY <1>3 DEF T

-----------------------------------------------------------------------------
(* The sums of weights before a position of the table.                     *)

\* The fold comes to a position from the one before.
LEMMA Prefix ==
  ASSUME NEW n \in Nat, NEW k \in 1..n
  PROVE  /\ 1..k \in SUBSET (1..n) /\ 1..k # {} /\ Max(1..k) = k
         /\ (1..k) \ {k} = 1..k - 1
<1>1. k - 1 \in Nat /\ k - 1 + 1 = k /\ 1..k \subseteq 1..k - 1 + 1 /\ k \in 1..k
  OBVIOUS
<1>2. Max(1..k) = k
  BY <1>1, MaxOf
<1> QED
  BY <1>1, <1>2

\* The weights before a position, added up.
Sums(c, P) ==
  /\ P \in [0..Len(c.order) -> Nat] /\ P[0] = 0
  /\ \A k \in 1..Len(c.order) : P[k] = P[k - 1] + c.dyn[c.order[k]]

\* The fold of BaseOf is the sum of the weights before the position.
LEMMA BaseSums ==
  ASSUME NEW c, c.order \in Seq(Servers), c.dyn \in [Servers -> Nat],
         NEW P, Sums(c, P), NEW i \in 1..Len(c.order) + 1
  PROVE  BaseOf(c, i) = P[i - 1]
<1> DEFINE q == SubSeq(c.order, 1, i - 1)
           n == i - 1
           Is(it) == it = [s \in SUBSET (DOMAIN q) |->
                             IF s = {} THEN 0 ELSE it[s \ {Max(s)}] + c.dyn[q[Max(s)]]]
           f == CHOOSE it : Is(it)
<1>1. BaseOf(c, i) = f[DOMAIN q]
  BY DEF BaseOf, FoldLeft, MapThenFoldSet
<1>2. Len(c.order) \in Nat /\ n \in Nat /\ n <= Len(c.order) /\ DOMAIN c.order = 1..Len(c.order)
      /\ \A k \in 1..Len(c.order) : c.order[k] \in Servers
  BY LenProperties, ElementOfSeq
<1>3. DOMAIN q = 1..n /\ \A k \in 1..n : q[k] = c.order[k]
  <2>1. \A k \in 1..i - 1 : c.order[k] \in Servers
    BY <1>2
  <2>2. /\ q \in Seq(Servers) /\ Len(q) = IF 1 <= i - 1 THEN i - 1 - 1 + 1 ELSE 0
        /\ \A k \in 1..i - 1 - 1 + 1 : q[k] = c.order[1 + k - 1]
    BY <1>2, <2>1, SubSeqProperties
  <2> HIDE DEF q
  <2>3. DOMAIN q = 1..Len(q)
    BY <2>2, LenProperties
  <2>4. Len(q) = n
    BY <1>2, <2>2
  <2>5. \A k \in 1..n : k \in 1..i - 1 - 1 + 1 /\ 1 + k - 1 = k
    BY <1>2
  <2> QED
    BY <2>2, <2>3, <2>4, <2>5
<1>4. \E it : Is(it)
  <2> DEFINE g == [p \in Nat \X (1..n) |-> p[1] + c.dyn[q[p[2]]]]
  <2>1. g \in [Nat \X (1..n) -> Nat]
    <3>1. ASSUME NEW p \in Nat \X (1..n) PROVE p[1] + c.dyn[q[p[2]]] \in Nat
      <4>1. p[1] \in Nat /\ p[2] \in 1..n
        OBVIOUS
      <4>2. c.dyn[q[p[2]]] \in Nat
        BY <1>2, <1>3, <4>1, SMTT(40)
      <4>3. \A a, b \in Nat : a + b \in Nat
        OBVIOUS
      <4> QED
        BY <4>1, <4>2, <4>3, Zenon
    <3> HIDE DEF q, n
    <3> QED
      BY <3>1
  <2> HIDE DEF g
  <2>2. PICK it \in [SUBSET (1..n) -> Nat] : Folds(it, n, 0, g)
    BY <1>2, <2>1, FoldExists
  <2>3. ASSUME NEW s \in SUBSET (1..n), s # {}
        PROVE  g[<<it[s \ {Max(s)}], Max(s)>>] = it[s \ {Max(s)}] + c.dyn[q[Max(s)]]
    <3>1. Max(s) \in 1..n
      BY <1>2, <2>3, MaxIn
    <3>2. it[s \ {Max(s)}] \in Nat
      OBVIOUS
    <3> QED
      BY <3>1, <3>2 DEF g
  <2>4. Is(it)
    BY <1>3, <2>2, <2>3 DEF Folds
  <2> QED
    BY <2>4
<1>5. Is(f)
  BY <1>4
<1> HIDE DEF f, q
<1>6. f[1..0] = 0
  <2>1. 1..0 = {}
    OBVIOUS
  <2> QED
    BY <1>3, <1>5, <2>1
<1>7. ASSUME NEW k \in 1..n PROVE f[1..k] = f[1..k - 1] + c.dyn[c.order[k]]
  <2>1. /\ 1..k \in SUBSET (1..n) /\ 1..k # {} /\ Max(1..k) = k
        /\ (1..k) \ {k} = 1..k - 1
    <3> HIDE DEF n
    <3> QED
      BY <1>2, Prefix
  <2>2. q[k] = c.order[k]
    BY <1>3
  <2> HIDE DEF n
  <2>3. f[1..k] = f[(1..k) \ {k}] + c.dyn[q[k]]
    BY <1>3, <1>5, <2>1
  <2> QED
    BY <2>1, <2>2, <2>3
<1> DEFINE T == {k \in 0..n : f[1..k] = P[k]}
<1>8. \A k \in 0..n : k \in T
  <2>1. 0 \in T
    BY <1>2, <1>6 DEF Sums
  <2>2. ASSUME NEW k \in 0..n - 1, k \in T PROVE k + 1 \in T
    <3>1. k + 1 \in 1..n /\ k + 1 - 1 = k /\ k + 1 \in 0..n /\ k + 1 \in 1..Len(c.order)
      BY <1>2
    <3>2. f[1..k + 1] = f[1..k] + c.dyn[c.order[k + 1]]
      BY <1>7, <3>1
    <3>3. P[k + 1] = P[k] + c.dyn[c.order[k + 1]]
      BY <3>1, SMTT(40) DEF Sums
    <3> QED
      BY <2>2, <3>1, <3>2, <3>3
  <2> HIDE DEF T
  <2> QED
    BY <1>2, <2>1, <2>2, Climb
<1> QED
  BY <1>1, <1>2, <1>3, <1>8

\* Every table has its sums.
LEMMA SumsExist ==
  ASSUME NEW c, c.order \in Seq(Servers), c.dyn \in [Servers -> Nat]
  PROVE  \E P : Sums(c, P)
<1> DEFINE n == Len(c.order)
           Upto(P, k) == /\ P \in [0..k -> Nat] /\ P[0] = 0
                         /\ \A j \in 1..k : P[j] = P[j - 1] + c.dyn[c.order[j]]
           T == {k \in 0..n : \E P : Upto(P, k)}
<1>1. n \in Nat /\ \A k \in 1..n : c.dyn[c.order[k]] \in Nat
  BY LenProperties, ElementOfSeq
<1>2. 0 \in T
  <2> DEFINE P == [k \in 0..0 |-> 0]
  <2>1. Upto(P, 0)
    OBVIOUS
  <2>2. 0 \in 0..n
    BY <1>1
  <2> HIDE DEF P, Upto
  <2> QED
    BY <2>1, <2>2
<1>3. ASSUME NEW k \in 0..n - 1, k \in T PROVE k + 1 \in T
  <2>1. PICK P : Upto(P, k)
    BY <1>3
  <2> DEFINE Q == [j \in 0..k + 1 |-> IF j = k + 1 THEN P[k] + c.dyn[c.order[j]] ELSE P[j]]
  <2>2. k \in Nat /\ k + 1 \in 0..n /\ k + 1 \in 1..n /\ k \in 0..k
    BY <1>1
  <2>3. Q \in [0..k + 1 -> Nat]
    BY <1>1, <2>1, <2>2, SMTT(40)
  <2>4. Q[0] = 0
    BY <2>1, <2>2
  <2>5. ASSUME NEW j \in 1..k + 1 PROVE Q[j] = Q[j - 1] + c.dyn[c.order[j]]
    BY <2>1, <2>2, SMTT(40)
  <2>6. Upto(Q, k + 1)
    BY <2>3, <2>4, <2>5
  <2> HIDE DEF Q, Upto
  <2> QED
    BY <2>2, <2>6
<1> HIDE DEF T, n
<1>4. n \in T
  <2>1. n \in Nat /\ n \in 0..n
    BY <1>1
  <2>2. \A k \in 0..n - 1 : k \in T => k + 1 \in T
    BY <1>3
  <2>3. \A k \in 0..n : k \in T
    BY <2>1, <2>2, <1>2, Climb
  <2> QED
    BY <2>1, <2>3
<1> QED
  BY <1>4 DEF T, n, Sums

-----------------------------------------------------------------------------
(* calc_servers_weight: the intervals of the live servers.                 *)

Distinct(order) == \A i, j \in DOMAIN order : order[i] = order[j] => i = j

\* A table and its head agree: the servers before the dead ones have intervals one
\* after the other, from zero to where the dead ones begin.
Whole(t, h) ==
  LET live == h.num - h.deadNum
  IN  /\ h.num = Len(t.order) /\ live \in 0..h.num
      /\ \A i \in 1..live : t.order[i] \notin t.dead
      /\ live > 0 => t.base[t.order[1]] = 0
      /\ \A i \in 1..live - 1 :
           t.base[t.order[i + 1]] = t.base[t.order[i]] + t.dyn[t.order[i]]
      /\ h.deadBase = IF live = 0 THEN 0
                      ELSE t.base[t.order[live]] + t.dyn[t.order[live]]

\* The servers before the first dead one are not dead.
LEMMA LiveBefore ==
  ASSUME NEW c, c.order \in Seq(Servers)
  PROVE  /\ Live(c) \in 0..Len(c.order)
         /\ \A i \in 1..Live(c) : c.order[i] \notin c.dead
<1> DEFINE D == {i \in DOMAIN c.order : c.order[i] \in c.dead}
<1>1. Len(c.order) \in Nat /\ DOMAIN c.order = 1..Len(c.order)
  BY LenProperties
<1>2. CASE D = {}
  <2>1. Live(c) = Len(c.order)
    BY <1>2 DEF Live
  <2> QED
    BY <1>1, <1>2, <2>1
<1>3. CASE D # {}
  <2>1. Live(c) = Min(D) - 1
    BY <1>3 DEF Live
  <2>0. D \subseteq Nat
    BY <1>1
  <2>2. PICK m \in D : \A j \in D : ~(<<j, m>> \in OpToRel(<, Nat))
    <3> HIDE DEF D
    <3> QED
      BY <1>3, <2>0, WFMin, NatLessThanWellFounded
  <2>3. \A j \in D : m <= j
    <3> HIDE DEF D
    <3>1. \A j \in D : ~(j < m)
      BY <2>0, <2>2 DEF OpToRel
    <3> QED
      BY <2>0, <3>1
  <2>4. Min(D) \in D /\ \A j \in D : Min(D) <= j
    <3> HIDE DEF D
    <3> QED
      BY <2>2, <2>3 DEF Min
  <2>5. ASSUME NEW i \in 1..Live(c) PROVE i \notin D /\ i \in DOMAIN c.order
    <3>1. Min(D) \in 1..Len(c.order)
      BY <1>1, <2>4
    <3>2. i \in 1..Len(c.order) /\ i < Min(D)
      BY <1>1, <2>1, <3>1
    <3>3. i \notin D
      <4> HIDE DEF D
      <4> QED
        BY <1>1, <2>4, <3>1, <3>2
    <3> QED
      BY <1>1, <3>2, <3>3
  <2> QED
    BY <1>1, <2>1, <2>4, <2>5, SMTT(40)
<1> QED
  BY <1>2, <1>3

\* Each of them has the base of its position.
LEMMA BaseAt ==
  ASSUME NEW c, c.order \in Seq(Servers), Distinct(c.order), NEW i \in 1..Live(c)
  PROVE  Bases(c)[c.order[i]] = BaseOf(c, i)
<1>1. Live(c) \in 0..Len(c.order) /\ Len(c.order) \in Nat /\ DOMAIN c.order = 1..Len(c.order)
  BY LiveBefore, LenProperties
<1>2. i \in DOMAIN c.order /\ c.order[i] \in Servers
  BY <1>1, ElementOfSeq
<1>3. \A j \in 1..Live(c) : c.order[j] = c.order[i] => j = i
  BY <1>1 DEF Distinct
<1>4. (CHOOSE j \in 1..Live(c) : c.order[j] = c.order[i]) = i
  BY <1>3
<1> QED
  BY <1>2, <1>4 DEF Bases

\* calc_servers_weight makes a whole.
LEMMA WeightsWhole ==
  ASSUME NEW c, c.order \in Seq(Servers), c.dyn \in [Servers -> Nat], Distinct(c.order),
         NEW t, t.order = c.order, t.dyn = c.dyn, t.dead = c.dead, t.base = Bases(c)
  PROVE  Whole(t, HeadOf(c))
<1> DEFINE n == Len(c.order)
           live == Live(c)
<1>1. n \in Nat /\ DOMAIN c.order = 1..n /\ live \in 0..n
      /\ \A i \in 1..live : c.order[i] \notin c.dead
  BY LiveBefore, LenProperties
<1>2. PICK P : Sums(c, P)
  BY SumsExist
<1>3. \A i \in 1..n + 1 : BaseOf(c, i) = P[i - 1]
  BY <1>2, BaseSums
<1>4. /\ P[0] = 0 /\ \A k \in 0..n : P[k] \in Nat
      /\ \A k \in 1..n : P[k] = P[k - 1] + c.dyn[c.order[k]]
  BY <1>2 DEF Sums
<1>5. \A i \in 1..live : t.base[c.order[i]] = P[i - 1]
  <2>1. \A i \in 1..live : Bases(c)[c.order[i]] = BaseOf(c, i)
    BY BaseAt
  <2> QED
    BY <1>1, <1>3, <2>1
<1>6. /\ HeadOf(c).num = n /\ HeadOf(c).deadNum = n - live
      /\ HeadOf(c).deadBase = P[live]
  <2>1. live + 1 \in 1..n + 1 /\ live + 1 - 1 = live
    BY <1>1
  <2>2. BaseOf(c, live + 1) = P[live + 1 - 1]
    <3> HIDE DEF live, n
    <3> QED
      BY <1>1, <1>3, <2>1
  <2>3. BaseOf(c, live + 1) = P[live]
    BY <2>1, <2>2
  <2> QED
    BY <2>3 DEF HeadOf
<1>7. HeadOf(c).num - HeadOf(c).deadNum = live
  BY <1>1, <1>6
<1> HIDE DEF live, n
<1>8. live > 0 => t.base[c.order[1]] = 0
  BY <1>1, <1>4, <1>5
<1>9. ASSUME NEW i \in 1..live - 1
      PROVE  t.base[c.order[i + 1]] = t.base[c.order[i]] + c.dyn[c.order[i]]
  <2>1. i \in 1..live /\ i + 1 \in 1..live /\ i \in 1..n /\ i + 1 - 1 = i
    BY <1>1
  <2> QED
    BY <1>4, <1>5, <2>1
<1>10. P[live] = IF live = 0 THEN 0 ELSE t.base[c.order[live]] + c.dyn[c.order[live]]
  <2>1. live # 0 => live \in 1..live /\ live \in 1..n
    BY <1>1
  <2> QED
    BY <1>4, <1>5, <2>1
<1> QED
  BY <1>1, <1>6, <1>7, <1>8, <1>9, <1>10 DEF Whole, n

-----------------------------------------------------------------------------
(* search_route: the binary search finds the server of a number.           *)

\* Typed tables.
Typed(t) ==
  /\ t.order \in Seq(Servers) /\ Distinct(t.order)
  /\ t.dyn \in [Servers -> Nat] /\ t.base \in [Servers -> Nat]

\* The binary search, in the part of the table from part[1] to part[2].
Looks(f, t, r, part) ==
  LET low == part[1]
      high == part[2]
      mid == (low + high) \div 2
      s == t.order[mid]
  IN IF low >= high THEN t.order[low]
     ELSE IF r < t.base[s] THEN f[<<low, mid - 1>>]
     ELSE IF r >= t.base[s] + t.dyn[s] THEN f[<<mid + 1, high>>]
     ELSE s

Parts(live) == (1..live + 1) \X (0..live)
Searches(f, t, r, live) == f = [part \in Parts(live) |-> Looks(f, t, r, part)]

\* The middle of a part of the table.
LEMMA MidBetween ==
  ASSUME NEW low \in Nat, NEW high \in Nat, low < high
  PROVE  /\ (low + high) \div 2 \in Nat
         /\ low <= (low + high) \div 2 /\ (low + high) \div 2 < high
  OBVIOUS

\* The recursive function of the binary search exists.
LEMMA SearchExists ==
  ASSUME NEW t, NEW r, NEW live \in Nat
  PROVE  \E f : Searches(f, t, r, live)
<1> DEFINE Good(f, k) ==
             \A p \in Parts(live) : p[2] - p[1] <= k => f[p] = Looks(f, t, r, p)
           T == {k \in 0..live : \E f : /\ f = [part \in Parts(live) |-> f[part]]
                                        /\ Good(f, k)}
<1>1. 0 \in T
  <2> DEFINE f == [part \in Parts(live) |-> t.order[part[1]]]
  <2>1. ASSUME NEW p \in Parts(live), p[2] - p[1] <= 0 PROVE f[p] = Looks(f, t, r, p)
    <3>1. p[1] \in Nat /\ p[2] \in Nat
      BY DEF Parts
    <3>2. p[1] >= p[2]
      BY <2>1, <3>1
    <3> QED
      BY <3>2 DEF Looks
  <2>2. f = [part \in Parts(live) |-> f[part]] /\ 0 \in 0..live
    OBVIOUS
  <2> HIDE DEF f
  <2> QED
    BY <2>1, <2>2
<1>2. ASSUME NEW k \in 0..live - 1, k \in T PROVE k + 1 \in T
  <2>1. PICK f : f = [part \in Parts(live) |-> f[part]] /\ Good(f, k)
    BY <1>2
  <2> DEFINE g == [part \in Parts(live) |->
                     IF part[2] - part[1] <= k THEN f[part] ELSE Looks(f, t, r, part)]
  <2>2. ASSUME NEW p \in Parts(live), p[2] - p[1] <= k + 1
        PROVE  g[p] = Looks(g, t, r, p)
    <3> DEFINE low == p[1]
               high == p[2]
               mid == (low + high) \div 2
    <3>1. low \in 1..live + 1 /\ high \in 0..live /\ p = <<low, high>>
      BY DEF Parts
    <3>2. g[p] = Looks(f, t, r, p)
      <4>1. high - low <= k => f[p] = Looks(f, t, r, p)
        BY <2>1
      <4> QED
        BY <4>1
    <3>3. CASE low >= high
      <4>1. Looks(f, t, r, p) = Looks(g, t, r, p)
        BY <3>3 DEF Looks
      <4> QED
        BY <3>2, <4>1, SMTT(40)
    <3>4. CASE low < high
      <4>1. /\ mid \in Nat /\ low <= mid /\ mid < high
        BY <3>1, <3>4, MidBetween
      <4> DEFINE a == <<low, mid - 1>>
                 b == <<mid + 1, high>>
      <4>2. a \in Parts(live) /\ b \in Parts(live)
        BY <3>1, <4>1 DEF Parts
      <4>3. a[2] - a[1] <= k /\ b[2] - b[1] <= k
        BY <2>2, <3>1, <4>1
      <4>4. g[a] = f[a] /\ g[b] = f[b]
        <5> HIDE DEF a, b
        <5> QED
          BY <4>2, <4>3
      <4>5. Looks(f, t, r, p) = Looks(g, t, r, p)
        <5> HIDE DEF g
        <5> QED
          BY <4>4 DEF Looks
      <4> QED
        BY <3>2, <4>5
    <3> QED
      BY <3>1, <3>3, <3>4
  <2>3. g = [part \in Parts(live) |-> g[part]] /\ k + 1 \in 0..live
    OBVIOUS
  <2> HIDE DEF g
  <2> QED
    BY <2>2, <2>3
<1> HIDE DEF T
<1>3. live \in T
  BY <1>1, <1>2, Climb
<1>4. PICK f : f = [part \in Parts(live) |-> f[part]] /\ Good(f, live)
  BY <1>3 DEF T
<1>5. \A p \in Parts(live) : f[p] = Looks(f, t, r, p)
  <2>1. \A p \in Parts(live) : p[2] - p[1] <= live
    BY DEF Parts
  <2> QED
    BY <1>4, <2>1
<1>6. Searches(f, t, r, live)
  BY <1>4, <1>5 DEF Searches
<1> QED
  BY <1>6

\* Found is one of its values, and satisfies its equation.
LEMMA FoundLooks ==
  ASSUME NEW t, NEW h, NEW r, NEW live \in Nat, live = h.num - h.deadNum
  PROVE  \E f : /\ Found(t, h, r) = f[<<1, live>>]
                /\ \A p \in Parts(live) : f[p] = Looks(f, t, r, p)
<1> DEFINE seek == CHOOSE f : Searches(f, t, r, live)
<1>1. Found(t, h, r) = seek[<<1, live>>]
  BY DEF Found, Parts, Looks, Searches
<1>2. Searches(seek, t, r, live)
  BY SearchExists
<1> HIDE DEF seek
<1>3. \A p \in Parts(live) : seek[p] = Looks(seek, t, r, p)
  BY <1>2 DEF Searches
<1> QED
  BY <1>1, <1>3

\* search_route finds the server whose interval holds the number.
LEMMA SearchFinds ==
  ASSUME NEW t, NEW h, Typed(t), Whole(t, h), NEW r \in 0..h.deadBase - 1
  PROVE  LET s == Found(t, h, r)
         IN  s \in Servers /\ s \notin t.dead /\ r \in t.base[s] .. t.base[s] + t.dyn[s] - 1
<1> DEFINE live == h.num - h.deadNum
           n == Len(t.order)
           Is(s) == /\ s \in Servers /\ s \notin t.dead
                    /\ r \in t.base[s] .. t.base[s] + t.dyn[s] - 1
           base(i) == t.base[t.order[i]]
           dyn(i) == t.dyn[t.order[i]]
           Within(p) == /\ p[1] \in 1..live /\ p[2] \in 1..live /\ p[1] <= p[2]
                        /\ base(p[1]) <= r /\ r < base(p[2]) + dyn(p[2])
<1>1. /\ n \in Nat /\ h.num = n /\ live \in 0..n
      /\ \A i \in 1..live : t.order[i] \in Servers /\ t.order[i] \notin t.dead
  <2>1. n \in Nat /\ \A i \in 1..n : t.order[i] \in Servers
    BY LenProperties, ElementOfSeq DEF Typed
  <2>2. h.num = n /\ live \in 0..n /\ \A i \in 1..live : t.order[i] \notin t.dead
    BY DEF Whole
  <2> QED
    BY <2>1, <2>2
<1>2. \A i \in 1..live : base(i) \in Nat /\ dyn(i) \in Nat
  BY <1>1 DEF Typed
<1>3. /\ live > 0 => base(1) = 0
      /\ \A i \in 1..live - 1 : base(i + 1) = base(i) + dyn(i)
      /\ h.deadBase = IF live = 0 THEN 0 ELSE base(live) + dyn(live)
  BY DEF Whole
<1>4. PICK f : /\ Found(t, h, r) = f[<<1, live>>]
               /\ \A p \in Parts(live) : f[p] = Looks(f, t, r, p)
  <2>1. live \in Nat /\ live = h.num - h.deadNum
    BY <1>1
  <2> HIDE DEF live
  <2> QED
    BY <2>1, FoundLooks
<1> DEFINE T == {k \in 0..live : \A p \in Parts(live) :
                                 Within(p) /\ p[2] - p[1] <= k => Is(f[p])}
<1> HIDE DEF live
<1>5. 0 \in T
  <2>1. ASSUME NEW p \in Parts(live), Within(p), p[2] - p[1] <= 0 PROVE Is(f[p])
    <3>1. p[1] = p[2] /\ p[1] \in 1..live /\ p[1] >= p[2]
      BY <1>1, <2>1
    <3>2. f[p] = t.order[p[1]]
      BY <1>4, <3>1 DEF Looks
    <3> QED
      BY <1>1, <1>2, <2>1, <3>1, <3>2, SMTT(40)
  <2>2. 0 \in 0..live
    BY <1>1
  <2> HIDE DEF Within, Is
  <2> QED
    BY <2>1, <2>2
<1>6. ASSUME NEW k \in 0..live - 1, k \in T PROVE k + 1 \in T
  <2>1. ASSUME NEW p \in Parts(live), Within(p), p[2] - p[1] <= k + 1 PROVE Is(f[p])
    <3> DEFINE low == p[1]
               high == p[2]
               mid == (low + high) \div 2
    <3>1. low \in 1..live /\ high \in 1..live /\ low <= high /\ live \in Nat
      BY <1>1, <2>1
    <3>2. f[p] = Looks(f, t, r, p)
      BY <1>4
    <3>3. CASE low = high
      <4>1. f[p] = t.order[low]
        BY <3>1, <3>2, <3>3 DEF Looks
      <4>2. base(low) \in Nat /\ dyn(low) \in Nat /\ r \in Int
        BY <1>2, <3>1
      <4>3. base(low) <= r /\ r <= base(low) + dyn(low) - 1
        BY <2>1, <3>3, <4>2
      <4> QED
        BY <1>1, <3>1, <4>1, <4>2, <4>3
    <3>4. CASE low < high
      <4>1. mid \in Nat /\ low <= mid /\ mid < high
        BY <3>1, <3>4, MidBetween
      <4>2. mid \in 1..live
        BY <3>1, <4>1
      <4> DEFINE a == <<low, mid - 1>>
                 b == <<mid + 1, high>>
      <4>3. a \in Parts(live) /\ b \in Parts(live)
        BY <3>1, <4>1 DEF Parts
      <4>4. a[2] - a[1] <= k /\ b[2] - b[1] <= k
        BY <2>1, <3>1, <4>1
      <4>5. CASE r < base(mid)
        <5>1. f[p] = f[a]
          BY <3>1, <3>2, <3>4, <4>5 DEF Looks
        <5>2. mid # low
          <6>1. base(low) \in Nat /\ r \in Int /\ base(low) <= r
            BY <1>2, <2>1, <3>1
          <6> HIDE DEF mid
          <6> QED
            BY <4>5, <6>1
        <5>3. mid - 1 \in 1..live - 1 /\ mid - 1 + 1 = mid /\ low <= mid - 1
          BY <3>1, <4>1, <4>2, <5>2
        <5>4. base(mid) = base(mid - 1) + dyn(mid - 1)
          BY <1>3, <5>3
        <5>5. Within(a)
          BY <2>1, <3>1, <4>5, <5>3, <5>4
        <5> HIDE DEF a, Within, Is
        <5> QED
          BY <1>6, <4>3, <4>4, <5>1, <5>5
      <4>6. CASE ~(r < base(mid)) /\ r >= base(mid) + dyn(mid)
        <5>1. f[p] = f[b]
          BY <3>1, <3>2, <3>4, <4>6 DEF Looks
        <5>2. mid \in 1..live - 1 /\ mid + 1 \in 1..live /\ mid + 1 <= high
          BY <3>1, <4>1, <4>2
        <5>3. base(mid + 1) = base(mid) + dyn(mid)
          BY <1>3, <5>2
        <5>4. Within(b)
          BY <2>1, <3>1, <4>6, <5>2, <5>3
        <5> HIDE DEF b, Within, Is
        <5> QED
          BY <1>6, <4>3, <4>4, <5>1, <5>4
      <4>7. CASE ~(r < base(mid)) /\ ~(r >= base(mid) + dyn(mid))
        <5>1. f[p] = t.order[mid]
          BY <3>1, <3>2, <3>4, <4>7 DEF Looks
        <5>2. base(mid) \in Nat /\ dyn(mid) \in Nat /\ r \in Int
          BY <1>2, <4>2
        <5>3. base(mid) <= r /\ r <= base(mid) + dyn(mid) - 1
          BY <4>7, <5>2
        <5> QED
          BY <1>1, <4>2, <5>1, <5>2, <5>3
      <4> QED
        BY <4>5, <4>6, <4>7
    <3> QED
      BY <3>1, <3>3, <3>4
  <2>2. k + 1 \in 0..live
    BY <1>1
  <2> HIDE DEF Within, Is
  <2> QED
    BY <2>1, <2>2
<1> HIDE DEF T
<1>7. live \in T
  <2>1. live \in Nat /\ live \in 0..live
    BY <1>1
  <2>2. \A k \in 0..live - 1 : k \in T => k + 1 \in T
    BY <1>6
  <2>3. \A k \in 0..live : k \in T
    BY <2>1, <2>2, <1>5, Climb
  <2> QED
    BY <2>1, <2>3
<1> DEFINE all == <<1, live>>
<1>8. live > 0 /\ all \in Parts(live) /\ Within(all) /\ all[2] - all[1] <= live
  <2>1. h.deadBase > 0
    BY <1>1, <1>2, <1>3, SMTT(40)
  <2>2. live > 0
    BY <1>1, <1>3, <2>1
  <2> QED
    BY <1>1, <1>2, <1>3, <2>2, SMTT(40) DEF Parts
<1>9. Is(f[all])
  <2> HIDE DEF Within, Is, all
  <2> QED
    BY <1>7, <1>8 DEF T
<1> QED
  BY <1>4, <1>9

-----------------------------------------------------------------------------
(* _shaping_servers: one turn of its loop.                                 *)

Counts == [Servers -> Nat]

\* Every live server of a table has a share.
Sharing(c) == \A s \in Servers : s \in Members(c) /\ s \notin c.dead => c.dyn[s] > 0

\* What the shaping works on.
WorkRecords(n) ==
  [order : [1..n -> Servers], dyn : Counts, dead : SUBSET Servers,
   failed : Counts, success : Counts, begin : 1..n + 1, end : 0..n]
Works(n, M) == {st \in WorkRecords(n) : Distinct(st.order) /\ Members(st) = M /\ Sharing(st)}

WorkRec(order, dyn, dead, bad, won, begin, end) ==
  [order |-> order, dyn |-> dyn, dead |-> dead,
   failed |-> bad, success |-> won, begin |-> begin, end |-> end]

\* The fields of what the shaping works on, and a record put together from them.
LEMMA WorkFieldsOf ==
  ASSUME NEW n \in Nat, NEW M, NEW st
  PROVE  /\ st \in Works(n, M) =>
              /\ st.order \in [1..n -> Servers] /\ st.dyn \in Counts /\ st.dead \subseteq Servers
              /\ st.failed \in Counts /\ st.success \in Counts
              /\ st.begin \in 1..n + 1 /\ st.end \in 0..n
              /\ Distinct(st.order) /\ Members(st) = M /\ Sharing(st)
              /\ st = WorkRec(st.order, st.dyn, st.dead, st.failed, st.success, st.begin, st.end)
         /\ \A order \in [1..n -> Servers], dyn \in Counts, dead \in SUBSET Servers,
               bad \in Counts, won \in Counts, begin \in 1..n + 1, end \in 0..n :
              LET new == WorkRec(order, dyn, dead, bad, won, begin, end)
              IN  Distinct(order) /\ Members(new) = M /\ Sharing(new) => new \in Works(n, M)
  BY DEF Works, WorkRecords, WorkRec

\* No weight that is written for a live server is zero.
LEMMA Weights ==
  /\ WeightStatic \in Nat \ {0}
  /\ Resumed \in Nat \ {0}
  /\ \A d \in Nat : Smallest(WeightStatic, d + Largest(1, Percent(WeightStatic, WeightIncr)))
                      \in Nat \ {0}
<1>1. WeightStatic \in Nat \ {0} /\ ResumeWeight \in 1..100 /\ WeightIncr \in 1..100
  BY RoutesAssumption
<1>2. ASSUME NEW p \in 1..100 PROVE Percent(WeightStatic, p) \in Nat
  <2>1. WeightStatic * p \in Nat
    BY <1>1
  <2> DEFINE m == WeightStatic * p
  <2> HIDE DEF m
  <2>2. m \in Nat => m \div 100 \in Nat
    OBVIOUS
  <2> QED
    BY <2>1, <2>2 DEF Percent, m
<1>3. \A m \in Nat : Largest(1, m) \in Nat \ {0}
  BY DEF Largest
<1>4. Resumed \in Nat \ {0}
  BY <1>1, <1>2, <1>3 DEF Resumed
<1>5. ASSUME NEW d \in Nat
      PROVE  Smallest(WeightStatic, d + Largest(1, Percent(WeightStatic, WeightIncr)))
               \in Nat \ {0}
  <2> DEFINE m == Largest(1, Percent(WeightStatic, WeightIncr))
  <2>1. m \in Nat \ {0}
    BY <1>1, <1>2, <1>3
  <2> HIDE DEF m
  <2>2. d + m \in Nat \ {0}
    BY <2>1
  <2> QED
    BY <1>1, <2>2 DEF Smallest, m
<1> QED
  BY <1>1, <1>4, <1>5

\* A quotient of naturals is a natural.
LEMMA Quotient ==
  ASSUME NEW a \in Nat, NEW b \in Nat, b > 0
  PROVE  a \div b \in Nat
<1> DEFINE q == a \div b
<1>1. q \in Int /\ a < b * (q + 1)
  OBVIOUS
<1>2. ASSUME q + 1 <= 0 PROVE FALSE
  <2>1. \A k \in Int : k <= 0 => b * k <= 0
    OBVIOUS
  <2> QED
    BY <1>1, <1>2, <2>1
<1> QED
  BY <1>1, <1>2

\* The fields of such a record, and the record with one of them changed.
LEMMA WorkFields ==
  ASSUME NEW order, NEW dyn, NEW dead, NEW bad, NEW won, NEW begin, NEW end, NEW st,
         st = WorkRec(order, dyn, dead, bad, won, begin, end), NEW v
  PROVE /\ st.order = order /\ st.dyn = dyn /\ st.dead = dead
        /\ st.failed = bad /\ st.success = won
        /\ st.begin = begin /\ st.end = end
        /\ [st EXCEPT !.order = v] = WorkRec(v, dyn, dead, bad, won, begin, end)
        /\ [st EXCEPT !.dyn = v] = WorkRec(order, v, dead, bad, won, begin, end)
        /\ [st EXCEPT !.dead = v] = WorkRec(order, dyn, v, bad, won, begin, end)
        /\ [st EXCEPT !.begin = v] = WorkRec(order, dyn, dead, bad, won, v, end)
        /\ [st EXCEPT !.end = v] = WorkRec(order, dyn, dead, bad, won, begin, v)
BY DEF WorkRec

Swapped(order, i, j) == [order EXCEPT ![i] = order[j], ![j] = order[i]]
ZeroAt(dyn, s) == [dyn EXCEPT ![s] = 0]
Weigh(st, dead, dyn) == [st EXCEPT !.dead = dead, !.dyn = dyn]

\* The same for two fields, as Weigh changes them.
LEMMA TwoFields ==
  ASSUME NEW order, NEW dyn, NEW dead, NEW bad, NEW won, NEW begin, NEW end, NEW st,
         st = WorkRec(order, dyn, dead, bad, won, begin, end), NEW dead2, NEW dyn2
  PROVE  Weigh(st, dead2, dyn2) = WorkRec(order, dyn2, dead2, bad, won, begin, end)
<1> DEFINE u == [st EXCEPT !.dead = dead2]
<1>1. u = WorkRec(order, dyn, dead2, bad, won, begin, end)
  BY WorkFields
<1>2. [st EXCEPT !.dead = dead2, !.dyn = dyn2] = [u EXCEPT !.dyn = dyn2]
  OBVIOUS
<1> HIDE DEF u
<1> QED
  BY <1>1, <1>2 DEF WorkRec, Weigh

\* The server at begin stays where it is.
LEMMA StayIs ==
  ASSUME NEW order, NEW dyn, NEW dead, NEW bad, NEW won, NEW begin, NEW end, NEW st,
         st = WorkRec(order, dyn, dead, bad, won, begin, end)
  PROVE  Stay(st) = WorkRec(order, dyn, dead, bad, won, begin + 1, end)
  BY DEF WorkRec, Stay

\* The server at begin is swapped with the one at end.
LEMMA ToEndIs ==
  ASSUME NEW order, NEW dyn, NEW dead, NEW bad, NEW won, NEW begin, NEW end, NEW st,
         st = WorkRec(order, dyn, dead, bad, won, begin, end)
  PROVE  ToEnd(st) = WorkRec(Swapped(order, begin, end), dyn, dead, bad, won,
                             begin, end - 1)
<1> DEFINE o1 == [order EXCEPT ![begin] = order[end]]
           o2 == [o1 EXCEPT ![end] = order[begin]]
           u == [st EXCEPT !.order = [st.order EXCEPT ![st.begin] = st.order[st.end]]]
           w == [u EXCEPT !.order = [u.order EXCEPT ![st.end] = st.order[st.begin]]]
<1>0. st.order = order /\ st.begin = begin /\ st.end = end
  BY WorkFields
<1>1. u = WorkRec(o1, dyn, dead, bad, won, begin, end)
  <2>1. u = [st EXCEPT !.order = o1]
    BY <1>0
  <2> HIDE DEF u, o1
  <2> QED
    BY <2>1 DEF WorkRec
<1>2. ToEnd(st) = [w EXCEPT !.end = w.end - 1]
  BY DEF ToEnd
<1>3. w = WorkRec(o2, dyn, dead, bad, won, begin, end)
  <2>1. u.order = o1
    <3> HIDE DEF u, o1
    <3> QED
      BY <1>1, WorkFields, SMTT(40)
  <2>2. w = [u EXCEPT !.order = o2]
    BY <1>0, <2>1
  <2> HIDE DEF u, o1, o2, w
  <2> QED
    BY <1>1, <2>2 DEF WorkRec
<1>4. o2 = Swapped(order, begin, end)
  BY DEF Swapped
<1> HIDE DEF w, o2
<1>5. w.end = end
  BY <1>3, WorkFields, SMTT(40)
<1> QED
  BY <1>2, <1>3, <1>4, <1>5 DEF WorkRec

\* The server at begin dies.
LEMMA KillIs ==
  ASSUME NEW order, NEW dyn, NEW dead, NEW bad, NEW won, NEW begin, NEW end, NEW st,
         NEW s,
         st = WorkRec(order, dyn, dead, bad, won, begin, end)
  PROVE  Kill(st, s) = WorkRec(Swapped(order, begin, end), ZeroAt(dyn, s),
                   dead \cup {s}, bad, won, begin, end - 1)
<1> DEFINE u == [st EXCEPT !.dead = st.dead \cup {s}]
<1>1. u = WorkRec(order, dyn, dead \cup {s}, bad, won, begin, end)
  <2>1. u = [st EXCEPT !.dead = dead \cup {s}]
    <3>1. st.dead = dead
      BY WorkFields
    <3> QED
      BY <3>1
  <2> HIDE DEF u
  <2> QED
    BY <2>1 DEF WorkRec
<1>2. [st EXCEPT !.dead = @ \cup {s}, !.dyn[s] = 0] = [u EXCEPT !.dyn = [u.dyn EXCEPT ![s] = 0]]
  OBVIOUS
<1> HIDE DEF u
<1>3. u.dyn = dyn
  BY <1>1, WorkFields
<1> DEFINE d2 == [dyn EXCEPT ![s] = 0]
<1>4. [st EXCEPT !.dead = @ \cup {s}, !.dyn[s] = 0] = [u EXCEPT !.dyn = d2]
  BY <1>2, <1>3
<1> HIDE DEF d2
<1>5. [u EXCEPT !.dyn = d2] = WorkRec(order, d2, dead \cup {s}, bad, won, begin, end)
  BY <1>1 DEF WorkRec
<1>6. [st EXCEPT !.dead = @ \cup {s}, !.dyn[s] = 0]
        = WorkRec(order, d2, dead \cup {s}, bad, won, begin, end)
  BY <1>4, <1>5
<1> DEFINE v == [st EXCEPT !.dead = @ \cup {s}, !.dyn[s] = 0]
<1>7. Kill(st, s) = ToEnd(v)
  BY DEF Kill
<1> HIDE DEF v
<1>8. v = WorkRec(order, ZeroAt(dyn, s), dead \cup {s}, bad, won, begin, end)
  BY <1>6 DEF d2, v, ZeroAt
<1> QED
  BY <1>7, <1>8, ToEndIs

\* A server that stays with a weight above zero keeps the sharing.
LEMMA StayWorks ==
  ASSUME NEW n \in Nat, NEW M, NEW st \in Works(n, M), st.begin <= st.end,
         NEW dead \in SUBSET Servers, NEW dyn \in Counts,
         \A s \in M : s \notin dead => dyn[s] > 0,
         M \subseteq Servers
  PROVE  Stay(Weigh(st, dead, dyn)) \in Works(n, M)
<1> DEFINE new == WorkRec(st.order, dyn, dead, st.failed, st.success, st.begin + 1, st.end)
<1>1. Stay(Weigh(st, dead, dyn)) = new
  <2> DEFINE u == Weigh(st, dead, dyn)
  <2>1. u = WorkRec(st.order, dyn, dead, st.failed, st.success, st.begin, st.end)
    <3>1. st = WorkRec(st.order, st.dyn, st.dead, st.failed, st.success, st.begin, st.end)
      BY WorkFieldsOf
    <3> QED
      BY <3>1, TwoFields
  <2> HIDE DEF u
  <2>2. Stay(u) = new
    BY <2>1, StayIs
  <2> QED
    BY <2>2 DEF u
<1>2. st.begin + 1 \in 1..n + 1
  BY WorkFieldsOf
<1>3. Members(new) = M /\ Sharing(new)
  BY WorkFieldsOf DEF Members, Sharing, WorkRec
<1>4. /\ st.order \in [1..n -> Servers] /\ Distinct(st.order)
      /\ st.failed \in Counts /\ st.success \in Counts /\ st.end \in 0..n
  BY WorkFieldsOf
<1> QED
  BY <1>1, <1>2, <1>3, <1>4, WorkFieldsOf

\* A server that dies goes behind the others: the order stays one of the same servers.
LEMMA ToEndWorks ==
  ASSUME NEW n \in Nat, NEW M, NEW st \in Works(n, M), st.begin <= st.end,
         M \subseteq Servers
  PROVE  Kill(st, st.order[st.begin]) \in Works(n, M)
<1> DEFINE i == st.begin
           j == st.end
           s == st.order[i]
           order == [st.order EXCEPT ![i] = st.order[j], ![j] = st.order[i]]
           dead == st.dead \cup {s}
           dyn == [st.dyn EXCEPT ![s] = 0]
           new == WorkRec(order, dyn, dead, st.failed, st.success, i, j - 1)
<1>1. /\ i \in 1..n /\ j \in 1..n /\ st.order \in [1..n -> Servers] /\ j - 1 \in 0..n
      /\ st.order[j] \in Servers /\ s \in Servers
  BY WorkFieldsOf
<1>2. Kill(st, s) = new
  <2>1. st = WorkRec(st.order, st.dyn, st.dead, st.failed, st.success, i, j)
    BY WorkFieldsOf
  <2> HIDE DEF i, j
  <2>2. Kill(st, s) = WorkRec(Swapped(st.order, i, j), ZeroAt(st.dyn, s), st.dead \cup {s},
                          st.failed, st.success, i, j - 1)
    BY <2>1, KillIs
  <2> QED
    BY <2>2 DEF Swapped, ZeroAt
<1>3. order \in [1..n -> Servers]
  BY <1>1
<1>4. \A k \in 1..n : order[k] = st.order[IF k = i THEN j ELSE IF k = j THEN i ELSE k]
  BY <1>1
<1>5. Distinct(order)
  <2>1. Distinct(st.order)
    BY WorkFieldsOf
  <2> HIDE DEF order, i, j
  <2> QED
    BY <1>1, <1>3, <1>4, <2>1 DEF Distinct
<1>6. Members(new) = M
  <2>1. {order[k] : k \in 1..n} = {st.order[k] : k \in 1..n}
    <3> HIDE DEF order, i, j
    <3>1. \A k \in 1..n : \E l \in 1..n : order[k] = st.order[l]
      BY <1>1, <1>4
    <3>2. \A k \in 1..n : \E l \in 1..n : st.order[k] = order[l]
      BY <1>1, <1>4
    <3> QED
      BY <3>1, <3>2, SMTT(40)
  <2>2. Members(st) = M /\ DOMAIN st.order = 1..n
    BY WorkFieldsOf
  <2>3. new.order = order /\ DOMAIN order = 1..n
    BY <1>3 DEF WorkRec
  <2> HIDE DEF new, order
  <2> QED
    BY <2>1, <2>2, <2>3 DEF Members, ToSet
<1>7. Sharing(new)
  <2>1. \A t \in Servers : t \in M /\ t \notin st.dead => st.dyn[t] > 0
    BY WorkFieldsOf DEF Sharing
  <2>2. st.dyn \in Counts
    BY WorkFieldsOf
  <2> HIDE DEF order, s
  <2> QED
    BY <1>1, <1>6, <2>1, <2>2 DEF Sharing, Counts, WorkRec
<1>8. dyn \in Counts /\ dead \in SUBSET Servers
  BY <1>1, WorkFieldsOf DEF Counts
<1>9. st.failed \in Counts /\ st.success \in Counts /\ i \in 1..n + 1 /\ j - 1 \in 0..n
  BY <1>1, WorkFieldsOf
<1> HIDE DEF order, dyn, dead, s, i, j
<1>10. new \in Works(n, M)
  BY <1>3, <1>5, <1>6, <1>7, <1>8, <1>9, WorkFieldsOf
<1> QED
  BY <1>2, <1>10 DEF s, i

\* One turn of the loop of _shaping_servers.
LEMMA ShapeWorks ==
  ASSUME NEW n \in Nat, NEW M \in SUBSET Servers, NEW st \in Works(n, M), st.begin <= st.end,
         NEW base, NEW dec
  PROVE  Shape(st, base, dec) \in Works(n, M)
<1> DEFINE s == st.order[st.begin]
           ok == st.success[s]
           total == ok + st.failed[s]
           good == ok * base[2] >= base[1] * total
           lowered == (st.dyn[s] * ok * ok) \div (total * total)
           raised == st.dyn[s] + Largest(1, Percent(WeightStatic, WeightIncr))
           better == IF s \in st.dead THEN Resumed ELSE Smallest(WeightStatic, raised)
<1>1. /\ s \in Servers /\ s \in M
      /\ st.dyn \in Counts /\ st.dead \subseteq Servers
      /\ \A t \in M : t \notin st.dead => st.dyn[t] > 0
  <2>1. st.begin \in 1..n /\ st.order \in [1..n -> Servers] /\ Members(st) = M
    BY WorkFieldsOf
  <2>2. s \in Members(st)
    BY <2>1 DEF Members, ToSet
  <2> QED
    BY <2>1, <2>2, WorkFieldsOf DEF Sharing
<1>2. st.dyn[s] \in Nat /\ ok \in Nat /\ total \in Nat
  <2>1. st.success \in Counts /\ st.failed \in Counts
    BY WorkFieldsOf
  <2> QED
    BY <1>1, <2>1 DEF Counts
<1>3. Kill(st, s) \in Works(n, M)
  BY ToEndWorks
<1>4. Stay(st) \in Works(n, M)
  <2>1. Weigh(st, st.dead, st.dyn) = st
    <3>1. st = WorkRec(st.order, st.dyn, st.dead, st.failed, st.success, st.begin, st.end)
      BY WorkFieldsOf
    <3>2. Weigh(st, st.dead, st.dyn)
            = WorkRec(st.order, st.dyn, st.dead, st.failed, st.success, st.begin, st.end)
      BY <3>1, TwoFields
    <3> QED
      BY <3>1, <3>2
  <2>2. Stay(Weigh(st, st.dead, st.dyn)) \in Works(n, M)
    BY <1>1, StayWorks
  <2> QED
    BY <2>1, <2>2
<1>5. Stay([st EXCEPT !.dead = @ \ {s}, !.dyn[s] = better]) \in Works(n, M)
  <2> DEFINE dead == st.dead \ {s}
             dyn == [st.dyn EXCEPT ![s] = better]
  <2>1. better \in Nat \ {0}
    BY <1>2, Weights
  <2>2. dyn \in Counts /\ \A t \in M : t \notin dead => dyn[t] > 0
    <3> HIDE DEF better
    <3> QED
      BY <1>1, <2>1 DEF Counts
  <2>3. dead \in SUBSET Servers
    BY <1>1
  <2>4. [st EXCEPT !.dead = @ \ {s}, !.dyn[s] = better] = Weigh(st, dead, dyn)
    <3> HIDE DEF better, s
    <3>1. [st EXCEPT !.dead = @ \ {s}, !.dyn[s] = better]
            = [st EXCEPT !.dead = dead,
                         !.dyn = [[st EXCEPT !.dead = dead].dyn EXCEPT ![s] = better]]
      OBVIOUS
    <3>2. [st EXCEPT !.dead = dead].dyn = st.dyn
      BY WorkFieldsOf DEF WorkRec
    <3> QED
      BY <3>1, <3>2 DEF Weigh
  <2> HIDE DEF dead, dyn
  <2>5. Stay(Weigh(st, dead, dyn)) \in Works(n, M)
    BY <2>2, <2>3, StayWorks
  <2> QED
    BY <2>4, <2>5
<1>6. ASSUME total > 0, lowered # 0
      PROVE  Stay([st EXCEPT !.dyn[s] = lowered]) \in Works(n, M)
  <2> DEFINE dyn == [st.dyn EXCEPT ![s] = lowered]
  <2>1. lowered \in Nat \ {0}
    <3>1. st.dyn[s] * ok * ok \in Nat /\ total * total \in Nat /\ total * total > 0
      <4> HIDE DEF total, ok
      <4> QED
        BY <1>2, <1>6
    <3> DEFINE a == st.dyn[s] * ok * ok
               b == total * total
    <3> HIDE DEF a, b
    <3>2. a \div b \in Nat
      BY <3>1, Quotient DEF a, b
    <3> QED
      BY <1>6, <3>2 DEF a, b
  <2> HIDE DEF lowered
  <2>2. dyn \in Counts /\ \A t \in M : t \notin st.dead => dyn[t] > 0
    BY <1>1, <2>1 DEF Counts
  <2>3. [st EXCEPT !.dyn[s] = lowered] = Weigh(st, st.dead, dyn)
    <3> HIDE DEF s
    <3>1. [st EXCEPT !.dead = st.dead] = st
      <4>1. st = WorkRec(st.order, st.dyn, st.dead, st.failed, st.success, st.begin, st.end)
        BY WorkFieldsOf
      <4> QED
        BY <4>1, WorkFields
    <3>2. Weigh(st, st.dead, dyn) = [[st EXCEPT !.dead = st.dead] EXCEPT !.dyn = dyn]
      BY DEF Weigh
    <3> QED
      BY <3>1, <3>2
  <2> HIDE DEF dyn
  <2>4. Stay(Weigh(st, st.dead, dyn)) \in Works(n, M)
    BY <1>1, <2>2, StayWorks
  <2> QED
    BY <2>3, <2>4, SMTT(40)
<1> DEFINE up == [st EXCEPT !.dead = @ \ {s}, !.dyn[s] = better]
           down == [st EXCEPT !.dyn[s] = lowered]
<1>7. Shape(st, base, dec)
        = CASE total = 0 /\ s \in st.dead -> Kill(st, s)
            [] total = 0 /\ s \notin st.dead -> Stay(st)
            [] total > 0 /\ good -> Stay(up)
            [] total > 0 /\ ~good /\ ok = 0 -> Kill(st, s)
            [] total > 0 /\ ~good /\ ok > 0 ->
                 IF ~dec THEN Stay(st) ELSE IF lowered = 0 THEN Kill(st, s) ELSE Stay(down)
  BY DEF Shape
<1>8. total = 0 \/ total > 0
  BY <1>2
<1>9. ok = 0 \/ ok > 0
  BY <1>2
<1>10. (total = 0) => ~(total > 0)
  BY <1>2
<1>11. (ok = 0) => ~(ok > 0)
  BY <1>2
<1> HIDE DEF up, down, better, lowered, total, ok, good, s
<1>12. Stay(up) \in Works(n, M)
  BY <1>5 DEF up
<1>13. total > 0 /\ lowered # 0 => Stay(down) \in Works(n, M)
  BY <1>6 DEF down
<1>14. CASE total = 0
  BY <1>3, <1>4, <1>7, <1>10, <1>14
<1>15. CASE total > 0 /\ good
  BY <1>7, <1>10, <1>12, <1>15
<1>16. CASE total > 0 /\ ~good /\ ok = 0
  BY <1>3, <1>7, <1>10, <1>11, <1>16
<1>17. CASE total > 0 /\ ~good /\ ok > 0
  BY <1>3, <1>4, <1>7, <1>10, <1>11, <1>13, <1>17
<1> QED
  BY <1>8, <1>9, <1>14, <1>15, <1>16, <1>17

-----------------------------------------------------------------------------
(* The private memory, and handle_node_events for one server.              *)

\* The private memory of update_config.
PrivateRec(order, dyn, dead, base, low, bad, won, lower) ==
  [order |-> order, dyn |-> dyn, dead |-> dead, base |-> base, low |-> low,
   failed |-> bad, success |-> won, lower |-> lower]

PrivateRecords ==
  [order : Seq(Servers), dyn : Counts, dead : SUBSET Servers, base : Counts, low : Nat,
   failed : Counts, success : Counts, lower : Nat]
Tables == {c \in PrivateRecords : Distinct(c.order) /\ Sharing(c)}

\* The fields of the private memory, and a record put together from them.
LEMMA PrivateFieldsOf ==
  ASSUME NEW c
  PROVE  /\ c \in PrivateRecords =>
              /\ c.order \in Seq(Servers) /\ c.dyn \in Counts /\ c.dead \subseteq Servers
              /\ c.base \in Counts /\ c.low \in Nat
              /\ c.failed \in Counts /\ c.success \in Counts /\ c.lower \in Nat
              /\ c = PrivateRec(c.order, c.dyn, c.dead, c.base, c.low, c.failed, c.success, c.lower)
         /\ \A order \in Seq(Servers), dyn \in Counts, dead \in SUBSET Servers,
               base \in Counts, low \in Nat, bad \in Counts, won \in Counts, lower \in Nat :
              PrivateRec(order, dyn, dead, base, low, bad, won, lower) \in PrivateRecords
  BY DEF PrivateRecords, PrivateRec

\* The fields of such a record.
LEMMA PrivateFields ==
  ASSUME NEW order, NEW dyn, NEW dead, NEW base, NEW low, NEW bad, NEW won, NEW lower,
         NEW c, c = PrivateRec(order, dyn, dead, base, low, bad, won, lower)
  PROVE  /\ c.order = order /\ c.dyn = dyn /\ c.dead = dead /\ c.base = base /\ c.low = low
         /\ c.failed = bad /\ c.success = won /\ c.lower = lower
  BY DEF PrivateRec

\* Weigh changes two of them.
LEMMA WeighPrivate ==
  ASSUME NEW order, NEW dyn, NEW dead, NEW base, NEW low, NEW bad, NEW won, NEW lower,
         NEW c, c = PrivateRec(order, dyn, dead, base, low, bad, won, lower),
         NEW dead2, NEW dyn2
  PROVE  Weigh(c, dead2, dyn2) = PrivateRec(order, dyn2, dead2, base, low, bad, won, lower)
<1> DEFINE u == [c EXCEPT !.dead = dead2]
<1>1. u = PrivateRec(order, dyn, dead2, base, low, bad, won, lower)
  BY DEF PrivateRec
<1>2. Weigh(c, dead2, dyn2) = [u EXCEPT !.dyn = dyn2]
  BY DEF Weigh
<1> HIDE DEF u
<1> QED
  BY <1>1, <1>2 DEF PrivateRec

\* Forget clears the counts of one server.
LEMMA ForgetPrivate ==
  ASSUME NEW order, NEW dyn, NEW dead, NEW base, NEW low, NEW bad, NEW won, NEW lower,
         NEW c, c = PrivateRec(order, dyn, dead, base, low, bad, won, lower), NEW s
  PROVE  Forget(c, s) = PrivateRec(order, dyn, dead, base, low,
                           ZeroAt(bad, s), ZeroAt(won, s), lower)
<1> DEFINE x == ZeroAt(won, s)
           y == ZeroAt(bad, s)
           u == [c EXCEPT !.success = [c.success EXCEPT ![s] = 0]]
<1>1. u = [c EXCEPT !.success = x]
  BY PrivateFields DEF ZeroAt
<1>2. Forget(c, s) = [u EXCEPT !.failed = [u.failed EXCEPT ![s] = 0]]
  BY DEF Forget
<1> HIDE DEF u, x, y
<1>3. u = PrivateRec(order, dyn, dead, base, low, bad, x, lower)
  BY <1>1 DEF PrivateRec
<1>4. u.failed = bad
  BY <1>3, PrivateFields
<1>5. Forget(c, s) = [u EXCEPT !.failed = y]
  BY <1>2, <1>4 DEF y, ZeroAt
<1>6. Forget(c, s) = PrivateRec(order, dyn, dead, base, low, y, x, lower)
  BY <1>3, <1>5 DEF PrivateRec
<1> QED
  BY <1>6 DEF x, y

\* The event of one server leaves every live server its share.
LEMMA EventTables ==
  ASSUME NEW c \in Tables, NEW s \in Servers
  PROVE  OnEvent(c, s) \in Tables
<1>1. /\ c \in PrivateRecords /\ Distinct(c.order)
      /\ \A t \in Servers : t \in Members(c) /\ t \notin c.dead => c.dyn[t] > 0
  BY DEF Tables, Sharing
<1>2. /\ c.order \in Seq(Servers) /\ c.dyn \in Counts /\ c.dead \subseteq Servers
      /\ c.base \in Counts /\ c.low \in Nat
      /\ c.failed \in Counts /\ c.success \in Counts /\ c.lower \in Nat
      /\ c = PrivateRec(c.order, c.dyn, c.dead, c.base, c.low, c.failed, c.success, c.lower)
  BY <1>1, PrivateFieldsOf
<1>3. \A f \in Counts : ZeroAt(f, s) \in Counts
  BY DEF ZeroAt, Counts
<1>4. ASSUME NEW dead \in SUBSET Servers, NEW dyn \in Counts,
             \A t \in Members(c) : t \notin dead => dyn[t] > 0
      PROVE  Forget(Weigh(c, dead, dyn), s) \in Tables
  <2> DEFINE new == PrivateRec(c.order, dyn, dead, c.base, c.low,
                       ZeroAt(c.failed, s), ZeroAt(c.success, s), c.lower)
             u == Weigh(c, dead, dyn)
  <2>1. u = PrivateRec(c.order, dyn, dead, c.base, c.low, c.failed, c.success, c.lower)
    BY <1>2, WeighPrivate
  <2> HIDE DEF u
  <2>2. Forget(u, s) = new
    BY <2>1, ForgetPrivate
  <2>3. new \in PrivateRecords
    BY <1>2, <1>3, <1>4, PrivateFieldsOf
  <2>4. Distinct(new.order) /\ Sharing(new)
    BY <1>1, <1>4 DEF PrivateRec, Sharing, Members
  <2> HIDE DEF new
  <2> QED
    BY <2>2, <2>3, <2>4 DEF Tables, u
<1>5. Forget(c, s) \in Tables
  <2>1. Weigh(c, c.dead, c.dyn) = c
    <3>1. Weigh(c, c.dead, c.dyn)
            = PrivateRec(c.order, c.dyn, c.dead, c.base, c.low, c.failed, c.success, c.lower)
      BY <1>2, WeighPrivate
    <3> QED
      BY <1>2, <3>1
  <2>2. \A t \in Members(c) : t \in Servers
    BY <1>2, LenProperties, ElementOfSeq DEF Members, ToSet
  <2>3. Forget(Weigh(c, c.dead, c.dyn), s) \in Tables
    BY <1>1, <1>2, <1>4, <2>2
  <2> QED
    BY <2>1, <2>3
<1> DEFINE off == [c EXCEPT !.dead = @ \cup {s}, !.dyn[s] = 0]
           on == [c EXCEPT !.dead = @ \ {s}, !.dyn[s] = Resumed]
<1>6. Forget(off, s) \in Tables
  <2> DEFINE dead == c.dead \cup {s}
             dyn == [c.dyn EXCEPT ![s] = 0]
  <2>1. off = Weigh(c, dead, dyn)
    <3>1. off = [c EXCEPT !.dead = dead, !.dyn = [[c EXCEPT !.dead = dead].dyn EXCEPT ![s] = 0]]
      OBVIOUS
    <3>2. [c EXCEPT !.dead = dead].dyn = c.dyn
      BY <1>2 DEF PrivateRec
    <3> QED
      BY <3>1, <3>2 DEF Weigh
  <2>2. dyn \in Counts /\ dead \in SUBSET Servers
    BY <1>2 DEF Counts
  <2>3. \A t \in Members(c) : t \notin dead => dyn[t] > 0
    <3>1. \A t \in Members(c) : t \in Servers
      BY <1>2, LenProperties, ElementOfSeq DEF Members, ToSet
    <3> QED
      BY <1>1, <1>2, <3>1 DEF Counts
  <2> HIDE DEF off, dead, dyn
  <2>4. Forget(Weigh(c, dead, dyn), s) \in Tables
    BY <1>4, <2>2, <2>3
  <2> QED
    BY <2>1, <2>4
<1>7. Forget(on, s) \in Tables
  <2> DEFINE dead == c.dead \ {s}
             dyn == [c.dyn EXCEPT ![s] = Resumed]
  <2>1. on = Weigh(c, dead, dyn)
    <3>1. on = [c EXCEPT !.dead = dead,
                         !.dyn = [[c EXCEPT !.dead = dead].dyn EXCEPT ![s] = Resumed]]
      OBVIOUS
    <3>2. [c EXCEPT !.dead = dead].dyn = c.dyn
      BY <1>2 DEF PrivateRec
    <3> QED
      BY <3>1, <3>2 DEF Weigh
  <2>0. Resumed \in Nat \ {0}
    BY Weights
  <2>2. dyn \in Counts /\ dead \in SUBSET Servers
    BY <1>2, <2>0 DEF Counts
  <2>3. \A t \in Members(c) : t \notin dead => dyn[t] > 0
    <3>1. \A t \in Members(c) : t \in Servers
      BY <1>2, LenProperties, ElementOfSeq DEF Members, ToSet
    <3> QED
      BY <1>1, <1>2, <2>0, <3>1 DEF Counts
  <2> HIDE DEF on, dead, dyn
  <2>4. Forget(Weigh(c, dead, dyn), s) \in Tables
    BY <1>4, <2>2, <2>3
  <2> QED
    BY <2>1, <2>4
<1> DEFINE res == OnEvent(c, s)
<1>8. res \in {c, Forget(off, s), Forget(c, s), Forget(on, s)}
  <2> DEFINE a == Forget(off, s)
             b == Forget(on, s)
  <2>1. res = CASE s \notin Members(c) \/ events[s] = "none" -> c
                [] events[s] = "dead" /\ RealDead(c, s) -> a
                [] events[s] = "dead" /\ ~RealDead(c, s) -> Forget(c, s)
                [] events[s] = "resume" /\ s \in c.dead -> b
                [] OTHER -> c
    BY DEF OnEvent
  <2> HIDE DEF res, a, b, off, on
  <2>2. res \in {c, a, Forget(c, s), b}
    BY <2>1
  <2> QED
    BY <2>2 DEF a, b
<1> HIDE DEF res, off, on
<1> QED
  BY <1>5, <1>6, <1>7, <1>8 DEF res

\* SetToSeq lists the servers.
LEMMA ListServers ==
  /\ Cardinality(Servers) \in Nat
  /\ SetToSeq(Servers) \in [1..Cardinality(Servers) -> Servers]
<1>1. IsFiniteSet(Servers)
  BY RoutesAssumption
<1>2. Cardinality(Servers) \in Nat /\ ExistsBijection(1..Cardinality(Servers), Servers)
  BY <1>1, FS_CardinalityType
<1>3. \E f \in [1..Cardinality(Servers) -> Servers] : IsInjective(f)
  BY <1>2 DEF ExistsBijection, Bijection, Injection, IsInjective
<1> QED
  BY <1>2, <1>3 DEF SetToSeq

\* handle_node_events, for every server.
LEMMA EventsTables ==
  ASSUME NEW c \in Tables
  PROVE  HandleEvents(c) \in Tables
<1> DEFINE q == SetToSeq(Servers)
           n == Cardinality(Servers)
           Is(it) == it = [s \in SUBSET (DOMAIN q) |->
                             IF s = {} THEN c ELSE OnEvent(it[s \ {Max(s)}], q[Max(s)])]
           f == CHOOSE it : Is(it)
<1>1. HandleEvents(c) = f[DOMAIN q]
  BY DEF HandleEvents, FoldLeft, MapThenFoldSet
<1>2. n \in Nat /\ q \in [1..n -> Servers]
  BY ListServers
<1> HIDE DEF q, n
<1>3. DOMAIN q = 1..n
  BY <1>2
<1>4. \E it : Is(it)
  <2> DEFINE g == [p \in Tables \X (1..n) |-> OnEvent(p[1], q[p[2]])]
  <2>1. g \in [Tables \X (1..n) -> Tables]
    <3>1. ASSUME NEW p \in Tables \X (1..n) PROVE OnEvent(p[1], q[p[2]]) \in Tables
      <4>1. p[1] \in Tables /\ p[2] \in 1..n
        OBVIOUS
      <4>2. q[p[2]] \in Servers
        BY <1>2, <4>1
      <4> QED
        BY <4>1, <4>2, EventTables
    <3> QED
      BY <3>1
  <2> HIDE DEF g
  <2>2. PICK it \in [SUBSET (1..n) -> Tables] : Folds(it, n, c, g)
    BY <1>2, <2>1, FoldExists
  <2>3. ASSUME NEW s \in SUBSET (1..n), s # {}
        PROVE  g[<<it[s \ {Max(s)}], Max(s)>>] = OnEvent(it[s \ {Max(s)}], q[Max(s)])
    <3>1. Max(s) \in 1..n
      BY <1>2, <2>3, MaxIn
    <3>2. it[s \ {Max(s)}] \in Tables
      OBVIOUS
    <3>3. <<it[s \ {Max(s)}], Max(s)>> \in Tables \X (1..n)
      BY <3>1, <3>2
    <3> QED
      BY <3>3 DEF g
  <2>4. Is(it)
    BY <1>3, <2>2, <2>3 DEF Folds
  <2> QED
    BY <2>4
<1>5. Is(f)
  BY <1>4
<1> HIDE DEF f
<1> DEFINE T == {k \in 0..n : f[1..k] \in Tables}
<1>6. 0 \in T
  <2>1. 1..0 = {} /\ 0 \in 0..n
    BY <1>2
  <2>2. f[1..0] = c
    BY <1>3, <1>5, <2>1
  <2> QED
    BY <2>1, <2>2
<1>7. ASSUME NEW k \in 0..n - 1, k \in T PROVE k + 1 \in T
  <2>1. k + 1 \in 1..n /\ k + 1 - 1 = k /\ k + 1 \in 0..n
    BY <1>2
  <2>2. /\ 1..k + 1 \in SUBSET (1..n) /\ 1..k + 1 # {} /\ Max(1..k + 1) = k + 1
        /\ (1..k + 1) \ {k + 1} = 1..k
    <3>1. /\ 1..k + 1 \in SUBSET (1..n) /\ 1..k + 1 # {} /\ Max(1..k + 1) = k + 1
          /\ (1..k + 1) \ {k + 1} = 1..k + 1 - 1
      BY <1>2, <2>1, Prefix
    <3> QED
      BY <2>1, <3>1
  <2>3. f[1..k + 1] = OnEvent(f[(1..k + 1) \ {k + 1}], q[k + 1])
    BY <1>3, <1>5, <2>2
  <2>4. f[1..k] \in Tables /\ q[k + 1] \in Servers
    BY <1>2, <1>7, <2>1
  <2> QED
    BY <2>1, <2>2, <2>3, <2>4, EventTables
<1> HIDE DEF T
<1>8. n \in T
  <2>1. n \in 0..n
    BY <1>2
  <2>2. \A k \in 0..n : k \in T
    BY <1>2, <1>6, <1>7, Climb
  <2> QED
    BY <2>1, <2>2
<1> QED
  BY <1>1, <1>3, <1>8 DEF T

-----------------------------------------------------------------------------
(* _shaping_servers: the whole loop.                                       *)

Shaped(c, order, dyn, dead, low) ==
  [c EXCEPT !.order = order, !.dyn = dyn, !.dead = dead, !.low = low]

\* The four fields that the shaping writes back.
LEMMA ShapedPrivate ==
  ASSUME NEW order, NEW dyn, NEW dead, NEW base, NEW low, NEW bad, NEW won, NEW lower,
         NEW c, c = PrivateRec(order, dyn, dead, base, low, bad, won, lower),
         NEW order2, NEW dyn2, NEW dead2, NEW low2
  PROVE  Shaped(c, order2, dyn2, dead2, low2)
           = PrivateRec(order2, dyn2, dead2, base, low2, bad, won, lower)
<1> DEFINE u == [c EXCEPT !.order = order2]
           v == [u EXCEPT !.dyn = dyn2]
           w == [v EXCEPT !.dead = dead2]
<1>1. u = PrivateRec(order2, dyn, dead, base, low, bad, won, lower)
  BY DEF PrivateRec
<1>2. Shaped(c, order2, dyn2, dead2, low2) = [w EXCEPT !.low = low2]
  BY DEF Shaped
<1>3. v = PrivateRec(order2, dyn2, dead, base, low, bad, won, lower)
  <2> HIDE DEF u
  <2> QED
    BY <1>1 DEF PrivateRec
<1>4. w = PrivateRec(order2, dyn2, dead2, base, low, bad, won, lower)
  <2> HIDE DEF v
  <2> QED
    BY <1>3 DEF PrivateRec
<1> HIDE DEF w
<1> QED
  BY <1>2, <1>4 DEF PrivateRec

\* The members of a table are servers.
LEMMA MembersIn ==
  ASSUME NEW c, c.order \in Seq(Servers)
  PROVE  Members(c) \subseteq Servers
  BY LenProperties, ElementOfSeq DEF Members, ToSet

\* The servers with a low weight are counted.
LEMMA LowNumNat ==
  ASSUME NEW st, Members(st) \subseteq Servers
  PROVE  LowNum(st) \in Nat
<1> DEFINE low == {s \in Members(st) : st.dyn[s] * 100 < WeightStatic * LowWatermark}
<1>1. low \in SUBSET Servers
  OBVIOUS
<1> HIDE DEF low
<1>2. IsFiniteSet(low)
  BY <1>1, RoutesAssumption, FS_Subset
<1>3. Cardinality(low) \in Nat
  BY <1>2, FS_CardinalityType
<1> QED
  BY <1>3 DEF LowNum, low

\* _shaping_servers: the loop over the table.
Loop(start, n, base, dec) ==
  FoldLeft(LAMBDA st, i : IF st.begin <= st.end THEN Shape(st, base, dec) ELSE st,
           start, [i \in 1..n |-> i])

\* The loop of _shaping_servers keeps what each of its turns keeps.
LEMMA LoopWorks ==
  ASSUME NEW n \in Nat, NEW M \in SUBSET Servers, NEW start \in Works(n, M), NEW base, NEW dec
  PROVE  Loop(start, n, base, dec) \in Works(n, M)
<1> DEFINE Turn(st) == IF st.begin <= st.end THEN Shape(st, base, dec) ELSE st
           q == [i \in 1..n |-> i]
           Is(it) == it = [s \in SUBSET (DOMAIN q) |->
                             IF s = {} THEN start ELSE Turn(it[s \ {Max(s)}])]
           f == CHOOSE it : Is(it)
<1>1. Loop(start, n, base, dec) = f[DOMAIN q]
  BY DEF Loop, FoldLeft, MapThenFoldSet
<1>2. \A st \in Works(n, M) : Turn(st) \in Works(n, M)
  BY ShapeWorks
<1> HIDE DEF Turn
<1>3. DOMAIN q = 1..n
  OBVIOUS
<1>4. \E it : Is(it)
  <2> DEFINE W == Works(n, M)
             g == [p \in W \X (1..n) |-> Turn(p[1])]
  <2> HIDE DEF W
  <2>1. g \in [W \X (1..n) -> W]
    <3>1. ASSUME NEW p \in W \X (1..n) PROVE Turn(p[1]) \in W
      <4>1. p[1] \in W
        OBVIOUS
      <4> QED
        BY <1>2, <4>1 DEF W
    <3> QED
      BY <3>1
  <2>2. start \in W
    BY DEF W
  <2> HIDE DEF g
  <2>3. PICK it \in [SUBSET (1..n) -> W] : Folds(it, n, start, g)
    BY <2>1, <2>2, FoldExists
  <2>4. ASSUME NEW s \in SUBSET (1..n), s # {}
        PROVE  g[<<it[s \ {Max(s)}], Max(s)>>] = Turn(it[s \ {Max(s)}])
    <3>1. Max(s) \in 1..n
      BY <2>4, MaxIn
    <3>2. it[s \ {Max(s)}] \in W
      OBVIOUS
    <3>3. <<it[s \ {Max(s)}], Max(s)>> \in W \X (1..n)
      BY <3>1, <3>2
    <3> QED
      BY <3>3 DEF g
  <2>5. Is(it)
    BY <1>3, <2>3, <2>4 DEF Folds
  <2> QED
    BY <2>5
<1>5. Is(f)
  BY <1>4
<1> HIDE DEF f, q
<1> DEFINE T == {k \in 0..n : f[1..k] \in Works(n, M)}
<1>6. 0 \in T
  <2>1. 1..0 = {} /\ 0 \in 0..n
    OBVIOUS
  <2>2. f[1..0] = start
    BY <1>3, <1>5, <2>1
  <2> QED
    BY <2>1, <2>2
<1>7. ASSUME NEW k \in 0..n - 1, k \in T PROVE k + 1 \in T
  <2>1. k + 1 \in 1..n /\ k + 1 - 1 = k /\ k + 1 \in 0..n
    OBVIOUS
  <2>2. /\ 1..k + 1 \in SUBSET (1..n) /\ 1..k + 1 # {} /\ Max(1..k + 1) = k + 1
        /\ (1..k + 1) \ {k + 1} = 1..k
    <3>1. /\ 1..k + 1 \in SUBSET (1..n) /\ 1..k + 1 # {} /\ Max(1..k + 1) = k + 1
          /\ (1..k + 1) \ {k + 1} = 1..k + 1 - 1
      BY <2>1, Prefix
    <3> QED
      BY <2>1, <3>1
  <2>3. f[1..k + 1] = Turn(f[(1..k + 1) \ {k + 1}])
    BY <1>3, <1>5, <2>2
  <2>4. f[1..k] \in Works(n, M)
    BY <1>7
  <2> QED
    BY <1>2, <2>1, <2>2, <2>3, <2>4
<1> HIDE DEF T
<1>8. n \in T
  <2>1. n \in 0..n
    OBVIOUS
  <2>2. \A k \in 0..n : k \in T
    BY <1>6, <1>7, Climb
  <2> QED
    BY <2>1, <2>2
<1> QED
  BY <1>1, <1>3, <1>8 DEF T

\* _shaping_servers leaves every live server its share.
LEMMA ShapingTables ==
  ASSUME NEW c \in Tables
  PROVE  Shaping(c) \in Tables
<1> DEFINE num == Len(c.order)
           M == Members(c)
           dec == c.low * 100 <= LowRatio * num
           base == IF dec THEN <<SuccessBase, 100>> ELSE AverageBase(c)
           start == [order |-> c.order, dyn |-> c.dyn, dead |-> c.dead,
                     failed |-> c.failed, success |-> c.success, begin |-> 1, end |-> num]
           shaped == Loop(start, num, base, dec)
           new == Shaped(c, shaped.order, shaped.dyn, shaped.dead, LowNum(shaped))
<1>1. Shaping(c) = IF num = 0 THEN c ELSE new
  BY DEF Shaping, Loop, Shaped
<1>2. /\ c.order \in Seq(Servers) /\ c.dyn \in Counts /\ c.dead \subseteq Servers
      /\ c.base \in Counts /\ c.low \in Nat
      /\ c.failed \in Counts /\ c.success \in Counts /\ c.lower \in Nat
      /\ c = PrivateRec(c.order, c.dyn, c.dead, c.base, c.low, c.failed, c.success, c.lower)
      /\ Distinct(c.order) /\ Sharing(c)
  BY PrivateFieldsOf DEF Tables
<1>3. num \in Nat /\ DOMAIN c.order = 1..num /\ c.order \in [1..num -> Servers]
  BY <1>2, LenProperties
<1>4. M \in SUBSET Servers
  BY <1>2, MembersIn
<1>5. start \in Works(num, M)
  <2>1. start = WorkRec(c.order, c.dyn, c.dead, c.failed, c.success, 1, num)
    BY DEF WorkRec
  <2>2. Members(start) = M /\ Sharing(start)
    BY <1>2 DEF Members, Sharing
  <2> DEFINE n == num
  <2> HIDE DEF start, M, num
  <2>3. 1 \in 1..num + 1 /\ num \in 0..num
    BY <1>3
  <2> QED
    BY <1>2, <1>3, <2>1, <2>2, <2>3, WorkFieldsOf
<1> HIDE DEF base, dec, start
<1>6. shaped \in Works(num, M)
  <2> HIDE DEF num, M
  <2> QED
    BY <1>3, <1>4, <1>5, LoopWorks
<1> HIDE DEF shaped
<1>7. /\ shaped.order \in [1..num -> Servers] /\ shaped.dyn \in Counts
      /\ shaped.dead \subseteq Servers /\ Distinct(shaped.order)
      /\ Members(shaped) = M /\ Sharing(shaped)
  <2> HIDE DEF num, M
  <2> QED
    BY <1>3, <1>6, WorkFieldsOf
<1>8. shaped.order \in Seq(Servers)
  BY <1>3, <1>7
<1>9. LowNum(shaped) \in Nat
  BY <1>4, <1>7, LowNumNat
<1>10. new = PrivateRec(shaped.order, shaped.dyn, shaped.dead, c.base, LowNum(shaped),
                c.failed, c.success, c.lower)
  BY <1>2, ShapedPrivate
<1> HIDE DEF new
<1>11. new \in PrivateRecords
  BY <1>2, <1>7, <1>8, <1>9, <1>10, PrivateFieldsOf
<1>12. new.order = shaped.order /\ new.dyn = shaped.dyn /\ new.dead = shaped.dead
  BY <1>10, PrivateFields
<1>13. new \in Tables
  BY <1>7, <1>11, <1>12 DEF Tables, Sharing, Members
<1> QED
  BY <1>1, <1>13

-----------------------------------------------------------------------------
(* calc_servers_weight, and the order of a configuration.                  *)

\* The bases are naturals.
LEMMA BasesCounts ==
  ASSUME NEW c, c.order \in Seq(Servers), c.dyn \in Counts
  PROVE  Bases(c) \in Counts
<1> DEFINE n == Len(c.order)
           At(s) == CHOOSE i \in 1..Live(c) : c.order[i] = s
<1>1. n \in Nat /\ Live(c) \in 0..n
  BY LiveBefore, LenProperties
<1>2. PICK P : Sums(c, P)
  BY SumsExist DEF Counts
<1>3. \A i \in 1..n + 1 : BaseOf(c, i) = P[i - 1]
  BY <1>2, BaseSums DEF Counts
<1>4. ASSUME NEW s \in Servers, \E i \in 1..Live(c) : c.order[i] = s
      PROVE  BaseOf(c, At(s)) \in Nat
  <2>1. At(s) \in 1..Live(c)
    BY <1>4
  <2> HIDE DEF At
  <2>2. At(s) \in 1..n + 1 /\ At(s) - 1 \in 0..n
    BY <1>1, <2>1
  <2>3. P[At(s) - 1] \in Nat
    BY <2>2, <1>2 DEF Sums
  <2> QED
    BY <1>3, <2>2, <2>3
<1> QED
  BY <1>4 DEF Bases, Counts

\* A finite set of addresses can be listed in order.
Ordered(order) == \A i, j \in DOMAIN order : i < j => order[i] < order[j]

\* Every finite set of addresses has such a list: its least address comes first.
LEMMA OrderExists ==
  ASSUME NEW n \in Nat, NEW set, set \subseteq Nat, IsFiniteSet(set), Cardinality(set) = n
  PROVE  \E order \in [1..n -> set] : Ordered(order)
<1> DEFINE T == {k \in 0..n : \A u \in SUBSET set :
                   Cardinality(u) = k => \E order \in [1..k -> u] : Ordered(order)}
<1>1. 0 \in T
  <2>1. ASSUME NEW u \in SUBSET set PROVE \E order \in [1..0 -> u] : Ordered(order)
    <3> DEFINE order == [i \in 1..0 |-> 0]
    <3>1. order \in [1..0 -> u] /\ Ordered(order)
      BY DEF Ordered
    <3> QED
      BY <3>1
  <2>2. 0 \in 0..n
    OBVIOUS
  <2> QED
    BY <2>1, <2>2
<1>2. ASSUME NEW k \in 0..n - 1, k \in T PROVE k + 1 \in T
  <2>1. k + 1 \in 0..n /\ k \in Nat
    OBVIOUS
  <2>2. ASSUME NEW u \in SUBSET set, Cardinality(u) = k + 1
        PROVE  \E order \in [1..k + 1 -> u] : Ordered(order)
    <3>1. IsFiniteSet(u) /\ u \subseteq Nat
      BY FS_Subset
    <3>2. u # {}
      BY <2>1, <2>2, FS_EmptySet
    <3>3. PICK m \in u : \A j \in u : ~(<<j, m>> \in OpToRel(<, Nat))
      BY <3>1, <3>2, WFMin, NatLessThanWellFounded
    <3>4. \A j \in u : ~(j < m)
      BY <3>1, <3>3 DEF OpToRel
    <3> DEFINE v == u \ {m}
    <3>5. v \in SUBSET set /\ Cardinality(v) = k
      <4>1. Cardinality(v) = IF m \in u THEN Cardinality(u) - 1 ELSE Cardinality(u)
        BY <3>1, FS_RemoveElement
      <4> QED
        BY <2>1, <2>2, <4>1
    <3>6. PICK o \in [1..k -> v] : Ordered(o)
      BY <1>2, <3>5
    <3> DEFINE order == [i \in 1..k + 1 |-> IF i = 1 THEN m ELSE o[i - 1]]
    <3>7. \A i \in 1..k + 1 : i # 1 => i - 1 \in 1..k
      BY <2>1
    <3>8. \A i \in 1..k : o[i] \in u /\ o[i] # m /\ m < o[i]
      <4>1. \A i \in 1..k : o[i] \in u /\ o[i] # m
        BY <3>6
      <4>2. \A j \in u : j # m => m < j
        <5>1. m \in Nat /\ \A j \in u : j \in Nat
          BY <3>1
        <5> QED
          BY <3>4, <5>1
      <4> QED
        BY <4>1, <4>2
    <3>9. order \in [1..k + 1 -> u]
      BY <3>7, <3>8
    <3>10. ASSUME NEW i \in 1..k + 1, NEW j \in 1..k + 1, i < j
           PROVE  order[i] < order[j]
      <4>1. j # 1 /\ j - 1 \in 1..k /\ order[j] = o[j - 1]
        BY <2>1, <3>7, <3>10
      <4>2. CASE i = 1
        BY <3>8, <4>1, <4>2
      <4>3. CASE i # 1
        <5>1. i - 1 \in 1..k /\ i - 1 < j - 1 /\ order[i] = o[i - 1]
          BY <2>1, <3>7, <3>10, <4>3
        <5>2. DOMAIN o = 1..k
          BY <3>6
        <5> QED
          BY <3>6, <4>1, <5>1, <5>2 DEF Ordered
      <4> QED
        BY <4>2, <4>3
    <3>11. DOMAIN order = 1..k + 1
      OBVIOUS
    <3> HIDE DEF order
    <3> QED
      BY <3>9, <3>10, <3>11 DEF Ordered
  <2> QED
    BY <2>1, <2>2
<1> HIDE DEF T
<1>3. n \in 0..n /\ \A k \in 0..n : k \in T
  BY <1>1, <1>2, Climb
<1>4. n \in T
  BY <1>3
<1> QED
  BY <1>4 DEF T

\* The order of a configuration names each of its servers once.
LEMMA ConfiguredOrder ==
  ASSUME NEW set \in SUBSET Servers
  PROVE  Configured(set) \in Seq(Servers) /\ Distinct(Configured(set))
<1> DEFINE n == Cardinality(set)
           order == Configured(set)
<1>1. IsFiniteSet(set) /\ set \subseteq Nat
  BY RoutesAssumption, FS_Subset
<1>2. n \in Nat
  BY <1>1, FS_CardinalityType
<1>3. \E o \in [1..n -> set] : Ordered(o)
  BY <1>1, <1>2, OrderExists
<1>4. order \in [1..n -> set] /\ Ordered(order)
  BY <1>3 DEF Configured, Ordered
<1> HIDE DEF order, n
<1>5. order \in Seq(Servers)
  BY <1>2, <1>4
<1>6. ASSUME NEW i \in DOMAIN order, NEW j \in DOMAIN order, order[i] = order[j] PROVE i = j
  <2>1. i \in 1..n /\ j \in 1..n /\ order[i] \in Nat /\ order[j] \in Nat
    BY <1>1, <1>4
  <2>2. i < j => order[i] < order[j]
    BY <1>4 DEF Ordered
  <2>3. j < i => order[j] < order[i]
    BY <1>4 DEF Ordered
  <2> QED
    BY <1>2, <1>6, <2>1, <2>2, <2>3
<1>7. Distinct(order)
  BY <1>6 DEF Distinct
<1> QED
  BY <1>5, <1>7 DEF order

-----------------------------------------------------------------------------
(* The invariant of the copies, the agent and the callers.                 *)

\* A caller that has looked at a copy and not let go of it.
Busy(c) == pc[c] \notin {"idle", "done"}

DataType ==
  /\ index \in 0..1
  /\ DOMAIN table = 0..1 /\ \A i \in 0..1 : Typed(table[i]) /\ Sharing(table[i])
  /\ DOMAIN head = 0..1 /\ \A i \in 0..1 : head[i].low \in Nat
  /\ failed \in [0..1 -> Counts] /\ success \in [0..1 -> Counts]
  /\ next \in PrivateRecords /\ Distinct(next.order)
  /\ agent \in [at : {"idle", "collect", "head", "table", "switch", "merge"},
                todo : Seq(Servers)]
  /\ owed \in [Servers -> Int] /\ lost \in [Servers -> Int]
  /\ at \in [Callers -> 0..1] /\ DOMAIN pc = Callers /\ DOMAIN hdr = Callers

CallersHold ==
  /\ Whole(table[Cur], head[Cur])
  /\ \A c \in Callers :
       /\ Busy(c) => Whole(table[at[c]], head[at[c]])
       /\ pc[c] \in {"draw", "cas", "search"} => hdr[c] = head[at[c]]

\* How far the agent has come.
Collecting ==
  /\ \A s \in Members(next) : s \in ToSet(agent.todo) \/ s \in next.dead \/ next.dyn[s] > 0
  /\ \A s \in Members(table[Cur]) : next.dyn[s] = table[Cur].dyn[s]
Computed == Sharing(next) /\ next.base = Bases(next) /\ next.failed = None /\ next.success = None
Copied == Whole(table[Spare], head[Spare]) /\ failed[Spare] = None /\ success[Spare] = None
Merging == Distinct(agent.todo) /\ ToSet(agent.todo) \subseteq Members(table[Cur])
Stage ==
  /\ agent.at = "collect" => Collecting
  /\ agent.at \in {"head", "table"} => Computed
  /\ agent.at = "table" => head[Spare] = HeadOf(next)
  /\ agent.at = "switch" => Copied
  /\ agent.at \in {"table", "switch"} => \A c \in Callers : Busy(c) => at[c] = Cur
  /\ agent.at = "merge" => Merging

\* The results that are still there: those reported in time but for the lost ones.
due == [s \in Servers |-> owed[s] - lost[s]]

NoneElse == \A s \in Servers : s \notin Members(table[Cur]) => due[s] = 0 /\ Count(Cur, s) = 0

\* Conserved, for what is due.
Balanced ==
  \A s \in Members(table[Cur]) :
    due[s] = Count(Cur, s) + IF agent.at = "merge" /\ s \in ToSet(agent.todo)
                                /\ s \in Members(table[Spare])
                             THEN Count(Spare, s) ELSE 0

DataInv == DataType /\ CallersHold /\ Stage /\ NoneElse /\ Balanced

-----------------------------------------------------------------------------

\* What is due changes with the results only.
LEMMA SameDue ==
  ASSUME UNCHANGED results
  PROVE  owed' = owed /\ lost' = lost /\ due' = due
  BY DEF results, due

\* What is due is a number.
LEMMA DueInt ==
  ASSUME DataType
  PROVE  due \in [Servers -> Int]
  BY DEF DataType, due

\* What a run of the agent starts from.
LEMMA PrivateValue ==
  ASSUME NEW order, NEW low, NEW lower
  PROVE  /\ Private(order) = PrivateRec(order, table[Cur].dyn, {}, None, 0, None, None, 0)
         /\ [Private(order) EXCEPT !.low = low]
              = PrivateRec(order, table[Cur].dyn, {}, None, low, None, None, 0)
         /\ [Private(order) EXCEPT !.lower = lower]
              = PrivateRec(order, table[Cur].dyn, {}, None, 0, None, None, lower)
  BY DEF Private, PrivateRec

\* add_new_service, with its table named.
LEMMA FreshIs ==
  LET c == [order |-> Configured(Servers), dyn |-> [s \in Servers |-> WeightStatic], dead |-> {},
            low |-> 0]
  IN  Fresh = [order |-> c.order, dyn |-> c.dyn, dead |-> {}, base |-> Bases(c), head |-> HeadOf(c)]
  BY DEF Fresh

\* A service starts with whole tables in which each server has a share.
LEMMA FreshHolds ==
  /\ Typed(TableOf(Fresh)) /\ Sharing(TableOf(Fresh))
  /\ Whole(TableOf(Fresh), Fresh.head) /\ Fresh.head.low = 0
<1> DEFINE c == [order |-> Configured(Servers), dyn |-> [s \in Servers |-> WeightStatic],
                 dead |-> {}, low |-> 0]
           t == TableOf(Fresh)
<1>1. Fresh = [order |-> c.order, dyn |-> c.dyn, dead |-> {}, base |-> Bases(c),
               head |-> HeadOf(c)]
  BY FreshIs
<1>2. c.order \in Seq(Servers) /\ Distinct(c.order)
  BY ConfiguredOrder
<1>3. WeightStatic \in Nat \ {0}
  BY Weights
<1>4. c.dyn \in Counts /\ \A s \in Servers : c.dyn[s] > 0
  BY <1>3 DEF Counts
<1>5. c.dead = {} /\ c.low = 0
  OBVIOUS
<1> HIDE DEF c
<1>6. /\ t.order = c.order /\ t.dyn = c.dyn /\ t.dead = c.dead /\ t.base = Bases(c)
      /\ Fresh.head = HeadOf(c)
  BY <1>1, <1>5 DEF TableOf
<1>7. Bases(c) \in Counts
  BY <1>2, <1>4, BasesCounts
<1> HIDE DEF t
<1>8. Whole(t, HeadOf(c))
  BY <1>2, <1>4, <1>6, WeightsWhole DEF Counts
<1>9. HeadOf(c).low = 0
  BY <1>5 DEF HeadOf
<1>10. Typed(t) /\ Sharing(t)
  BY <1>2, <1>4, <1>6, <1>7 DEF Typed, Sharing, Counts
<1> QED
  BY <1>6, <1>8, <1>9, <1>10 DEF t

\* The weights depend on the order, the weights and the dead servers only.
LEMMA SameBases ==
  ASSUME NEW c, NEW d, c.order \in Seq(Servers), c.dyn \in Counts,
         d.order = c.order, d.dyn = c.dyn, d.dead = c.dead
  PROVE  Bases(d) = Bases(c)
<1>1. Live(d) = Live(c)
  BY DEF Live
<1>2. PICK P : Sums(c, P)
  BY SumsExist DEF Counts
<1>3. Sums(d, P)
  BY <1>2 DEF Sums
<1>4. \A i \in 1..Len(c.order) + 1 : BaseOf(c, i) = P[i - 1]
  BY <1>2, BaseSums DEF Counts
<1>5. \A i \in 1..Len(c.order) + 1 : BaseOf(d, i) = P[i - 1]
  BY <1>3, BaseSums DEF Counts
<1>6. Live(c) \in 0..Len(c.order) /\ Len(c.order) \in Nat
  BY LiveBefore, LenProperties
<1> DEFINE At(s) == CHOOSE i \in 1..Live(c) : c.order[i] = s
<1>7. ASSUME NEW s \in Servers, \E i \in 1..Live(c) : c.order[i] = s
      PROVE  BaseOf(d, At(s)) = BaseOf(c, At(s))
  <2>1. At(s) \in 1..Live(c)
    BY <1>7
  <2> HIDE DEF At
  <2>2. At(s) \in 1..Len(c.order) + 1
    BY <1>6, <2>1
  <2> QED
    BY <1>4, <1>5, <2>2
<1>8. Bases(c) = [s \in Servers |-> IF \E i \in 1..Live(c) : c.order[i] = s
                                     THEN BaseOf(c, At(s)) ELSE 0]
  BY DEF Bases
<1>9. Bases(d) = [s \in Servers |-> IF \E i \in 1..Live(c) : c.order[i] = s
                                     THEN BaseOf(d, At(s)) ELSE 0]
  BY <1>1 DEF Bases
<1> HIDE DEF At
<1> QED
  BY <1>7, <1>8, <1>9

\* What is left to do when the first server is done.
LEMMA TailSet ==
  ASSUME NEW todo \in Seq(Servers), todo # <<>>
  PROVE  /\ Head(todo) \in Servers /\ Tail(todo) \in Seq(Servers)
         /\ Head(todo) \in ToSet(todo)
         /\ \A s : s \in ToSet(todo) <=> s = Head(todo) \/ s \in ToSet(Tail(todo))
         /\ Distinct(todo) => Distinct(Tail(todo)) /\ Head(todo) \notin ToSet(Tail(todo))
<1> DEFINE n == Len(todo)
           rest == Tail(todo)
<1>1. n \in Nat \ {0} /\ DOMAIN todo = 1..n /\ Head(todo) = todo[1]
      /\ \A i \in 1..n : todo[i] \in Servers
  BY LenProperties, ElementOfSeq, EmptySeq, HeadTailProperties
<1>2. /\ rest \in Seq(Servers) /\ Len(rest) = n - 1
      /\ \A i \in 1..Len(rest) : rest[i] = todo[i + 1]
  BY HeadTailProperties
<1>3. DOMAIN rest = 1..n - 1 /\ \A i \in 1..n - 1 : rest[i] = todo[i + 1]
  BY <1>2, LenProperties
<1> HIDE DEF n, rest
<1>4. ToSet(todo) = {todo[i] : i \in 1..n} /\ ToSet(rest) = {todo[i + 1] : i \in 1..n - 1}
  BY <1>1, <1>3 DEF ToSet
<1>5. Head(todo) \in Servers /\ Head(todo) \in ToSet(todo)
  BY <1>1, <1>4
<1>6. ASSUME NEW s
      PROVE  s \in ToSet(todo) <=> s = Head(todo) \/ s \in ToSet(rest)
  <2>1. ASSUME s \in ToSet(todo), s # Head(todo) PROVE s \in ToSet(rest)
    <3>1. PICK i \in 1..n : s = todo[i]
      BY <1>4, <2>1
    <3>2. i # 1 /\ i - 1 \in 1..n - 1 /\ i - 1 + 1 = i
      BY <1>1, <2>1, <3>1
    <3> QED
      BY <1>4, <3>1, <3>2
  <2>2. ASSUME s \in ToSet(rest) PROVE s \in ToSet(todo)
    <3>1. PICK i \in 1..n - 1 : s = todo[i + 1]
      BY <1>4, <2>2
    <3>2. i + 1 \in 1..n
      BY <1>1
    <3> QED
      BY <1>4, <3>1, <3>2
  <2> QED
    BY <1>5, <2>1, <2>2
<1>7. ASSUME Distinct(todo)
      PROVE  Distinct(rest) /\ Head(todo) \notin ToSet(rest)
  <2>1. \A i, j \in 1..n : todo[i] = todo[j] => i = j
    BY <1>1, <1>7 DEF Distinct
  <2>2. \A i \in 1..n - 1 : i + 1 \in 1..n /\ i + 1 # 1
    BY <1>1
  <2>3. Distinct(rest)
    <3>1. \A i, j \in 1..n - 1 : rest[i] = rest[j] => i + 1 = j + 1
      BY <1>3, <2>1, <2>2
    <3> QED
      BY <1>1, <1>3, <3>1 DEF Distinct
  <2>4. Head(todo) \notin ToSet(rest)
    BY <1>1, <1>4, <2>1, <2>2
  <2> QED
    BY <2>3, <2>4
<1> QED
  BY <1>2, <1>5, <1>6, <1>7 DEF rest

\* Nothing is left to do.
LEMMA EmptyTodo ==
  <<>> \in Seq(Servers) /\ Distinct(<<>>) /\ ToSet(<<>>) = {}
<1>1. DOMAIN <<>> = {}
  OBVIOUS
<1> QED
  BY <1>1 DEF Distinct, ToSet

-----------------------------------------------------------------------------
(* The agent keeps it: where a run begins and ends.                        *)

\* What holds of the copies while neither they nor the callers change.
LEMMA SameCopies ==
  ASSUME DataInv, UNCHANGED <<index, head, table, callers>>
  PROVE  /\ CallersHold'
         /\ index' \in 0..1
         /\ (DOMAIN table = 0..1 /\ \A i \in 0..1 : Typed(table[i]) /\ Sharing(table[i]))'
         /\ (DOMAIN head = 0..1 /\ \A i \in 0..1 : head[i].low \in Nat)'
         /\ (at \in [Callers -> 0..1] /\ DOMAIN pc = Callers /\ DOMAIN hdr = Callers)'
<1>1. /\ index' = index /\ head' = head /\ table' = table
      /\ pc' = pc /\ at' = at /\ hdr' = hdr
  BY DEF callers
<1>2. CallersHold'
  BY <1>1 DEF DataInv, CallersHold, Busy, Cur
<1> QED
  BY <1>1, <1>2 DEF DataInv, DataType

\* Nothing is owed or counted anew while the counts stay as they are.
LEMMA SameCounts ==
  ASSUME DataInv, UNCHANGED <<index, table, failed, success, results>>,
         agent.at # "merge", agent'.at # "merge"
  PROVE  NoneElse' /\ Balanced'
<1>1. /\ index' = index /\ table' = table /\ failed' = failed /\ success' = success
      /\ due' = due
  BY SameDue
<1>2. NoneElse'
  BY <1>1 DEF DataInv, NoneElse, Count, Cur, Members
<1>3. Balanced'
  <2>1. \A s \in Members(table[Cur]) : due[s] = Count(Cur, s) + 0
    BY DEF DataInv, Balanced
  <2> QED
    BY <1>1, <2>1 DEF Balanced, Count, Cur, Spare, Members
<1> QED
  BY <1>2, <1>3

\* Counts are naturals.
LEMMA CountNat ==
  ASSUME DataType, NEW i \in 0..1, NEW s \in Servers
  PROVE  Count(i, s) \in Nat /\ failed[i][s] \in Nat /\ success[i][s] \in Nat
  BY DEF DataType, Counts, Count

\* No results counted.
LEMMA NoneCounts ==
  None \in Counts /\ \A s \in Servers : None[s] = 0
  BY DEF None, Counts

\* The private memory before a server has been collected.
LEMMA BlankPrivate ==
  ASSUME NEW order \in Seq(Servers), NEW dyn \in Counts, NEW low \in Nat, NEW lower \in Nat
  PROVE  PrivateRec(order, dyn, {}, None, low, None, None, lower) \in PrivateRecords
<1>1. {} \in SUBSET Servers
  OBVIOUS
<1> QED
  BY <1>1, NoneCounts, PrivateFieldsOf

\* A run of the agent begins with the servers of the current copy, or those configured.
LEMMA BeginKeeps ==
  ASSUME DataInv, NEW order, NEW low \in Nat, NEW lower \in Nat,
         order \in Seq(Servers), Distinct(order),
         next' = PrivateRec(order, table[Cur].dyn, {}, None, low, None, None, lower),
         agent' = [at |-> "collect", todo |-> order],
         agent.at = "idle",
         UNCHANGED <<copies, callers, results>>
  PROVE  DataInv'
<1>1. /\ UNCHANGED <<index, head, table, callers>>
      /\ UNCHANGED <<failed, success, results>>
  BY DEF copies
<1>2. agent'.at = "collect" /\ agent'.todo = order
  OBVIOUS
<1>3. Cur \in 0..1 /\ Typed(table[Cur]) /\ table[Cur].dyn \in Counts
  BY DEF DataInv, DataType, Cur, Typed, Counts
<1>4. /\ next'.order = order /\ next'.dyn = table[Cur].dyn
      /\ next' \in PrivateRecords
  <2>1. next'.order = order /\ next'.dyn = table[Cur].dyn
    BY PrivateFields
  <2> QED
    BY <1>3, <2>1, BlankPrivate
<1>5. DataType'
  <2>1. agent' \in [at : {"idle", "collect", "head", "table", "switch", "merge"},
                    todo : Seq(Servers)]
    OBVIOUS
  <2>2. failed' = failed /\ success' = success /\ owed' = owed /\ lost' = lost
    BY <1>1, SameDue
  <2> QED
    BY <1>1, <1>4, <2>1, <2>2, SameCopies DEF DataInv, DataType
<1>6. Stage'
  <2>1. \A s \in Members(next)' : s \in ToSet(agent.todo)'
    BY <1>2, <1>4 DEF Members
  <2>2. \A s \in Members(table[Cur])' : next'.dyn[s] = (table[Cur].dyn[s])'
    BY <1>1, <1>4 DEF Cur
  <2> QED
    BY <1>2, <2>1, <2>2 DEF Stage, Collecting
<1>7. CallersHold'
  BY <1>1, SameCopies
<1>8. NoneElse' /\ Balanced'
  BY <1>1, <1>2, SameCounts
<1> QED
  BY <1>5, <1>6, <1>7, <1>8 DEF DataInv

\* An update begins with the servers there are,
LEMMA UpdateKeeps ==
  ASSUME DataInv, Update
  PROVE  DataInv'
<1>1. /\ next' = [Private(table[Cur].order) EXCEPT !.low = head[Cur].low]
      /\ agent' = [at |-> "collect", todo |-> table[Cur].order] /\ agent.at = "idle"
      /\ UNCHANGED <<copies, callers, results>>
  BY DEF Update
<1>2. /\ table[Cur].order \in Seq(Servers) /\ Distinct(table[Cur].order)
      /\ head[Cur].low \in Nat
  BY DEF DataInv, DataType, Cur, Typed
<1>3. next' = PrivateRec(table[Cur].order, table[Cur].dyn, {}, None, head[Cur].low, None, None, 0)
  BY <1>1, PrivateValue
<1> QED
  BY <1>1, <1>2, <1>3, BeginKeeps

\* a load with those of the configuration,
LEMMA LoadKeeps ==
  ASSUME DataInv, NEW set \in SUBSET Servers, Load(set)
  PROVE  DataInv'
<1> DEFINE order == Configured(set)
<1>1. /\ next' = [Private(order) EXCEPT !.lower = RequestMin]
      /\ agent' = [at |-> "collect", todo |-> order] /\ agent.at = "idle"
      /\ UNCHANGED <<copies, callers, results>>
  BY DEF Load
<1>2. order \in Seq(Servers) /\ Distinct(order) /\ RequestMin \in Nat
  BY ConfiguredOrder, RoutesAssumption
<1> HIDE DEF order
<1>3. next' = PrivateRec(order, table[Cur].dyn, {}, None, 0, None, None, RequestMin)
  BY <1>1, PrivateValue
<1> QED
  BY <1>1, <1>2, <1>3, BeginKeeps

\* The private memory is empty between two runs.
LEMMA NoneNext ==
  ASSUME DataInv, next' = Private(<<>>)
  PROVE  (next \in PrivateRecords /\ Distinct(next.order))'
<1>1. table[Cur].dyn \in Counts
  BY DEF DataInv, DataType, Cur, Typed, Counts
<1>2. next' = PrivateRec(<<>>, table[Cur].dyn, {}, None, 0, None, None, 0)
  BY PrivateValue
<1>3. next'.order = <<>>
  BY <1>2, PrivateFields
<1>4. 0 \in Nat /\ <<>> \in Seq(Servers)
  BY EmptyTodo
<1>5. next' \in PrivateRecords
  <2> DEFINE order == <<>>
             dyn == table[Cur].dyn
  <2>1. order \in Seq(Servers) /\ dyn \in Counts /\ 0 \in Nat
    BY <1>1, <1>4
  <2> HIDE DEF order, dyn
  <2>2. PrivateRec(order, dyn, {}, None, 0, None, None, 0) \in PrivateRecords
    BY <2>1, BlankPrivate
  <2> QED
    BY <1>2, <2>2 DEF order, dyn
<1> QED
  BY <1>3, <1>5, EmptyTodo

\* and both end with an empty memory.
LEMMA DoneKeeps ==
  ASSUME DataInv, Done
  PROVE  DataInv'
<1>1. /\ agent.at = "merge" /\ agent.todo = <<>>
      /\ agent' = [agent EXCEPT !.at = "idle"] /\ next' = Private(<<>>)
      /\ UNCHANGED <<copies, callers, results>>
  BY DEF Done
<1>2. /\ UNCHANGED <<index, head, table, callers>>
      /\ failed' = failed /\ success' = success
      /\ owed' = owed /\ lost' = lost /\ due' = due
      /\ index' = index /\ table' = table
  BY <1>1, SameDue DEF copies
<1>3. agent'.at = "idle" /\ agent'.todo = <<>>
      /\ agent' \in [at : {"idle", "collect", "head", "table", "switch", "merge"},
                     todo : Seq(Servers)]
  BY <1>1 DEF DataInv, DataType
<1>4. DataType'
  BY <1>1, <1>2, <1>3, SameCopies, NoneNext DEF DataInv, DataType
<1>5. Stage'
  BY <1>3 DEF Stage
<1>6. CallersHold'
  BY <1>2, SameCopies
<1>7. NoneElse'
  BY <1>2 DEF DataInv, NoneElse, Count, Cur, Members
<1>8. Balanced'
  <2>1. \A s \in Members(table[Cur]) : due[s] = Count(Cur, s) + 0
    BY <1>1, EmptyTodo DEF DataInv, Balanced
  <2> QED
    BY <1>2, <1>3, <2>1 DEF Balanced, Count, Cur, Spare, Members
<1> QED
  BY <1>4, <1>5, <1>6, <1>7, <1>8 DEF DataInv

\* A crash loses the results the merge has not reached, and leaves the rest where it is.
LEMMA CrashKeeps ==
  ASSUME DataInv, Crash
  PROVE  DataInv'
<1>1. /\ agent' = [at |-> "idle", todo |-> <<>>] /\ next' = Private(<<>>)
      /\ owed' = owed /\ lost' = [s \in Servers |-> lost[s] + Unmerged(s)]
      /\ UNCHANGED <<copies, callers>>
  BY DEF Crash
<1>2. /\ UNCHANGED <<index, head, table, callers>>
      /\ failed' = failed /\ success' = success
      /\ index' = index /\ table' = table
  BY <1>1 DEF copies
<1>3. agent'.at = "idle"
      /\ agent' \in [at : {"idle", "collect", "head", "table", "switch", "merge"},
                     todo : Seq(Servers)]
  BY <1>1, EmptyTodo
<1>4. /\ DataType /\ due \in [Servers -> Int]
      /\ owed \in [Servers -> Int] /\ lost \in [Servers -> Int]
      /\ Members(table[Cur]) \subseteq Servers
  BY DueInt, MembersIn DEF DataInv, DataType, Cur, Typed
<1>5. \A s \in Servers : Count(Cur, s) \in Nat /\ Count(Spare, s) \in Nat
  BY <1>4, CountNat DEF DataType, Cur, Spare
<1>6. \A s \in Servers : Unmerged(s) \in Nat
  BY <1>5 DEF Unmerged
<1>7. lost' \in [Servers -> Int] /\ \A s \in Servers : due'[s] = due[s] - Unmerged(s)
  BY <1>1, <1>4, <1>6 DEF due
<1>8. DataType'
  BY <1>1, <1>2, <1>3, <1>7, SameCopies, NoneNext DEF DataInv, DataType
<1>9. Stage'
  BY <1>3 DEF Stage
<1>10. CallersHold'
  BY <1>2, SameCopies
<1>11. NoneElse'
  <2>1. ASSUME NEW s \in Servers, s \notin Members(table[Cur])
        PROVE  due'[s] = 0 /\ Count(Cur, s) = 0
    <3>1. agent.at = "merge" => s \notin ToSet(agent.todo)
      BY <2>1 DEF DataInv, Stage, Merging
    <3>2. Unmerged(s) = 0
      BY <3>1 DEF Unmerged
    <3> QED
      BY <1>4, <1>7, <2>1, <3>2 DEF DataInv, NoneElse
  <2> QED
    BY <1>2, <2>1 DEF NoneElse, Count, Cur, Members
<1>12. Balanced'
  <2>1. ASSUME NEW s \in Members(table[Cur]) PROVE due'[s] = Count(Cur, s) + 0
    <3>1. due[s] = Count(Cur, s) + Unmerged(s)
      BY <2>1 DEF DataInv, Balanced, Unmerged, Common
    <3> QED
      BY <1>4, <1>5, <1>6, <1>7, <3>1
  <2> QED
    BY <1>2, <1>3, <2>1 DEF Balanced, Count, Cur, Spare, Members
<1> QED
  BY <1>8, <1>9, <1>10, <1>11, <1>12 DEF DataInv

-----------------------------------------------------------------------------
(* The servers are collected, and the table is computed.                   *)

Stages == {"idle", "collect", "head", "table", "switch", "merge"}

\* The agent goes on to another step, with the servers it still has to do.
LEMMA NextStage ==
  ASSUME DataInv, NEW at2 \in Stages, NEW todo2 \in Seq(Servers)
  PROVE  /\ [agent EXCEPT !.at = at2] \in [at : Stages, todo : Seq(Servers)]
         /\ [agent EXCEPT !.at = at2].at = at2
         /\ [agent EXCEPT !.at = at2].todo = agent.todo
         /\ [agent EXCEPT !.todo = todo2] \in [at : Stages, todo : Seq(Servers)]
         /\ [agent EXCEPT !.todo = todo2].at = agent.at
         /\ [agent EXCEPT !.todo = todo2].todo = todo2
  BY DEF DataInv, DataType, Stages

\* What was collected from a server goes into the private memory.
Collected(c, dead, failed2, success2) ==
  [c EXCEPT !.dead = dead, !.failed = failed2, !.success = success2]
With(f, s, v) == [f EXCEPT ![s] = v]

\* The three fields a collection changes.
LEMMA CollectedPrivate ==
  ASSUME NEW order, NEW dyn, NEW dead, NEW base, NEW low, NEW failed1, NEW success1, NEW lower,
         NEW c, c = PrivateRec(order, dyn, dead, base, low, failed1, success1, lower),
         NEW dead2, NEW failed2, NEW success2
  PROVE  Collected(c, dead2, failed2, success2)
           = PrivateRec(order, dyn, dead2, base, low, failed2, success2, lower)
<1> DEFINE u == [c EXCEPT !.dead = dead2]
           v == [u EXCEPT !.failed = failed2]
<1>1. u = PrivateRec(order, dyn, dead2, base, low, failed1, success1, lower)
  BY DEF PrivateRec
<1>2. Collected(c, dead2, failed2, success2) = [v EXCEPT !.success = success2]
  BY DEF Collected
<1>3. v = PrivateRec(order, dyn, dead2, base, low, failed2, success1, lower)
  <2> HIDE DEF u
  <2> QED
    BY <1>1 DEF PrivateRec
<1> HIDE DEF v
<1> QED
  BY <1>2, <1>3 DEF PrivateRec

\* A server that was not in the table gets the static weight.
LEMMA CollectNew ==
  ASSUME DataInv, Collect, Head(agent.todo) \notin Members(table[Cur])
  PROVE  DataInv'
<1> DEFINE s == Head(agent.todo)
           dyn == With(next.dyn, s, WeightStatic)
<1>1. /\ agent.at = "collect" /\ agent.todo # <<>>
      /\ agent' = [agent EXCEPT !.todo = Tail(agent.todo)]
      /\ next' = [next EXCEPT !.dyn[s] = WeightStatic]
      /\ UNCHANGED <<index, head, table, callers>> /\ UNCHANGED <<failed, success, results>>
      /\ index' = index /\ table' = table /\ failed' = failed /\ success' = success
      /\ owed' = owed /\ lost' = lost
  BY DEF Collect, results
<1>2. /\ agent.todo \in Seq(Servers) /\ next \in PrivateRecords /\ Distinct(next.order)
  BY DEF DataInv, DataType
<1>3. /\ s \in Servers /\ Tail(agent.todo) \in Seq(Servers)
      /\ \A r : r \in ToSet(agent.todo) <=> r = s \/ r \in ToSet(Tail(agent.todo))
  BY <1>1, <1>2, TailSet
<1>4. /\ agent'.at = "collect" /\ agent'.todo = Tail(agent.todo)
      /\ agent' \in [at : Stages, todo : Seq(Servers)]
  BY <1>1, <1>3, NextStage DEF Stages
<1>5. /\ next.order \in Seq(Servers) /\ next.dyn \in Counts /\ next.dead \subseteq Servers
      /\ next.base \in Counts /\ next.low \in Nat
      /\ next.failed \in Counts /\ next.success \in Counts /\ next.lower \in Nat
      /\ next = PrivateRec(next.order, next.dyn, next.dead, next.base, next.low, next.failed,
                   next.success, next.lower)
  BY <1>2, PrivateFieldsOf
<1>6. WeightStatic \in Nat \ {0}
  BY Weights
<1>7. dyn \in Counts /\ dyn[s] > 0 /\ \A r \in Servers : r # s => dyn[r] = next.dyn[r]
  BY <1>3, <1>5, <1>6, SMTT(40) DEF Counts, With
<1>8. next' = PrivateRec(next.order, dyn, next.dead, next.base, next.low, next.failed,
                 next.success, next.lower)
  <2>1. next' = [next EXCEPT !.dyn = dyn]
    BY <1>1 DEF With
  <2> HIDE DEF dyn
  <2> QED
    BY <1>5, <2>1, WorkFields DEF PrivateRec
<1> HIDE DEF dyn
<1>9. next' \in PrivateRecords
  BY <1>5, <1>7, <1>8, PrivateFieldsOf
<1>10. next'.order = next.order /\ next'.dead = next.dead /\ next'.dyn = dyn
  BY <1>8, PrivateFields
<1>11. DataType'
  BY <1>1, <1>2, <1>4, <1>9, <1>10, SameCopies DEF DataInv, DataType, Stages
<1>12. Members(next) \subseteq Servers /\ Members(table[Cur]) \subseteq Servers
  BY <1>5, MembersIn DEF DataInv, DataType, Typed, Cur
<1>13. Collecting
  BY <1>1 DEF DataInv, Stage
<1> HIDE DEF s
<1>14. s \notin Members(table[Cur])
  BY DEF s
<1>15. Collecting'
  <2>1. ASSUME NEW r \in Members(next)
        PROVE  r \in ToSet(Tail(agent.todo)) \/ r \in next.dead \/ dyn[r] > 0
    <3>1. r \in ToSet(agent.todo) \/ r \in next.dead \/ next.dyn[r] > 0
      BY <1>13 DEF Collecting
    <3> QED
      BY <1>3, <1>7, <1>12, <3>1
  <2>2. ASSUME NEW r \in Members(table[Cur]) PROVE dyn[r] = table[Cur].dyn[r]
    BY <1>7, <1>12, <1>13, <1>14 DEF Collecting
  <2> QED
    BY <1>1, <1>4, <1>10, <2>1, <2>2 DEF Collecting, Members, Cur
<1>16. Stage'
  BY <1>4, <1>15 DEF Stage
<1>17. CallersHold'
  BY <1>1, SameCopies
<1>18. NoneElse' /\ Balanced'
  BY <1>1, <1>4, SameCounts
<1> QED
  BY <1>11, <1>16, <1>17, <1>18 DEF DataInv

\* The counts of one that was are taken, or left where they are.
LEMMA CollectOld ==
  ASSUME DataInv, Collect, Head(agent.todo) \in Members(table[Cur])
  PROVE  DataInv'
<1> DEFINE s == Head(agent.todo)
           i == Cur
           dead == IF s \in table[i].dead THEN next.dead \cup {s} ELSE next.dead
           failed2 == With(next.failed, s, IF Taken(s) THEN failed[i][s] ELSE 0)
           success2 == With(next.success, s, IF Taken(s) THEN success[i][s] ELSE 0)
<1>1. /\ agent.at = "collect" /\ agent.todo # <<>>
      /\ agent' = [agent EXCEPT !.todo = Tail(agent.todo)]
      /\ UNCHANGED <<index, head, table, callers>>
      /\ index' = index /\ table' = table
  BY DEF Collect
<1>2. next' = Collected(next, dead, failed2, success2)
  BY DEF Collect, Collected, With
<1>3. /\ failed' = IF Taken(s) THEN [failed EXCEPT ![i][s] = 0] ELSE failed
      /\ success' = IF Taken(s) THEN [success EXCEPT ![i][s] = 0] ELSE success
      /\ owed' = IF Taken(s) THEN [owed EXCEPT ![s] = @ - failed[i][s] - success[i][s]]
                 ELSE owed
      /\ lost' = lost
  BY DEF Collect, Zeroed
<1>4. /\ agent.todo \in Seq(Servers) /\ next \in PrivateRecords /\ Distinct(next.order)
      /\ i \in 0..1 /\ failed \in [0..1 -> Counts] /\ success \in [0..1 -> Counts]
      /\ owed \in [Servers -> Int] /\ lost \in [Servers -> Int] /\ due \in [Servers -> Int]
  BY DueInt DEF DataInv, DataType, Cur
<1>5. /\ s \in Servers /\ Tail(agent.todo) \in Seq(Servers)
      /\ \A r : r \in ToSet(agent.todo) <=> r = s \/ r \in ToSet(Tail(agent.todo))
  BY <1>1, <1>4, TailSet
<1>6. /\ agent'.at = "collect" /\ agent'.todo = Tail(agent.todo)
      /\ agent' \in [at : Stages, todo : Seq(Servers)]
  BY <1>1, <1>5, NextStage DEF Stages
<1>7. /\ next.order \in Seq(Servers) /\ next.dyn \in Counts /\ next.dead \subseteq Servers
      /\ next.base \in Counts /\ next.low \in Nat
      /\ next.failed \in Counts /\ next.success \in Counts /\ next.lower \in Nat
      /\ next = PrivateRec(next.order, next.dyn, next.dead, next.base, next.low, next.failed,
                   next.success, next.lower)
  BY <1>4, PrivateFieldsOf
<1>8. /\ s \in Members(table[Cur])
      /\ Members(next) \subseteq Servers /\ Members(table[Cur]) \subseteq Servers
  BY <1>7, MembersIn DEF DataInv, DataType, Typed, Cur
<1>9. /\ failed[i][s] \in Nat /\ success[i][s] \in Nat /\ due[s] = Count(Cur, s)
      /\ Count(Cur, s) = failed[i][s] + success[i][s]
  <2>1. due[s] = Count(Cur, s) + 0 /\ Count(Cur, s) \in Nat
    BY <1>1, <1>4, <1>5, <1>8, CountNat DEF DataInv, Balanced
  <2> QED
    BY <1>4, <1>5, <2>1, CountNat, SMTT(40) DEF DataInv, Count
<1> HIDE DEF s, i
<1>10. /\ failed2 \in Counts /\ success2 \in Counts /\ dead \in SUBSET Servers
       /\ next.dead \subseteq dead /\ (s \in table[i].dead => s \in dead)
  BY <1>5, <1>7, <1>9 DEF Counts, With
<1>11. /\ failed' \in [0..1 -> Counts] /\ success' \in [0..1 -> Counts]
       /\ owed' \in [Servers -> Int]
       /\ \A r \in Servers : r # s => /\ failed'[i][r] = failed[i][r]
                                      /\ success'[i][r] = success[i][r]
                                      /\ due'[r] = due[r]
       /\ due'[s] = failed'[i][s] + success'[i][s]
  <2>1. CASE Taken(s)
    <3>1. /\ failed' = [failed EXCEPT ![i][s] = 0] /\ success' = [success EXCEPT ![i][s] = 0]
          /\ owed' = [owed EXCEPT ![s] = @ - failed[i][s] - success[i][s]]
      BY <1>3, <2>1
    <3>2. /\ failed' \in [0..1 -> Counts] /\ success' \in [0..1 -> Counts]
          /\ failed'[i][s] = 0 /\ success'[i][s] = 0
          /\ \A r \in Servers : r # s => /\ failed'[i][r] = failed[i][r]
                                         /\ success'[i][r] = success[i][r]
      BY <1>4, <1>5, <3>1 DEF Counts
    <3>3. /\ owed' \in [Servers -> Int]
          /\ owed'[s] = owed[s] - failed[i][s] - success[i][s]
          /\ \A r \in Servers : r # s => owed'[r] = owed[r]
      BY <1>4, <1>5, <1>9, <3>1
    <3>4. \A r \in Servers : r # s => due'[r] = due[r]
      BY <1>3, <3>3 DEF due
    <3>5. due'[s] = 0
      <4>1. due[s] = owed[s] - lost[s] /\ due'[s] = owed'[s] - lost[s]
        BY <1>3, <1>5 DEF due
      <4>2. owed[s] \in Int /\ lost[s] \in Int
        BY <1>4, <1>5
      <4> QED
        BY <1>9, <3>3, <4>1, <4>2
    <3> QED
      BY <3>2, <3>3, <3>4, <3>5
  <2>2. CASE ~Taken(s)
    <3>1. owed' = owed /\ due' = due
      BY <1>3, <2>2, SameDue DEF results
    <3> QED
      BY <1>3, <1>4, <1>5, <1>9, <2>2, <3>1 DEF Counts
  <2> QED
    BY <2>1, <2>2
<1> HIDE DEF dead, failed2, success2
<1>12. next' = PrivateRec(next.order, next.dyn, dead, next.base, next.low,
                          failed2, success2, next.lower)
  BY <1>2, <1>7, CollectedPrivate
<1>13. next' \in PrivateRecords
  BY <1>7, <1>10, <1>12, PrivateFieldsOf
<1>14. next'.order = next.order /\ next'.dead = dead /\ next'.dyn = next.dyn
  BY <1>12, PrivateFields
<1>15. DataType'
  BY <1>1, <1>3, <1>4, <1>6, <1>11, <1>13, <1>14, SameCopies DEF DataInv, DataType, Stages
<1>16. Collecting
  BY <1>1 DEF DataInv, Stage
<1>17. Collecting'
  <2>1. ASSUME NEW r \in Members(next)
        PROVE  r \in ToSet(Tail(agent.todo)) \/ r \in dead \/ next.dyn[r] > 0
    <3>1. r \in ToSet(agent.todo) \/ r \in next.dead \/ next.dyn[r] > 0
      BY <1>16 DEF Collecting
    <3>2. CASE r = s
      <4>1. s \in table[Cur].dead \/ table[Cur].dyn[s] > 0
        BY <1>5, <1>8 DEF DataInv, DataType, Sharing, Cur
      <4>2. next.dyn[s] = table[Cur].dyn[s]
        BY <1>8, <1>16 DEF Collecting
      <4> QED
        BY <1>10, <3>2, <4>1, <4>2 DEF i
    <3> QED
      BY <1>5, <1>10, <3>1, <3>2
  <2>2. \A r \in Members(table[Cur]) : next.dyn[r] = table[Cur].dyn[r]
    BY <1>16 DEF Collecting
  <2> QED
    BY <1>1, <1>6, <1>14, <2>1, <2>2 DEF Collecting, Members, Cur
<1>18. Stage'
  BY <1>6, <1>17 DEF Stage
<1>19. CallersHold'
  BY <1>1, SameCopies
<1>20. index' = i /\ Cur = i
  BY <1>1 DEF i, Cur
<1>21. NoneElse'
  <2>1. ASSUME NEW r \in Servers, r \notin Members(table[i])
        PROVE  due'[r] = 0 /\ failed'[i][r] + success'[i][r] = 0
    BY <1>8, <1>11, <1>20, <2>1 DEF DataInv, NoneElse, Count
  <2> QED
    BY <1>1, <1>20, <2>1 DEF NoneElse, Count, Cur, Members
<1>22. Balanced'
  <2>1. ASSUME NEW r \in Members(table[i])
        PROVE  due'[r] = failed'[i][r] + success'[i][r] + 0
    <3>1. r \in Servers /\ due[r] = failed[i][r] + success[i][r] + 0
      BY <1>1, <1>8, <1>20 DEF DataInv, Balanced, Count
    <3>2. failed'[i][r] \in Nat /\ success'[i][r] \in Nat
      BY <1>4, <1>11, <3>1 DEF Counts
    <3> QED
      BY <1>11, <3>1, <3>2
  <2> QED
    BY <1>1, <1>6, <1>20, <2>1 DEF Balanced, Count, Cur, Members
<1> QED
  BY <1>15, <1>18, <1>19, <1>21, <1>22 DEF DataInv

\* The computed table, with empty counts.
Cleared(c) == [c EXCEPT !.base = Bases(c), !.failed = None, !.success = None]

\* The three fields written when the table has been computed.
LEMMA ClearedPrivate ==
  ASSUME NEW c, c \in PrivateRecords
  PROVE  Cleared(c) = PrivateRec(c.order, c.dyn, c.dead, Bases(c), c.low, None, None, c.lower)
<1> DEFINE b == Bases(c)
           u == [c EXCEPT !.base = b]
           v == [u EXCEPT !.failed = None]
<1>1. c = PrivateRec(c.order, c.dyn, c.dead, c.base, c.low, c.failed, c.success, c.lower)
  BY PrivateFieldsOf
<1>2. Cleared(c) = [v EXCEPT !.success = None]
  BY DEF Cleared
<1> HIDE DEF b
<1>3. u = PrivateRec(c.order, c.dyn, c.dead, b, c.low, c.failed, c.success, c.lower)
  BY <1>1 DEF PrivateRec
<1>4. v = PrivateRec(c.order, c.dyn, c.dead, b, c.low, None, c.success, c.lower)
  <2> HIDE DEF u
  <2> QED
    BY <1>3 DEF PrivateRec
<1> HIDE DEF v
<1> QED
  BY <1>2, <1>4 DEF PrivateRec, b

\* The events, the shaping and the weights, one after the other.
LEMMA ComputeKeeps ==
  ASSUME DataInv, Compute
  PROVE  DataInv'
<1> DEFINE c == Shaping(HandleEvents(next))
<1>1. /\ agent.at = "collect" /\ agent.todo = <<>> /\ next' = Cleared(c)
      /\ agent' = [agent EXCEPT !.at = "head"]
      /\ UNCHANGED <<index, head, table, callers>>
      /\ UNCHANGED <<index, table, failed, success, results>>
      /\ failed' = failed /\ success' = success /\ owed' = owed /\ lost' = lost
  BY DEF Compute, copies, Cleared, results
<1>2. /\ agent'.at = "head" /\ agent' \in [at : Stages, todo : Seq(Servers)]
  BY <1>1, NextStage, EmptyTodo DEF Stages
<1>3. next \in Tables
  <2>1. next \in PrivateRecords /\ Distinct(next.order)
    BY DEF DataInv, DataType
  <2>2. \A s \in Members(next) : s \in next.dead \/ next.dyn[s] > 0
    BY <1>1, EmptyTodo DEF DataInv, Stage, Collecting
  <2> QED
    BY <2>1, <2>2 DEF Tables, Sharing
<1>4. c \in Tables
  BY <1>3, EventsTables, ShapingTables
<1> HIDE DEF c
<1>5. /\ c.order \in Seq(Servers) /\ c.dyn \in Counts /\ c.dead \subseteq Servers
      /\ c.low \in Nat /\ c.lower \in Nat
      /\ c \in PrivateRecords /\ Distinct(c.order) /\ Sharing(c)
  BY <1>4, PrivateFieldsOf DEF Tables
<1>6. Bases(c) \in Counts
  BY <1>5, BasesCounts
<1>7. next' = PrivateRec(c.order, c.dyn, c.dead, Bases(c), c.low, None, None, c.lower)
  BY <1>1, <1>5, ClearedPrivate
<1>8. /\ next'.order = c.order /\ next'.dyn = c.dyn /\ next'.dead = c.dead
      /\ next'.base = Bases(c) /\ next'.failed = None /\ next'.success = None
  BY <1>7, PrivateFields
<1>9. next' \in PrivateRecords
  BY <1>5, <1>6, <1>7, NoneCounts, PrivateFieldsOf
<1>10. DataType'
  BY <1>1, <1>2, <1>5, <1>8, <1>9, SameCopies DEF DataInv, DataType, Stages
<1>11. Computed'
  <2>1. Bases(next') = Bases(c)
    BY <1>5, <1>8, SameBases
  <2>2. Sharing(next')
    BY <1>5, <1>8 DEF Sharing, Members
  <2>3. Bases(next)' = Bases(next') /\ Sharing(next)' <=> Sharing(next')
    OBVIOUS
  <2> QED
    BY <1>8, <2>1, <2>2 DEF Computed
<1>12. Stage'
  BY <1>2, <1>11 DEF Stage
<1>13. CallersHold'
  BY <1>1, SameCopies
<1>14. NoneElse' /\ Balanced'
  BY <1>1, <1>2, SameCounts
<1> QED
  BY <1>10, <1>12, <1>13, <1>14 DEF DataInv

-----------------------------------------------------------------------------
(* The spare copy is written, put in use, and what came late is merged.    *)

\* No caller reads the spare copy while its head and its table differ.
LEMMA CopyHeadKeeps ==
  ASSUME DataInv, CopyHead
  PROVE  DataInv'
<1>1. /\ agent.at = "head" /\ agent' = [agent EXCEPT !.at = "table"] /\ Prompt
      /\ head' = [head EXCEPT ![Spare] = HeadOf(next)]
      /\ UNCHANGED <<index, table, failed, success, results>>
      /\ index' = index /\ table' = table /\ failed' = failed /\ success' = success
      /\ owed' = owed /\ lost' = lost /\ next' = next /\ pc' = pc /\ at' = at /\ hdr' = hdr
  BY DEF CopyHead, callers, results
<1>2. /\ Cur \in 0..1 /\ Spare \in 0..1 /\ Cur # Spare /\ DOMAIN head = 0..1
      /\ agent.todo \in Seq(Servers)
  BY DEF DataInv, DataType, Cur, Spare
<1>3. /\ agent'.at = "table" /\ agent' \in [at : Stages, todo : Seq(Servers)]
  BY <1>1, <1>2, NextStage DEF Stages
<1>4. head'[Spare] = HeadOf(next) /\ head'[Cur] = head[Cur] /\ DOMAIN head' = 0..1
  BY <1>1, <1>2
<1>5. HeadOf(next).low \in Nat
  BY PrivateFieldsOf DEF DataInv, DataType, HeadOf
<1>6. \A i \in 0..1 : head'[i].low \in Nat
  <2>1. \A i \in 0..1 : i = Cur \/ i = Spare
    BY DEF DataInv, DataType, Cur, Spare
  <2> QED
    BY <1>4, <1>5, <2>1 DEF DataInv, DataType, Cur
<1>7. DataType'
  BY <1>1, <1>3, <1>4, <1>6 DEF DataInv, DataType, Stages
<1>8. \A c \in Callers : Busy(c) => at[c] = Cur
  BY <1>1 DEF Prompt, Busy
<1>9. CallersHold'
  <2>1. ASSUME NEW c \in Callers, pc[c] \in {"draw", "cas", "search"} PROVE Busy(c)
    BY <2>1 DEF Busy
  <2> QED
    BY <1>1, <1>4, <1>8, <2>1 DEF DataInv, CallersHold, Busy, Cur
<1>10. Stage'
  <2>1. Computed'
    BY <1>1 DEF DataInv, Stage, Computed, Sharing, Members, None
  <2>2. (head[Spare] = HeadOf(next))'
    BY <1>1, <1>4 DEF Spare
  <2>3. (\A c \in Callers : Busy(c) => at[c] = Cur)'
    BY <1>1, <1>8 DEF Busy, Cur
  <2> QED
    BY <1>3, <2>1, <2>2, <2>3 DEF Stage
<1>11. NoneElse' /\ Balanced'
  BY <1>1, <1>3, SameCounts
<1> QED
  BY <1>7, <1>9, <1>10, <1>11 DEF DataInv

\* The spare copy is whole again, and counts from zero.
LEMMA CopyTableKeeps ==
  ASSUME DataInv, CopyTable
  PROVE  DataInv'
<1>1. /\ agent.at = "table" /\ agent' = [agent EXCEPT !.at = "switch"]
      /\ table' = [table EXCEPT ![Spare] = TableOf(next)]
      /\ failed' = [failed EXCEPT ![Spare] = next.failed]
      /\ success' = [success EXCEPT ![Spare] = next.success]
      /\ index' = index /\ head' = head
      /\ owed' = owed /\ lost' = lost /\ due' = due /\ next' = next
      /\ pc' = pc /\ at' = at /\ hdr' = hdr
  BY SameDue DEF CopyTable, callers
<1>2. /\ Cur \in 0..1 /\ Spare \in 0..1 /\ Cur # Spare /\ DOMAIN table = 0..1
      /\ failed \in [0..1 -> Counts] /\ success \in [0..1 -> Counts]
      /\ \A i \in 0..1 : i = Cur \/ i = Spare
  BY DEF DataInv, DataType, Cur, Spare
<1>3. /\ agent'.at = "switch" /\ agent' \in [at : Stages, todo : Seq(Servers)]
  BY <1>1, NextStage, EmptyTodo DEF Stages
<1>4. /\ Computed /\ head[Spare] = HeadOf(next)
      /\ \A c \in Callers : Busy(c) => at[c] = Cur
  BY <1>1 DEF DataInv, Stage
<1>5. /\ next.order \in Seq(Servers) /\ next.dyn \in Counts /\ Distinct(next.order)
      /\ next.base \in Counts /\ next.base = Bases(next) /\ Sharing(next)
      /\ next.failed = None /\ next.success = None
  BY <1>4, PrivateFieldsOf DEF DataInv, DataType, Computed
<1> DEFINE t == TableOf(next)
<1>6. t.order = next.order /\ t.dyn = next.dyn /\ t.dead = next.dead /\ t.base = next.base
  BY DEF TableOf
<1> HIDE DEF t
<1>7. Typed(t) /\ Sharing(t)
  BY <1>5, <1>6 DEF Typed, Sharing, Members, Counts
<1>8. Whole(t, HeadOf(next))
  BY <1>5, <1>6, WeightsWhole DEF Counts
<1>9. /\ table'[Spare] = t /\ table'[Cur] = table[Cur] /\ DOMAIN table' = 0..1
      /\ failed' \in [0..1 -> Counts] /\ success' \in [0..1 -> Counts]
      /\ failed'[Spare] = None /\ success'[Spare] = None
      /\ failed'[Cur] = failed[Cur] /\ success'[Cur] = success[Cur]
  BY <1>1, <1>2, <1>5, NoneCounts DEF t
<1>10. DataType'
  <2>1. \A i \in 0..1 : Typed(table'[i]) /\ Sharing(table'[i])
    BY <1>2, <1>7, <1>9 DEF DataInv, DataType
  <2> QED
    BY <1>1, <1>3, <1>9, <2>1 DEF DataInv, DataType, Stages
<1>11. CallersHold'
  <2>1. ASSUME NEW c \in Callers, pc[c] \in {"draw", "cas", "search"} PROVE Busy(c)
    BY <2>1 DEF Busy
  <2> QED
    BY <1>1, <1>4, <1>9, <2>1 DEF DataInv, CallersHold, Busy, Cur
<1>12. Stage'
  <2>1. Copied'
    BY <1>1, <1>4, <1>8, <1>9 DEF Copied, Spare, None
  <2>2. (\A c \in Callers : Busy(c) => at[c] = Cur)'
    BY <1>1, <1>4 DEF Busy, Cur
  <2> QED
    BY <1>3, <2>1, <2>2 DEF Stage
<1>13. index' = Cur
  BY <1>1 DEF Cur
<1>14. NoneElse'
  BY <1>1, <1>9, <1>13 DEF DataInv, NoneElse, Count, Cur, Members
<1>15. Balanced'
  <2>1. \A s \in Members(table[Cur]) : due[s] = Count(Cur, s) + 0
    BY <1>1 DEF DataInv, Balanced
  <2> QED
    BY <1>1, <1>3, <1>9, <1>13, <2>1 DEF Balanced, Count, Cur, Members
<1> QED
  BY <1>10, <1>11, <1>12, <1>14, <1>15 DEF DataInv

\* The results owed are those left in the copy that was in use.
LEMMA SwitchKeeps ==
  ASSUME DataInv, Switch
  PROVE  DataInv'
<1> DEFINE i == Cur
           j == Spare
           todo == table[j].order
<1>1. /\ agent.at = "switch" /\ index' = j
      /\ agent' = [at |-> "merge", todo |-> todo]
      /\ owed' = [s \in Servers |-> IF s \in Members(table[j]) THEN owed[s] ELSE 0]
      /\ lost' = [s \in Servers |-> IF s \in Members(table[j]) THEN lost[s] ELSE 0]
      /\ table' = table /\ head' = head /\ failed' = failed /\ success' = success
      /\ next' = next /\ pc' = pc /\ at' = at /\ hdr' = hdr
  BY DEF Switch, callers, OfNew
<1>2. i \in 0..1 /\ j \in 0..1 /\ 1 - j = i
  BY DEF DataInv, DataType, Cur, Spare
<1>3. todo \in Seq(Servers) /\ Distinct(todo) /\ Members(table[j]) \subseteq Servers
  BY <1>2, MembersIn DEF DataInv, DataType, Typed
<1>4. /\ Whole(table[j], head[j]) /\ failed[j] = None /\ success[j] = None
  BY <1>1 DEF DataInv, Stage, Copied
<1> HIDE DEF j, todo
<1>5. /\ agent'.at = "merge" /\ agent'.todo = todo
      /\ agent' \in [at : Stages, todo : Seq(Servers)]
  BY <1>1, <1>3 DEF Stages
<1>6. DataType'
  <2>1. owed' \in [Servers -> Int] /\ lost' \in [Servers -> Int]
    BY <1>1 DEF DataInv, DataType
  <2> QED
    BY <1>1, <1>2, <1>5, <2>1 DEF DataInv, DataType, Stages
<1>7. CallersHold'
  BY <1>1, <1>4 DEF DataInv, CallersHold, Busy, Cur
<1>8. Stage'
  <2>1. ToSet(todo) = Members(table[j])
    BY DEF Members, todo
  <2>2. Merging'
    BY <1>1, <1>3, <1>5, <2>1 DEF Merging, Cur
  <2> QED
    BY <1>5, <2>2 DEF Stage
<1>9. \A s \in Servers : failed[j][s] + success[j][s] = 0
  BY <1>4, NoneCounts
<1>10. NoneElse'
  <2>1. ASSUME NEW s \in Servers, s \notin Members(table[j]) PROVE due'[s] = 0
    BY <1>1, <2>1 DEF due
  <2> QED
    BY <1>1, <1>9, <2>1 DEF NoneElse, Count, Cur, Members
<1>11. Balanced'
  <2>1. ASSUME NEW s \in Members(table[j])
        PROVE  due'[s] = IF s \in Members(table[i]) THEN failed[i][s] + success[i][s] ELSE 0
    <3>1. s \in Servers /\ due'[s] = due[s]
      BY <1>1, <1>3 DEF due
    <3>2. CASE s \in Members(table[i])
      <4>1. due[s] = Count(i, s) + 0 /\ Count(i, s) \in Nat
        BY <1>1, <1>2, <3>1, <3>2, CountNat DEF DataInv, Balanced
      <4> QED
        BY <3>1, <3>2, <4>1 DEF Count
    <3>3. CASE s \notin Members(table[i])
      BY <3>1, <3>3 DEF DataInv, NoneElse
    <3> QED
      BY <3>2, <3>3
  <2>2. Members(table[j]) = ToSet(todo)
    BY DEF Members, todo
  <2>3. Spare' = i /\ Cur' = j
    BY <1>1, <1>2 DEF Spare, Cur
  <2> HIDE DEF i
  <2>4. \A s \in Servers : failed[i][s] + success[i][s] \in Nat
    BY <1>2, CountNat DEF DataInv, Count
  <2>5. ASSUME NEW s \in Members(table[j])
        PROVE  due'[s] = failed[j][s] + success[j][s]
                 + IF s \in Members(table[i]) THEN failed[i][s] + success[i][s] ELSE 0
    <3>1. s \in Servers
      BY <1>3
    <3>2. failed[i][s] + success[i][s] \in Nat /\ failed[j][s] + success[j][s] = 0
      BY <1>9, <2>4, <3>1
    <3> QED
      BY <2>1, <3>2
  <2>6. agent'.at = "merge" /\ ToSet(agent'.todo) = Members(table[j])
    BY <1>5, <2>2
  <2> QED
    BY <1>1, <2>3, <2>5, <2>6 DEF Balanced, Members, Count
<1> QED
  BY <1>6, <1>7, <1>8, <1>10, <1>11 DEF DataInv

\* They come to the current copy, each once.
LEMMA MergeKeeps ==
  ASSUME DataInv, Merge
  PROVE  DataInv'
<1> DEFINE i == Cur
           j == Spare
           s == Head(agent.todo)
           common == s \in Members(table[j])
<1>1. /\ agent.at = "merge" /\ agent.todo # <<>>
      /\ agent' = [agent EXCEPT !.todo = Tail(agent.todo)]
      /\ UNCHANGED <<index, head, table, callers>>
      /\ index' = index /\ table' = table /\ next' = next
      /\ owed' = owed /\ lost' = lost /\ due' = due
  BY SameDue DEF Merge
<1>2. /\ failed' = IF common THEN [failed EXCEPT ![i][s] = @ + failed[j][s]] ELSE failed
      /\ success' = IF common THEN [success EXCEPT ![i][s] = @ + success[j][s]] ELSE success
  BY DEF Merge, Common
<1>3. /\ i \in 0..1 /\ j \in 0..1 /\ i # j /\ agent.todo \in Seq(Servers)
      /\ failed \in [0..1 -> Counts] /\ success \in [0..1 -> Counts]
  BY DEF DataInv, DataType, Cur, Spare
<1>4. Merging
  BY <1>1 DEF DataInv, Stage
<1>5. /\ s \in Servers /\ Tail(agent.todo) \in Seq(Servers) /\ s \in ToSet(agent.todo)
      /\ \A r : r \in ToSet(agent.todo) <=> r = s \/ r \in ToSet(Tail(agent.todo))
      /\ Distinct(Tail(agent.todo)) /\ s \notin ToSet(Tail(agent.todo))
  BY <1>1, <1>3, <1>4, TailSet DEF Merging
<1>6. /\ agent'.at = "merge" /\ agent'.todo = Tail(agent.todo)
      /\ agent' \in [at : Stages, todo : Seq(Servers)]
  BY <1>1, <1>5, NextStage DEF Stages
<1>7. Cur' = i /\ Spare' = j /\ s \in Members(table[i])
  BY <1>1, <1>4, <1>5 DEF Cur, Spare, Merging
<1> HIDE DEF s, i, j
<1>8. \A r \in Servers : /\ failed[i][r] \in Nat /\ success[i][r] \in Nat
                         /\ failed[j][r] \in Nat /\ success[j][r] \in Nat
  BY <1>3 DEF Counts
<1>9. /\ failed' \in [0..1 -> Counts] /\ success' \in [0..1 -> Counts]
      /\ failed'[j] = failed[j] /\ success'[j] = success[j]
      /\ \A r \in Servers : r # s => failed'[i][r] = failed[i][r] /\ success'[i][r] = success[i][r]
      /\ failed'[i][s] = failed[i][s] + IF common THEN failed[j][s] ELSE 0
      /\ success'[i][s] = success[i][s] + IF common THEN success[j][s] ELSE 0
  <2>1. CASE common
    <3>1. /\ failed' = [failed EXCEPT ![i][s] = failed[i][s] + failed[j][s]]
          /\ success' = [success EXCEPT ![i][s] = success[i][s] + success[j][s]]
      BY <1>2, <1>3, <1>5, <2>1
    <3>2. failed[i][s] + failed[j][s] \in Nat /\ success[i][s] + success[j][s] \in Nat
      BY <1>5, <1>8
    <3> DEFINE x == failed[i][s] + failed[j][s]
               y == success[i][s] + success[j][s]
    <3> HIDE DEF x, y, common
    <3>3. /\ failed' \in [0..1 -> Counts] /\ failed'[j] = failed[j] /\ failed'[i][s] = x
          /\ \A r \in Servers : r # s => failed'[i][r] = failed[i][r]
      BY <1>3, <1>5, <3>1, <3>2 DEF Counts, x
    <3>4. /\ success' \in [0..1 -> Counts] /\ success'[j] = success[j] /\ success'[i][s] = y
          /\ \A r \in Servers : r # s => success'[i][r] = success[i][r]
      BY <1>3, <1>5, <3>1, <3>2 DEF Counts, y
    <3> QED
      BY <2>1, <3>3, <3>4 DEF x, y
  <2>2. CASE ~common
    BY <1>2, <1>3, <1>5, <1>8, <2>2
  <2> QED
    BY <2>1, <2>2
<1> HIDE DEF common
<1>10. DataType'
  BY <1>1, <1>6, <1>9, SameCopies DEF DataInv, DataType, Stages
<1>11. CallersHold'
  BY <1>1, SameCopies
<1>12. Stage'
  <2>1. Merging'
    BY <1>1, <1>4, <1>5, <1>6, <1>7 DEF Merging, Members, i
  <2> QED
    BY <1>6, <2>1 DEF Stage
<1>13. NoneElse'
  <2>1. ASSUME NEW r \in Servers, r \notin Members(table[i])
        PROVE  due[r] = 0 /\ failed'[i][r] + success'[i][r] = 0
    BY <1>7, <1>9, <2>1 DEF DataInv, NoneElse, Count, i
  <2> QED
    BY <1>1, <1>7, <2>1 DEF NoneElse, Count, Members
<1>14. Balanced'
  <2>1. Members(table[i]) \subseteq Servers
    BY <1>3, MembersIn DEF DataInv, DataType, Typed
  <2>2. ASSUME NEW r \in Members(table[i])
        PROVE  due[r] = failed'[i][r] + success'[i][r]
                 + IF r \in ToSet(Tail(agent.todo)) /\ r \in Members(table[j])
                   THEN failed'[j][r] + success'[j][r] ELSE 0
    <3>1. due[r] = failed[i][r] + success[i][r]
                      + IF r \in ToSet(agent.todo) /\ r \in Members(table[j])
                        THEN failed[j][r] + success[j][r] ELSE 0
      BY <1>1 DEF DataInv, Balanced, Count, i, j
    <3>2. r \in Servers
      BY <2>1
    <3>3. CASE r = s
      <4>1. due[r] = failed[i][s] + success[i][s]
                        + IF common THEN failed[j][s] + success[j][s] ELSE 0
        BY <1>5, <3>1, <3>3 DEF common
      <4>2. /\ failed[i][s] \in Nat /\ success[i][s] \in Nat
            /\ failed[j][s] \in Nat /\ success[j][s] \in Nat
        BY <1>5, <1>8
      <4>3. due[r] = failed'[i][s] + success'[i][s]
        BY <1>9, <4>1, <4>2
      <4>4. failed'[i][s] + success'[i][s] \in Nat
        <5>1. failed'[i] \in Counts /\ success'[i] \in Counts
          BY <1>3, <1>9
        <5> QED
          BY <1>5, <5>1 DEF Counts
      <4> QED
        BY <1>5, <3>3, <4>3, <4>4
    <3>4. CASE r # s
      <4>1. /\ failed'[i][r] = failed[i][r] /\ success'[i][r] = success[i][r]
            /\ failed'[j][r] = failed[j][r] /\ success'[j][r] = success[j][r]
            /\ r \in ToSet(agent.todo) <=> r \in ToSet(Tail(agent.todo))
        BY <1>5, <1>9, <3>2, <3>4
      <4> QED
        BY <3>1, <4>1
    <3> QED
      BY <3>3, <3>4
  <2> QED
    BY <1>1, <1>6, <1>7, <2>2 DEF Balanced, Count, Members
<1> QED
  BY <1>10, <1>11, <1>12, <1>13, <1>14 DEF DataInv

\* Every step of the agent keeps the invariant.
LEMMA AgentDataKeeps ==
  ASSUME DataInv, AgentStep
  PROVE  DataInv'
<1>1. CASE Collect
  BY <1>1, CollectNew, CollectOld
<1> QED
  BY <1>1, UpdateKeeps, ComputeKeeps, CopyHeadKeeps, CopyTableKeeps, SwitchKeeps, MergeKeeps,
     DoneKeeps DEF AgentStep

-----------------------------------------------------------------------------
(* The callers keep the invariant.                                         *)

\* What a caller may do in one step.
CallerStep(c) ==
  \/ FindCopy(c) \/ NoServer(c) \/ ReadHead(c) \/ AnyServer(c) \/ DrawDead(c) \/ DrawLive(c)
  \/ TryDead(c) \/ ReadAgain(c) \/ Search(c)
  \/ Report(c) \/ NotFound(c)
  \/ \E ok \in BOOLEAN : Add(c, ok)

\* One caller goes on: it looks at the copy in use, or at the one it has looked at before.
Turn(c) ==
  /\ at' \in [Callers -> 0..1] /\ DOMAIN pc' = Callers /\ DOMAIN hdr' = Callers
  /\ \A d \in Callers : d # c => pc'[d] = pc[d] /\ at'[d] = at[d] /\ hdr'[d] = hdr[d]
  /\ pc'[c] \notin {"idle", "done"} => at'[c] = Cur \/ (Busy(c) /\ at'[c] = at[c])
  /\ pc'[c] \in {"draw", "cas", "search"} => hdr'[c] = head[at'[c]]

\* A caller holds the head of a copy that stays whole.
LEMMA TurnHolds ==
  ASSUME DataInv, NEW c \in Callers, Turn(c), UNCHANGED <<index, head, table, agent, next>>
  PROVE  /\ CallersHold'
         /\ agent.at \in {"table", "switch"} =>
              (\A d \in Callers : Busy(d) => at[d] = Cur)'
<1>1. index' = index /\ head' = head /\ table' = table
  OBVIOUS
<1>2. Whole(table[Cur], head[Cur])
  BY DEF DataInv, CallersHold
<1>3. ASSUME NEW d \in Callers
      PROVE  /\ pc'[d] \notin {"idle", "done"} => Whole(table[at'[d]], head[at'[d]])
             /\ pc'[d] \in {"draw", "cas", "search"} => hdr'[d] = head[at'[d]]
  <2>1. CASE d = c
    BY <1>2, <2>1 DEF Turn, DataInv, CallersHold
  <2>2. CASE d # c
    BY <2>2 DEF Turn, DataInv, CallersHold, Busy
  <2> QED
    BY <2>1, <2>2
<1>4. CallersHold'
  BY <1>1, <1>2, <1>3 DEF CallersHold, Busy, Cur
<1>5. ASSUME agent.at \in {"table", "switch"}, NEW d \in Callers, pc'[d] \notin {"idle", "done"}
      PROVE  at'[d] = Cur
  <2>1. \A e \in Callers : Busy(e) => at[e] = Cur
    BY <1>5 DEF DataInv, Stage
  <2>2. CASE d = c
    BY <1>5, <2>1, <2>2 DEF Turn
  <2>3. CASE d # c
    BY <1>5, <2>1, <2>3 DEF Turn, Busy
  <2> QED
    BY <2>2, <2>3
<1> QED
  BY <1>1, <1>4, <1>5 DEF Busy, Cur

\* A caller that counts nothing keeps the invariant.
LEMMA TurnKeeps ==
  ASSUME DataInv, NEW c \in Callers, Turn(c),
         UNCHANGED <<index, head, table, failed, success, agent, next, results>>
  PROVE  DataInv'
<1>1. /\ index' = index /\ head' = head /\ table' = table /\ failed' = failed
      /\ success' = success /\ agent' = agent /\ next' = next
      /\ owed' = owed /\ lost' = lost /\ due' = due
  BY SameDue
<1>2. DataType'
  BY <1>1 DEF DataInv, DataType, Turn
<1>3. CallersHold'
  BY TurnHolds
<1>4. Stage'
  <2>1. agent.at \in {"table", "switch"} => (\A d \in Callers : Busy(d) => at[d] = Cur)'
    BY TurnHolds
  <2>2. /\ Collecting => Collecting'
        /\ Computed => Computed'
        /\ Copied => Copied'
        /\ Merging => Merging'
        /\ head[Spare] = HeadOf(next) => (head[Spare] = HeadOf(next))'
    BY <1>1 DEF Collecting, Computed, Copied, Merging, Sharing, Members, None, Cur, Spare
  <2> QED
    BY <1>1, <2>1, <2>2 DEF DataInv, Stage, Spare
<1>5. NoneElse' /\ Balanced'
  BY <1>1 DEF DataInv, NoneElse, Balanced, Count, Cur, Spare, Members
<1> QED
  BY <1>2, <1>3, <1>4, <1>5 DEF DataInv

\* A report counted in one copy.
LEMMA AddKeeps ==
  ASSUME DataInv, NEW c \in Callers, NEW ok \in BOOLEAN, Add(c, ok)
  PROVE  DataInv'
<1> DEFINE i == at[c]
           s == job[c]
           j == Cur
           k == Spare
<1>1. /\ pc[c] = "find" /\ s \in Members(table[i])
      /\ success' = IF ok THEN [success EXCEPT ![i][s] = @ + 1] ELSE success
      /\ failed' = IF ok THEN failed ELSE [failed EXCEPT ![i][s] = @ + 1]
      /\ owed' = IF InTime(i, s) THEN [owed EXCEPT ![s] = @ + 1] ELSE owed
      /\ pc' = [pc EXCEPT ![c] = "idle"] /\ at' = [at EXCEPT ![c] = 0]
      /\ hdr' = [hdr EXCEPT ![c] = Fresh.head]
      /\ index' = index /\ head' = head /\ table' = table /\ agent' = agent /\ next' = next
      /\ lost' = lost
  BY DEF Add, Go, LetGo, agentSide
<1>2. /\ i \in 0..1 /\ j \in 0..1 /\ k \in 0..1 /\ j # k /\ (i = j \/ i = k)
      /\ failed \in [0..1 -> Counts] /\ success \in [0..1 -> Counts]
      /\ owed \in [Servers -> Int] /\ lost \in [Servers -> Int] /\ due \in [Servers -> Int]
  BY DueInt DEF DataInv, DataType, Cur, Spare
<1>3. s \in Servers
  BY <1>1, <1>2, MembersIn DEF DataInv, DataType, Typed
<1>4. Turn(c)
  BY <1>1 DEF Turn, DataInv, DataType
<1>5. Busy(c)
  BY <1>1 DEF Busy
<1> HIDE DEF i, s
<1>6. /\ failed' \in [0..1 -> Counts] /\ success' \in [0..1 -> Counts]
      /\ \A n \in 0..1, r \in Servers :
           failed'[n][r] + success'[n][r]
             = failed[n][r] + success[n][r] + IF n = i /\ r = s THEN 1 ELSE 0
      /\ \A n \in 0..1 : n # i => failed'[n] = failed[n] /\ success'[n] = success[n]
  <2>0. \A n \in 0..1, r \in Servers : failed[n][r] \in Nat /\ success[n][r] \in Nat
    BY <1>2 DEF Counts
  <2>1. CASE ok
    <3>1. success' = [success EXCEPT ![i][s] = success[i][s] + 1] /\ failed' = failed
      BY <1>1, <2>1 DEF i, s
    <3> DEFINE x == success[i][s] + 1
    <3>2. x \in Nat
      BY <1>2, <1>3, <2>0
    <3> HIDE DEF x
    <3>3. /\ success' \in [0..1 -> Counts] /\ success'[i][s] = x
          /\ \A n \in 0..1 : n # i => success'[n] = success[n]
          /\ \A r \in Servers : r # s => success'[i][r] = success[i][r]
      BY <1>2, <1>3, <3>1, <3>2 DEF Counts, x
    <3> QED
      BY <1>2, <1>3, <2>0, <3>1, <3>3 DEF x
  <2>2. CASE ~ok
    <3>1. failed' = [failed EXCEPT ![i][s] = failed[i][s] + 1] /\ success' = success
      BY <1>1, <2>2 DEF i, s
    <3> DEFINE x == failed[i][s] + 1
    <3>2. x \in Nat
      BY <1>2, <1>3, <2>0
    <3> HIDE DEF x
    <3>3. /\ failed' \in [0..1 -> Counts] /\ failed'[i][s] = x
          /\ \A n \in 0..1 : n # i => failed'[n] = failed[n]
          /\ \A r \in Servers : r # s => failed'[i][r] = failed[i][r]
      BY <1>2, <1>3, <3>1, <3>2 DEF Counts, x
    <3> QED
      BY <1>2, <1>3, <2>0, <3>1, <3>3 DEF x
  <2> QED
    BY <2>1, <2>2
<1>7. /\ owed' \in [Servers -> Int]
      /\ \A r \in Servers : due'[r] = due[r] + IF r = s /\ InTime(i, s) THEN 1 ELSE 0
  <2>1. /\ owed' \in [Servers -> Int]
        /\ \A r \in Servers : owed'[r] = owed[r] + IF r = s /\ InTime(i, s) THEN 1 ELSE 0
    BY <1>1, <1>2, <1>3
  <2>2. \A r \in Servers : /\ due[r] = owed[r] - lost[r] /\ due'[r] = owed'[r] - lost[r]
                           /\ owed[r] \in Int /\ lost[r] \in Int
    BY <1>1, <1>2 DEF due
  <2> QED
    BY <2>1, <2>2
<1>8. DataType'
  BY <1>1, <1>4, <1>6, <1>7 DEF DataInv, DataType, Turn
<1>9. CallersHold'
  BY <1>1, <1>4, TurnHolds
<1>10. Stage'
  <2>1. agent.at \in {"table", "switch"} => (\A d \in Callers : Busy(d) => at[d] = Cur)'
    BY <1>1, <1>4, TurnHolds
  <2>2. /\ Collecting => Collecting'
        /\ Computed => Computed'
        /\ Merging => Merging'
        /\ head[Spare] = HeadOf(next) => (head[Spare] = HeadOf(next))'
    BY <1>1 DEF Collecting, Computed, Copied, Merging, Sharing, Members, None, Cur, Spare
  <2>3. agent.at = "switch" => Copied'
    <3> SUFFICES ASSUME agent.at = "switch" PROVE Copied'
      OBVIOUS
    <3>1. i = j /\ Copied
      BY <1>5 DEF DataInv, Stage, i
    <3>2. failed'[k] = failed[k] /\ success'[k] = success[k]
      BY <1>2, <1>6, <3>1
    <3> QED
      BY <1>1, <3>1, <3>2 DEF Copied, Spare, None
  <2> QED
    BY <1>1, <2>1, <2>2, <2>3 DEF DataInv, Stage, Spare
<1>11. NoneElse'
  <2>1. ASSUME NEW r \in Servers, r \notin Members(table[j])
        PROVE  due'[r] = 0 /\ failed'[j][r] + success'[j][r] = 0
    <3>1. due[r] = 0 /\ failed[j][r] + success[j][r] = 0
      BY <2>1 DEF DataInv, NoneElse, Count
    <3>2. r = s => ~InTime(i, s)
      BY <2>1 DEF InTime
    <3>3. r = s => i # j
      BY <1>1, <2>1 DEF i, s
    <3> QED
      BY <1>2, <1>6, <1>7, <3>1, <3>2, <3>3
  <2> QED
    BY <1>1, <2>1 DEF NoneElse, Count, Cur, Members
<1>12. Balanced'
  <2>1. ASSUME NEW r \in Members(table[j])
        PROVE  due'[r] = failed'[j][r] + success'[j][r]
                 + IF agent.at = "merge" /\ r \in ToSet(agent.todo) /\ r \in Members(table[k])
                   THEN failed'[k][r] + success'[k][r] ELSE 0
    <3> DEFINE late == agent.at = "merge" /\ r \in ToSet(agent.todo) /\ r \in Members(table[k])
               x == failed[j][r] + success[j][r]
               y == failed[k][r] + success[k][r]
               x2 == failed'[j][r] + success'[j][r]
               y2 == failed'[k][r] + success'[k][r]
    <3>1. r \in Servers
      BY <1>2, MembersIn DEF DataInv, DataType, Typed
    <3>2. due[r] = x + IF late THEN y ELSE 0
      BY DEF DataInv, Balanced, Count
    <3>3. x2 = x + (IF j = i /\ r = s THEN 1 ELSE 0) /\ y2 = y + (IF k = i /\ r = s THEN 1 ELSE 0)
      BY <1>2, <1>6, <3>1
    <3>4. due'[r] = due[r] + IF r = s /\ InTime(i, s) THEN 1 ELSE 0
      BY <1>7, <3>1
    <3>5. r = s => (InTime(i, s) <=> i = j \/ late)
      BY <1>1, <1>2 DEF InTime, i, s
    <3>6. x \in Nat /\ y \in Nat /\ due[r] \in Int
      BY <1>2, <3>1, CountNat DEF DataInv, Count
    <3> HIDE DEF late, x, y, x2, y2
    <3>7. due'[r] = x2 + IF late THEN y2 ELSE 0
      <4>1. CASE r = s /\ i = j
        BY <1>2, <3>2, <3>3, <3>4, <3>5, <3>6, <4>1
      <4>2. CASE r = s /\ i = k
        BY <1>2, <3>2, <3>3, <3>4, <3>5, <3>6, <4>2
      <4>3. CASE r # s
        BY <1>2, <3>2, <3>3, <3>4, <3>6, <4>3
      <4> QED
        BY <1>2, <4>1, <4>2, <4>3
    <3> QED
      BY <3>7 DEF late, x2, y2
  <2> QED
    BY <1>1, <2>1 DEF Balanced, Count, Cur, Spare, Members
<1> QED
  BY <1>8, <1>9, <1>10, <1>11, <1>12 DEF DataInv

\* The end of a search.
LEMMA AnswerData ==
  ASSUME DataInv, NEW c \in Callers, NEW s, Answer(c, s),
         UNCHANGED <<index, head, table, failed, success, agent, next, results>>
  PROVE  DataInv'
<1>1. Turn(c)
  BY DEF Answer, Hold, Go, LetGo, Turn, DataInv, DataType
<1> QED
  BY <1>1, TurnKeeps

\* Every step of a caller keeps the invariant.
LEMMA CallerData ==
  ASSUME DataInv, NEW c \in Callers, CallerStep(c)
  PROVE  DataInv'
<1> USE DEF copies, agentSide
<1>0. /\ index \in 0..1 /\ at \in [Callers -> 0..1] /\ DOMAIN pc = Callers /\ DOMAIN hdr = Callers
      /\ pc[c] \in {"draw", "cas", "search"} => hdr[c] = head[at[c]]
  BY DEF DataInv, DataType, CallersHold
<1>1. CASE FindCopy(c)
  <2>1. /\ at' = [at EXCEPT ![c] = index] /\ pc' = [pc EXCEPT ![c] = "look"] /\ hdr' = hdr
    BY <1>1 DEF FindCopy, Go
  <2>2. Turn(c)
    <3>1. at' \in [Callers -> 0..1] /\ DOMAIN pc' = Callers /\ DOMAIN hdr' = Callers
      BY <1>0, <2>1
    <3>2. \A d \in Callers : d # c => pc'[d] = pc[d] /\ at'[d] = at[d] /\ hdr'[d] = hdr[d]
      BY <1>0, <2>1
    <3>3. at'[c] = Cur /\ pc'[c] \notin {"draw", "cas", "search"}
      BY <1>0, <2>1 DEF Cur
    <3> QED
      BY <3>1, <3>2, <3>3 DEF Turn
  <2> QED
    BY <1>1, <2>2, TurnKeeps DEF FindCopy
<1>2. CASE NoServer(c)
  <2>1. Turn(c)
    BY <1>0, <1>2 DEF NoServer, Go, LetGo, Turn
  <2> QED
    BY <1>2, <2>1, TurnKeeps DEF NoServer
<1>3. CASE ReadHead(c)
  <2>1. /\ pc' = [pc EXCEPT ![c] = "any"] \/ pc' = [pc EXCEPT ![c] = "draw"]
        /\ hdr' = [hdr EXCEPT ![c] = head[at[c]]] /\ at' = at /\ Busy(c)
    BY <1>3 DEF ReadHead, Go, Busy
  <2>2. Turn(c)
    BY <1>0, <2>1 DEF Turn
  <2> QED
    BY <1>3, <2>2, TurnKeeps DEF ReadHead
<1>4. CASE AnyServer(c)
  BY <1>4, AnswerData DEF AnyServer
<1>5. CASE DrawDead(c) \/ DrawLive(c) \/ ReadAgain(c)
  <2>1. /\ pc[c] \in {"draw", "cas"} /\ at' = at /\ hdr' = hdr
        /\ pc' = [pc EXCEPT ![c] = "search"] \/ pc' = [pc EXCEPT ![c] = "cas"]
    BY <1>5 DEF DrawDead, DrawLive, ReadAgain, Go
  <2>2. Turn(c)
    BY <1>0, <2>1 DEF Turn, Busy
  <2> QED
    BY <1>5, <2>2, TurnKeeps DEF DrawDead, DrawLive, ReadAgain
<1>6. CASE TryDead(c)
  BY <1>6, AnswerData DEF TryDead, Finds
<1>7. CASE Search(c)
  BY <1>7, AnswerData DEF Search, Finds
<1>8. CASE Report(c)
  <2>1. /\ at' = [at EXCEPT ![c] = index] /\ pc' = [pc EXCEPT ![c] = "find"] /\ hdr' = hdr
    BY <1>8 DEF Report, Go
  <2>2. Turn(c)
    <3>1. at' \in [Callers -> 0..1] /\ DOMAIN pc' = Callers /\ DOMAIN hdr' = Callers
      BY <1>0, <2>1
    <3>2. \A d \in Callers : d # c => pc'[d] = pc[d] /\ at'[d] = at[d] /\ hdr'[d] = hdr[d]
      BY <1>0, <2>1
    <3>3. at'[c] = Cur /\ pc'[c] \notin {"draw", "cas", "search"}
      BY <1>0, <2>1 DEF Cur
    <3> QED
      BY <3>1, <3>2, <3>3 DEF Turn
  <2> QED
    BY <1>8, <2>2, TurnKeeps DEF Report
<1>9. CASE NotFound(c)
  <2>1. Turn(c)
    BY <1>0, <1>9 DEF NotFound, Go, LetGo, Hold, Turn
  <2> QED
    BY <1>9, <2>1, TurnKeeps DEF NotFound
<1>10. CASE \E ok \in BOOLEAN : Add(c, ok)
  BY <1>10, AddKeeps
<1> QED
  BY <1>1, <1>2, <1>3, <1>4, <1>5, <1>6, <1>7, <1>8, <1>9, <1>10 DEF CallerStep

\* The invariant holds at the start.
LEMMA InitData ==
  ASSUME Init
  PROVE  DataInv
<1> DEFINE t == TableOf(Fresh)
           h == Fresh.head
<1>1. Typed(t) /\ Sharing(t) /\ Whole(t, h) /\ h.low = 0
  BY FreshHolds
<1> HIDE DEF t, h
<1>2. /\ index = 0 /\ head = [i \in 0..1 |-> h] /\ table = [i \in 0..1 |-> t]
      /\ failed = [i \in 0..1 |-> None] /\ success = [i \in 0..1 |-> None]
      /\ agent = [at |-> "idle", todo |-> <<>>] /\ next = Private(<<>>)
      /\ pc = [c \in Callers |-> "idle"] /\ at = [c \in Callers |-> 0]
      /\ hdr = [c \in Callers |-> h] /\ owed = None /\ lost = None
  BY DEF Init, t, h
<1>3. /\ table[0] = t /\ table[1] = t /\ head[0] = h /\ head[1] = h
      /\ \A i \in 0..1 : table[i] = t /\ head[i] = h
      /\ Cur = 0 /\ Spare = 1
  BY <1>2 DEF Cur, Spare
<1>4. DataType
  <2>1. next \in PrivateRecords /\ Distinct(next.order)
    <3> DEFINE order == <<>>
               dyn == table[Cur].dyn
    <3>1. order \in Seq(Servers) /\ dyn \in Counts /\ 0 \in Nat /\ Distinct(order)
      BY <1>1, <1>3, EmptyTodo DEF Typed, Counts
    <3>2. next = PrivateRec(order, dyn, {}, None, 0, None, None, 0)
      BY <1>2, PrivateValue
    <3> HIDE DEF order, dyn
    <3>3. PrivateRec(order, dyn, {}, None, 0, None, None, 0) \in PrivateRecords
      BY <3>1, BlankPrivate
    <3>4. next.order = order
      BY <3>2, PrivateFields
    <3> QED
      BY <3>1, <3>2, <3>3, <3>4
  <2>2. agent \in [at : {"idle", "collect", "head", "table", "switch", "merge"},
                   todo : Seq(Servers)]
    BY <1>2, EmptyTodo
  <2>3. /\ failed \in [0..1 -> Counts] /\ success \in [0..1 -> Counts]
        /\ owed \in [Servers -> Int] /\ lost \in [Servers -> Int]
    BY <1>2, NoneCounts DEF Counts
  <2>4. at \in [Callers -> 0..1] /\ DOMAIN pc = Callers /\ DOMAIN hdr = Callers /\ index \in 0..1
    BY <1>2
  <2>5. /\ DOMAIN table = 0..1 /\ \A i \in 0..1 : Typed(table[i]) /\ Sharing(table[i])
        /\ DOMAIN head = 0..1 /\ \A i \in 0..1 : head[i].low \in Nat
    <3>1. DOMAIN table = 0..1 /\ DOMAIN head = 0..1
      BY <1>2
    <3>2. 0 \in Nat
      OBVIOUS
    <3> QED
      BY <1>1, <1>3, <3>1, <3>2
  <2> QED
    BY <2>1, <2>2, <2>3, <2>4, <2>5 DEF DataType
<1>5. CallersHold
  BY <1>1, <1>2, <1>3 DEF CallersHold, Busy
<1>6. Stage
  BY <1>2 DEF Stage
<1>7. \A s \in Servers : due[s] = 0 /\ Count(Cur, s) = 0
  BY <1>2, <1>3, NoneCounts DEF Count, due
<1>8. NoneElse
  BY <1>7 DEF NoneElse
<1>9. Balanced
  <2>1. Members(table[Cur]) \subseteq Servers
    BY <1>1, <1>3, MembersIn DEF Typed
  <2>2. agent.at # "merge"
    BY <1>2
  <2> QED
    BY <1>7, <2>1, <2>2 DEF Balanced
<1> QED
  BY <1>4, <1>5, <1>6, <1>8, <1>9 DEF DataInv

\* It depends on no other variable.
LEMMA SameData ==
  ASSUME DataInv, UNCHANGED <<index, head, table, failed, success, agent, next, callers, results>>
  PROVE  DataInv'
<1>1. /\ index' = index /\ head' = head /\ table' = table /\ failed' = failed
      /\ success' = success /\ agent' = agent /\ next' = next
      /\ owed' = owed /\ lost' = lost /\ due' = due
      /\ pc' = pc /\ at' = at /\ hdr' = hdr
  BY SameDue DEF callers
<1>2. DataType'
  BY <1>1 DEF DataInv, DataType
<1>3. CallersHold'
  BY <1>1 DEF DataInv, CallersHold, Busy, Cur
<1>4. Stage'
  <2>1. /\ Collecting => Collecting'
        /\ Computed => Computed'
        /\ Copied => Copied'
        /\ Merging => Merging'
        /\ head[Spare] = HeadOf(next) => (head[Spare] = HeadOf(next))'
        /\ (\A c \in Callers : Busy(c) => at[c] = Cur)
             => (\A c \in Callers : Busy(c) => at[c] = Cur)'
    BY <1>1 DEF Collecting, Computed, Copied, Merging, Sharing, Members, None, Cur, Spare, Busy
  <2> QED
    BY <1>1, <2>1 DEF DataInv, Stage
<1>5. NoneElse' /\ Balanced'
  BY <1>1 DEF DataInv, NoneElse, Balanced, Count, Cur, Spare, Members
<1> QED
  BY <1>2, <1>3, <1>4, <1>5 DEF DataInv

\* The other steps of the agent and of zookeeper.
LEMMA EventData ==
  ASSUME DataInv, NEW s \in Servers, NEW type, NodeEvent(s, type)
  PROVE  DataInv'
<1>1. UNCHANGED <<index, head, table, failed, success, agent, next, callers, results>>
  BY DEF NodeEvent, copies
<1> QED
  BY <1>1, SameData

\* The invariant is inductive.
LEMMA Inductive ==
  /\ Init => DataInv
  /\ DataInv /\ [Next]_vars => DataInv'
<1>1. Init => DataInv
  BY InitData
<1>2. ASSUME DataInv, [Next]_vars PROVE DataInv'
  <2>1. CASE AgentStep
    BY <1>2, <2>1, AgentDataKeeps
  <2>2. CASE \E set \in SUBSET Servers : Load(set)
    BY <1>2, <2>2, LoadKeeps
  <2>3. CASE Crash
    BY <1>2, <2>3, CrashKeeps
  <2>4. CASE \E s \in Servers, type \in {"dead", "resume"} : NodeEvent(s, type)
    BY <1>2, <2>4, EventData
  <2>5. CASE \E c \in Callers : CallerStep(c)
    BY <1>2, <2>5, CallerData
  <2>6. CASE UNCHANGED vars
    <3>1. UNCHANGED <<index, head, table, failed, success, agent, next, callers, results>>
      BY <2>6 DEF vars, copies
    <3> QED
      BY <1>2, <3>1, SameData
  <2> QED
    BY <1>2, <2>1, <2>2, <2>3, <2>4, <2>5, <2>6 DEF Next, CallerStep
<1> QED
  BY <1>1, <1>2

\* The invariant gives every number drawn its live server, and every live server a share.
LEMMA DataShares ==
  ASSUME DataInv
  PROVE  Shares
<1>1. ASSUME NEW c \in Callers, pc[c] \in {"draw", "cas", "search"}
      PROVE  LET t == table[at[c]] IN
             /\ hdr[c].num = Len(t.order)
             /\ \A r \in 0..hdr[c].deadBase - 1 :
                  LET s == Found(t, hdr[c], r)
                  IN s \notin t.dead /\ r \in t.base[s] .. t.base[s] + t.dyn[s] - 1
  <2> DEFINE t == table[at[c]]
             h == hdr[c]
  <2>1. at[c] \in 0..1 /\ Typed(t)
    BY DEF DataInv, DataType
  <2>2. Whole(t, h)
    BY <1>1 DEF DataInv, CallersHold, Busy
  <2> HIDE DEF t, h
  <2>3. h.num = Len(t.order)
    BY <2>2 DEF Whole
  <2>4. ASSUME NEW r \in 0..h.deadBase - 1
        PROVE  LET s == Found(t, h, r)
               IN s \notin t.dead /\ r \in t.base[s] .. t.base[s] + t.dyn[s] - 1
    BY <2>1, <2>2, SearchFinds
  <2> QED
    BY <2>3, <2>4 DEF t, h
<1>2. FindsShare
  BY <1>1 DEF FindsShare
<1>3. LiveHasShare
  <2>1. Typed(table[Cur]) /\ Sharing(table[Cur])
    BY DEF DataInv, DataType, Cur
  <2>2. DOMAIN table[Cur].order = 1..Len(table[Cur].order)
    BY <2>1, LenProperties DEF Typed
  <2>3. ASSUME NEW i \in 1..Len(table[Cur].order)
        PROVE  table[Cur].order[i] \in Servers /\ table[Cur].order[i] \in Members(table[Cur])
    BY <2>1, <2>2, ElementOfSeq DEF Typed, Members, ToSet
  <2> QED
    BY <2>1, <2>3 DEF LiveHasShare, Sharing
<1> QED
  BY <1>2, <1>3 DEF Shares

\* The types of the copies, the agent, the counts and the callers.
THEOREM TypeCorrect == Spec => []DataType
<1>1. DataInv => DataType
  BY DEF DataInv
<1> QED
  BY <1>1, Inductive, PTL DEF Spec

\* The invariant accounts for every result reported in time.
LEMMA DataConserved ==
  ASSUME DataInv
  PROVE  Conserved
<1>1. /\ DataType /\ owed \in [Servers -> Int] /\ lost \in [Servers -> Int]
      /\ Members(table[Cur]) \subseteq Servers
  BY MembersIn DEF DataInv, DataType, Cur, Typed
<1>2. \A s \in Servers : Count(Cur, s) \in Nat /\ Count(Spare, s) \in Nat
  BY <1>1, CountNat DEF DataType, Cur, Spare
<1>3. \A s \in Servers : Unmerged(s) \in Nat /\ owed[s] \in Int /\ lost[s] \in Int
  BY <1>1, <1>2 DEF Unmerged
<1>4. \A s \in Members(table[Cur]) : owed[s] - lost[s] = Count(Cur, s) + Unmerged(s)
  BY <1>1 DEF DataInv, Balanced, Unmerged, Common, due
<1>5. \A s \in Members(table[Cur]) : owed[s] = Count(Cur, s) + Unmerged(s) + lost[s]
  BY <1>1, <1>2, <1>3, <1>4
<1> QED
  BY <1>5 DEF Conserved

\* Switches, collections, loads and crashes of the agent at any step count no result twice,
\* and lose none but those a dying agent had not merged.
THEOREM ResultsConserved == Spec => []Conserved
<1>1. DataInv => Conserved
  BY DataConserved
<1> QED
  BY <1>1, Inductive, PTL DEF Spec

\* Whatever the agent is doing, a caller finds a live server for every number it may draw,
\* and every live server can be found.
THEOREM SharesFound == Spec => []Shares
<1>1. DataInv => Shares
  BY DataShares
<1> QED
  BY <1>1, Inductive, PTL DEF Spec

-----------------------------------------------------------------------------
(* The retries of dead servers.                                            *)

\* A caller swaps the counter only from a value above zero.
HoldsSome == \A c \in Callers : pc[c] = "cas" => job[c] \in Nat \ {0}

RetryType ==
  /\ index \in 0..1
  /\ retry \in [0..1 -> Nat] /\ probes \in [0..1 -> Nat]
  /\ at \in [Callers -> 0..1]
  /\ DOMAIN pc = Callers /\ DOMAIN job = Callers

IInv == RetryType /\ HoldsSome /\ FewProbes

-----------------------------------------------------------------------------
\* One caller goes on, and comes to the swap only with a retry in hand.
Alone(c) ==
  /\ at' \in [Callers -> 0..1]
  /\ DOMAIN pc' = Callers /\ DOMAIN job' = Callers
  /\ \A d \in Callers \ {c} : pc'[d] = pc[d] /\ job'[d] = job[d]
  /\ pc'[c] = "cas" => job'[c] \in Nat \ {0}

\* A caller that moves alone, and swaps no counter, keeps the invariant.
LEMMA CallerFrame ==
  ASSUME IInv, NEW c \in Callers, Alone(c), UNCHANGED <<index, retry, probes>>
  PROVE  IInv'
<1>1. RetryType'
  BY DEF IInv, RetryType, Alone
<1>2. HoldsSome'
  BY DEF IInv, HoldsSome, Alone
<1>3. FewProbes'
  BY DEF IInv, FewProbes
<1> QED
  BY <1>1, <1>2, <1>3 DEF IInv

\* The agent's steps touch no caller.
LEMMA AgentFrame ==
  ASSUME IInv, UNCHANGED callers, UNCHANGED <<index, retry, probes>>
  PROVE  IInv'
  BY DEF IInv, RetryType, HoldsSome, FewProbes, callers

\* The agent writes a counter only with the copy it belongs to.
LEMMA AgentKeeps ==
  ASSUME IInv, AgentStep
  PROVE  IInv'
<1>1. CASE Update \/ Collect \/ Compute \/ CopyTable \/ Merge \/ Done
  BY <1>1, AgentFrame
     DEF Update, Collect, Compute, CopyTable, Merge, Done, copies
<1>2. CASE CopyHead
  <2>1. /\ UNCHANGED callers /\ UNCHANGED index
        /\ retry' = [retry EXCEPT ![Spare] = IF HeadOf(next).deadNum > 0 THEN 1 ELSE 0]
        /\ probes' = [probes EXCEPT ![Spare] = 0]
    BY <1>2 DEF CopyHead
  <2>2. Spare \in 0..1
    BY DEF Spare, IInv, RetryType
  <2>3. RetryType'
    BY <2>1, <2>2 DEF IInv, RetryType, callers
  <2>4. HoldsSome'
    BY <2>1 DEF IInv, HoldsSome, callers
  <2>5. FewProbes'
    BY <2>1, <2>2 DEF IInv, RetryType, FewProbes
  <2> QED
    BY <2>3, <2>4, <2>5 DEF IInv
<1>3. CASE Switch
  <2>1. UNCHANGED callers /\ UNCHANGED <<retry, probes>> /\ index' = Spare
    BY <1>3 DEF Switch
  <2>2. Spare \in 0..1
    BY DEF Spare, IInv, RetryType
  <2> QED
    BY <2>1, <2>2 DEF IInv, RetryType, HoldsSome, FewProbes, callers
<1> QED
  BY <1>1, <1>2, <1>3 DEF AgentStep

-----------------------------------------------------------------------------
\* The end of a search.
LEMMA AnswerKeeps ==
  ASSUME IInv, NEW c \in Callers, NEW s, Answer(c, s), UNCHANGED <<index, retry, probes>>
  PROVE  IInv'
<1>1. Alone(c)
  BY DEF Answer, Hold, Go, LetGo, Alone, IInv, RetryType
<1> QED
  BY <1>1, CallerFrame

\* The retry is taken out of the counter in the step that tries the server.
LEMMA TryDeadKeeps ==
  ASSUME IInv, NEW c \in Callers, TryDead(c)
  PROVE  IInv'
<1>1. /\ pc[c] = "cas" /\ retry[at[c]] = job[c] /\ UNCHANGED index
      /\ retry' = [retry EXCEPT ![at[c]] = job[c] - 1]
      /\ \/ probes' = [probes EXCEPT ![at[c]] = @ + 1]
         \/ probes' = probes
  BY DEF TryDead, SwapFails, Finds
<1>2. PICK got : /\ pc' = [pc EXCEPT ![c] = "done"] /\ job' = [job EXCEPT ![c] = got]
                 /\ at' = [at EXCEPT ![c] = 0]
  BY DEF TryDead, Finds, Answer, Hold, Go, LetGo
<1>3. at[c] \in 0..1 /\ job[c] \in Nat \ {0}
  BY <1>1 DEF IInv, RetryType, HoldsSome
<1>4. RetryType'
  BY <1>1, <1>2, <1>3 DEF IInv, RetryType
<1>5. HoldsSome'
  BY <1>2 DEF IInv, RetryType, HoldsSome
<1>6. FewProbes'
  BY <1>1, <1>3 DEF IInv, RetryType, FewProbes
<1> QED
  BY <1>4, <1>5, <1>6 DEF IInv

\* Without a retry the search finds live servers only.
LEMMA SearchKeeps ==
  ASSUME IInv, FindsShare, NEW c \in Callers, Search(c)
  PROVE  IInv'
<1> DEFINE found(r) == Found(table[at[c]], hdr[c], r)
<1>1. PICK r \in 0..hdr[c].deadBase - 1 : Finds(c, found(r))
  BY DEF Search
<1>2. found(r) \notin table[at[c]].dead
  BY DEF Search, FindsShare
<1> HIDE DEF found
<1>3. Answer(c, found(r)) /\ probes' = probes
  BY <1>1, <1>2 DEF Finds
<1>4. UNCHANGED <<index, retry>>
  BY DEF Search, copies
<1> QED
  BY <1>3, <1>4, AnswerKeeps

\* Every step of a caller keeps the counters.
LEMMA CallerKeeps ==
  ASSUME IInv, FindsShare, NEW c \in Callers, CallerStep(c)
  PROVE  IInv'
<1>1. CASE FindCopy(c)
  <2>1. Alone(c)
    BY <1>1 DEF FindCopy, Go, Hold, Alone, IInv, RetryType
  <2> QED
    BY <1>1, <2>1, CallerFrame DEF FindCopy, copies
<1>2. CASE NoServer(c)
  <2>1. Alone(c)
    BY <1>2 DEF NoServer, Go, LetGo, Alone, IInv, RetryType
  <2> QED
    BY <1>2, <2>1, CallerFrame DEF NoServer, copies
<1>3. CASE ReadHead(c)
  <2>1. pc' = [pc EXCEPT ![c] = "any"] \/ pc' = [pc EXCEPT ![c] = "draw"]
    BY <1>3 DEF ReadHead, Go
  <2>2. Alone(c)
    BY <1>3, <2>1 DEF ReadHead, Alone, IInv, RetryType
  <2> QED
    BY <1>3, <2>2, CallerFrame DEF ReadHead, copies
<1>4. CASE AnyServer(c)
  BY <1>4, AnswerKeeps DEF AnyServer, copies
<1>5. CASE DrawDead(c) \/ ReadAgain(c)
  <2>1. /\ pc' = [pc EXCEPT ![c] = IF retry[at[c]] = 0 THEN "search" ELSE "cas"]
        /\ job' = [job EXCEPT ![c] = retry[at[c]]]
        /\ UNCHANGED <<index, retry, probes, at>>
    BY <1>5 DEF DrawDead, ReadAgain, Go, Hold, copies
  <2>2. retry[at[c]] \in Nat
    BY DEF IInv, RetryType
  <2>3. Alone(c)
    BY <2>1, <2>2 DEF Alone, IInv, RetryType
  <2> QED
    BY <2>1, <2>3, CallerFrame
<1>6. CASE DrawLive(c)
  <2>1. Alone(c)
    BY <1>6 DEF DrawLive, Go, Alone, IInv, RetryType
  <2> QED
    BY <1>6, <2>1, CallerFrame DEF DrawLive, copies
<1>7. CASE TryDead(c)
  BY <1>7, TryDeadKeeps
<1>8. CASE Search(c)
  BY <1>8, SearchKeeps
<1>9. CASE Report(c)
  <2>1. Alone(c)
    BY <1>9 DEF Report, Go, Alone, IInv, RetryType
  <2> QED
    BY <1>9, <2>1, CallerFrame DEF Report, copies
<1>10. CASE NotFound(c)
  <2>1. Alone(c)
    BY <1>10 DEF NotFound, Go, LetGo, Hold, Alone, IInv, RetryType
  <2> QED
    BY <1>10, <2>1, CallerFrame DEF NotFound, copies
<1>11. CASE \E ok \in BOOLEAN : Add(c, ok)
  <2>1. /\ pc' = [pc EXCEPT ![c] = "idle"] /\ job' = [job EXCEPT ![c] = 0]
        /\ at' = [at EXCEPT ![c] = 0] /\ UNCHANGED <<index, retry, probes>>
    BY <1>11 DEF Add, Go, LetGo, Hold
  <2>2. Alone(c)
    BY <2>1 DEF Alone, IInv, RetryType
  <2> QED
    BY <2>1, <2>2, CallerFrame
<1> QED
  BY <1>1, <1>2, <1>3, <1>4, <1>5, <1>6, <1>7, <1>8, <1>9, <1>10, <1>11 DEF CallerStep

-----------------------------------------------------------------------------
\* The counters never hold more than one retry, a server found dead in the range of the dead
\* uses it up, and the search among the live ones finds none.
THEOREM FewProbesEver == Spec => []FewProbes
<1>1. Init => IInv
  BY DEF Init, IInv, RetryType, HoldsSome, FewProbes
<1>2. ASSUME IInv, FindsShare, [Next]_vars
      PROVE  IInv'
  <2>1. CASE AgentStep
    BY <1>2, <2>1, AgentKeeps
  <2>2. CASE (\E set \in SUBSET Servers : Load(set)) \/ Crash
             \/ \E s \in Servers, type \in {"dead", "resume"} : NodeEvent(s, type)
    BY <1>2, <2>2, AgentFrame DEF Load, Crash, NodeEvent, copies
  <2>3. CASE \E c \in Callers : CallerStep(c)
    BY <1>2, <2>3, CallerKeeps
  <2>4. CASE UNCHANGED vars
    BY <1>2, <2>4, AgentFrame DEF vars, copies
  <2> QED
    BY <1>2, <2>1, <2>2, <2>3, <2>4 DEF Next, CallerStep
<1>3. IInv => FewProbes
  BY DEF IInv
<1>4. Shares => FindsShare
  BY DEF Shares
<1> QED
  BY <1>1, <1>2, <1>3, <1>4, SharesFound, PTL DEF Spec
=============================================================================
