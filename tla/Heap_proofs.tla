---------------------------- MODULE Heap_proofs ----------------------------
(***************************************************************************)
(* The heap of timers, for any number of entries and any capacity: the     *)
(* positions kept in the entries are right and an operation touches no     *)
(* entry but its own.  Up to five entries its top is the earliest one.     *)
(***************************************************************************)
EXTENDS Heap, SequenceTheorems, WellFoundedInduction, TLAPS

-----------------------------------------------------------------------------
(* Loops: a loop that comes down in a measure defines a function, and what is   *)
(* true where it ends and kept by its steps is true of that function.           *)

\* A set of numbers that is not empty has a least one.
LEMMA Least ==
  ASSUME NEW T \in SUBSET Nat, T # {}
  PROVE  \E i \in T : \A j \in T : i <= j
<1>1. PICK i \in T : \A j \in T : ~(<<j, i>> \in OpToRel(<, Nat))
  BY WFMin, NatLessThanWellFounded
<1>2. \A j \in T : ~(j < i)
  BY <1>1 DEF OpToRel
<1> QED
  BY <1>2

\* What holds of each element if it holds of those below it holds of all.
LEMMA Descent ==
  ASSUME NEW D, NEW m \in [D -> Nat], NEW Good,
         \A d \in D : (\A e \in D : m[e] < m[d] => e \in Good) => d \in Good
  PROVE  D \subseteq Good
<1> DEFINE T == {m[d] : d \in D \ Good}
<1>1. SUFFICES ASSUME T # {} PROVE FALSE
  OBVIOUS
<1>2. T \in SUBSET Nat
  OBVIOUS
<1>3. PICK i \in T : \A j \in T : i <= j
  <2> HIDE DEF T
  <2> QED
    BY <1>1, <1>2, Least
<1>4. PICK d \in D \ Good : i = m[d]
  OBVIOUS
<1>5. \A e \in D : m[e] < m[d] => e \in Good
  BY <1>3, <1>4, SMTT(40)
<1> QED
  BY <1>4, <1>5

\* A loop steps from d to nx[d] until it is in stop, where it returns out[d].
ComesDown(D, m, stop, nx) ==
  /\ m \in [D -> Nat] /\ nx \in [D -> D]
  /\ \A d \in D : d \notin stop => m[nx[d]] < m[d]
Computes(f, D, stop, nx, out) ==
  f = [d \in D |-> IF d \in stop THEN out[d] ELSE f[nx[d]]]

\* A loop that comes down in a measure defines a function.
LEMMA LoopExists ==
  ASSUME NEW D, NEW m, NEW stop, NEW nx, NEW out, ComesDown(D, m, stop, nx)
  PROVE  \E f : Computes(f, D, stop, nx, out)
<1> USE DEF ComesDown, Computes
<1> DEFINE Step(f, d) == IF d \in stop THEN out[d] ELSE f[nx[d]]
           Below(n) == {d \in D : m[d] < n}
           Upto(f, n) == f = [d \in Below(n) |-> Step(f, d)]
<1>1. ASSUME NEW n, NEW f, Upto(f, n), NEW d \in D, m[d] < n
      PROVE  f[d] = Step(f, d)
  <2>1. d \in Below(n)
    BY <1>1
  <2> HIDE DEF Below
  <2> DEFINE g == [e \in Below(n) |-> Step(f, e)]
  <2>2. g[d] = Step(f, d)
    BY <2>1
  <2>3. f = g
    BY <1>1
  <2> QED
    BY <2>2, <2>3
<1>2. ASSUME NEW n \in Nat PROVE \E f : Upto(f, n)
  <2> DEFINE Good == {k \in Nat : \E f : Upto(f, k)}
             id == [k \in Nat |-> k]
  <2>1. ASSUME NEW k \in Nat, \A j \in Nat : id[j] < id[k] => j \in Good
        PROVE  k \in Good
    <3>1. CASE k = 0
      <4>1. Below(0) = {}
        OBVIOUS
      <4> DEFINE f == [d \in {} |-> 0]
      <4>2. Upto(f, 0)
        BY <4>1
      <4> QED
        BY <4>2, <3>1
    <3>2. CASE k # 0
      <4>1. k - 1 \in Nat /\ id[k - 1] < id[k]
        BY <3>2
      <4>2. PICK g : Upto(g, k - 1)
        BY <4>1, <2>1
      <4> DEFINE f == [d \in Below(k) |-> Step(g, d)]
      <4>3. ASSUME NEW d \in Below(k) PROVE Step(g, d) = Step(f, d)
        <5>1. CASE d \in stop
          BY <5>1
        <5>2. CASE d \notin stop
          <6>1. nx[d] \in D /\ m[nx[d]] < k - 1 /\ nx[d] \in Below(k)
            BY <5>2, <4>1
          <6>2. g[nx[d]] = Step(g, nx[d])
            BY <6>1, <4>2, <1>1
          <6>3. f[nx[d]] = Step(g, nx[d])
            BY <6>1
          <6> QED
            BY <5>2, <6>2, <6>3
        <5> QED
          BY <5>1, <5>2
      <4>4. Upto(f, k)
        <5> HIDE DEF Below, Step
        <5> QED
          BY <4>3
      <4> QED
        BY <4>4
    <3> QED
      BY <3>1, <3>2
  <2>2. id \in [Nat -> Nat]
    OBVIOUS
  <2>3. Nat \subseteq Good
    <3> HIDE DEF id, Good
    <3> QED
      BY <2>1, <2>2, Descent
  <2> QED
    BY <2>3
<1>3. ASSUME NEW n \in Nat, NEW k \in Nat, NEW f, NEW g, Upto(f, n), Upto(g, k)
      PROVE  \A d \in D : m[d] < n /\ m[d] < k => f[d] = g[d]
  <2> DEFINE Good == {d \in D : m[d] < n /\ m[d] < k => f[d] = g[d]}
  <2>1. ASSUME NEW d \in D, \A e \in D : m[e] < m[d] => e \in Good
        PROVE  d \in Good
    <3>1. SUFFICES ASSUME m[d] < n, m[d] < k PROVE f[d] = g[d]
      OBVIOUS
    <3>2. f[d] = Step(f, d)
      BY <3>1, <1>1, <1>3
    <3>3. g[d] = Step(g, d)
      BY <3>1, <1>1, <1>3
    <3>4. CASE d \in stop
      BY <3>2, <3>3, <3>4
    <3>5. CASE d \notin stop
      <4>1. nx[d] \in D /\ m[nx[d]] < m[d] /\ m[nx[d]] < n /\ m[nx[d]] < k
        BY <3>1, <3>5
      <4>2. f[nx[d]] = g[nx[d]]
        BY <4>1, <2>1
      <4> QED
        BY <3>2, <3>3, <3>5, <4>2
    <3> QED
      BY <3>4, <3>5
  <2>2. D \subseteq Good
    <3> HIDE DEF Good, Upto
    <3> QED
      BY <2>1, Descent
  <2> QED
    BY <2>2
<1> DEFINE At(d) == CHOOSE f : Upto(f, m[d] + 1)
           F == [d \in D |-> At(d)[d]]
<1>4. ASSUME NEW d \in D PROVE Upto(At(d), m[d] + 1)
  <2>1. m[d] + 1 \in Nat
    OBVIOUS
  <2>2. \E f : Upto(f, m[d] + 1)
    BY <2>1, <1>2
  <2> HIDE DEF Upto
  <2> QED
    BY <2>2
<1>5. ASSUME NEW d \in D PROVE At(d)[d] = Step(F, d)
  <2>1. At(d)[d] = Step(At(d), d)
    <3> HIDE DEF Upto, At, Step
    <3>1. m[d] < m[d] + 1
      OBVIOUS
    <3> QED
      BY <3>1, <1>1, <1>4
  <2>2. CASE d \in stop
    BY <2>1, <2>2
  <2>3. CASE d \notin stop
    <3>1. nx[d] \in D /\ m[nx[d]] < m[d] + 1 /\ m[nx[d]] < m[nx[d]] + 1
          /\ m[d] + 1 \in Nat /\ m[nx[d]] + 1 \in Nat
      BY <2>3
    <3>2. At(d)[nx[d]] = At(nx[d])[nx[d]]
      <4> HIDE DEF Upto, At
      <4> QED
        BY <3>1, <1>3, <1>4
    <3>3. F[nx[d]] = At(nx[d])[nx[d]]
      <4> HIDE DEF At
      <4> QED
        BY <3>1
    <3> QED
      BY <2>1, <2>3, <3>2, <3>3
  <2> QED
    BY <2>2, <2>3
<1>6. F = [d \in D |-> Step(F, d)]
  <2> HIDE DEF At, Step
  <2> QED
    BY <1>5
<1> QED
  BY <1>6

\* What holds where a loop starts and is kept by its steps holds where it ends.
LEMMA LoopRule ==
  ASSUME NEW D, NEW m, NEW stop, NEW nx, NEW out, ComesDown(D, m, stop, nx),
         NEW f, Computes(f, D, stop, nx, out),
         NEW Inv \in SUBSET D, \A d \in Inv : d \notin stop => nx[d] \in Inv,
         NEW start \in Inv
  PROVE  \E d \in Inv : d \in stop /\ f[start] = out[d]
<1> USE DEF ComesDown, Computes
<1> DEFINE Ends(s) == \E d \in Inv : d \in stop /\ f[s] = out[d]
           Good == {s \in D : s \in Inv => Ends(s)}
<1>1. ASSUME NEW s \in D, \A e \in D : m[e] < m[s] => e \in Good
      PROVE  s \in Good
  <2>1. SUFFICES ASSUME s \in Inv PROVE Ends(s)
    OBVIOUS
  <2>2. f[s] = IF s \in stop THEN out[s] ELSE f[nx[s]]
    <3> DEFINE g == [d \in D |-> IF d \in stop THEN out[d] ELSE f[nx[d]]]
    <3>1. g[s] = IF s \in stop THEN out[s] ELSE f[nx[s]]
      OBVIOUS
    <3>2. f = g
      OBVIOUS
    <3> QED
      BY <3>1, <3>2
  <2>3. CASE s \in stop
    BY <2>1, <2>2, <2>3
  <2>4. CASE s \notin stop
    <3>1. nx[s] \in D /\ nx[s] \in Inv /\ m[nx[s]] < m[s]
      BY <2>1, <2>4
    <3>2. Ends(nx[s])
      BY <3>1, <1>1
    <3> QED
      BY <3>2, <2>2, <2>4
  <2> QED
    BY <2>3, <2>4
<1>2. D \subseteq Good
  <2> HIDE DEF Good
  <2> QED
    BY <1>1, Descent
<1> QED
  BY <1>2

-----------------------------------------------------------------------------
(* The two loops of the heap. *)

UpPlaces == {p \in Places : p.at <= Len(p.heap.list)}
Parent(s) == s.at \div 2

LEMMA ExchangeType ==
  ASSUME NEW h \in Heaps, NEW i \in 1..Len(h.list), NEW j \in 1..Len(h.list)
  PROVE  /\ Exchange(h, i, j) \in Heaps
         /\ Len(Exchange(h, i, j).list) = Len(h.list)
         /\ \A k \in 1..Len(h.list) :
              Exchange(h, i, j).list[k] = IF k = j THEN h.list[i]
                                          ELSE IF k = i THEN h.list[j] ELSE h.list[k]
         /\ \A e \in Entries :
              Exchange(h, i, j).index[e] = IF e = h.list[i] THEN j
                                           ELSE IF e = h.list[j] THEN i ELSE h.index[e]
<1> DEFINE l == h.list
           x == h.index
<1>1. l \in Seq(Entries) /\ x \in [Entries -> Nat]
  BY DEF Heaps
<1>2. l[i] \in Entries /\ l[j] \in Entries /\ i \in Nat /\ j \in Nat
  <2> HIDE DEF l
  <2> QED
    BY <1>1, ElementOfSeq, LenProperties DEF l
<1> DEFINE la == [l EXCEPT ![i] = l[j]]
           lb == [la EXCEPT ![j] = l[i]]
           xa == [x EXCEPT ![l[j]] = i]
           xb == [xa EXCEPT ![l[i]] = j]
<1>3. Exchange(h, i, j) = [list |-> lb, index |-> xb]
  BY DEF Exchange, PutAt
<1> HIDE DEF l, x
<1>4. la \in Seq(Entries) /\ Len(la) = Len(l)
      /\ \A k \in 1..Len(l) : la[k] = IF k = i THEN l[j] ELSE l[k]
  BY <1>1, <1>2, ExceptSeq, LenProperties DEF l
<1> HIDE DEF la
<1>5. lb \in Seq(Entries) /\ Len(lb) = Len(l)
      /\ \A k \in 1..Len(l) : lb[k] = IF k = j THEN l[i] ELSE la[k]
  BY <1>1, <1>2, <1>4, ExceptSeq, LenProperties, SMTT(40) DEF l
<1>6. xb \in [Entries -> Nat]
      /\ \A e \in Entries : xb[e] = IF e = l[i] THEN j ELSE IF e = l[j] THEN i ELSE x[e]
  BY <1>1, <1>2
<1> HIDE DEF lb, xb, xa
<1>7. \A k \in 1..Len(l) : lb[k] = IF k = j THEN l[i] ELSE IF k = i THEN l[j] ELSE l[k]
  BY <1>4, <1>5
<1>8. [list |-> lb, index |-> xb] \in Heaps
  BY <1>5, <1>6 DEF Heaps
<1>9. Exchange(h, i, j).list = lb /\ Exchange(h, i, j).index = xb
  BY <1>3
<1> QED
  BY <1>3, <1>5, <1>6, <1>7, <1>8, <1>9 DEF l, x

\* A step of HeapUp stays in the array and comes nearer to its top.
LEMMA UpStep ==
  ASSUME NEW v, NEW s \in UpPlaces, Climbs(v, s)
  PROVE  /\ Parent(s) \in 1..Len(s.heap.list) /\ Parent(s) < s.at
         /\ s.at \in 1..Len(s.heap.list)
         /\ MoveTo(s, Parent(s)) \in UpPlaces
<1>1. s.heap \in Heaps /\ s.at \in Nat \ {0} /\ s.at <= Len(s.heap.list)
      /\ s.heap.list \in Seq(Entries)
  BY DEF UpPlaces, Places, Heaps
<1>2. Len(s.heap.list) \in Nat
  BY <1>1, LenProperties
<1>3. Parent(s) >= 1 /\ Parent(s) \in Nat /\ Parent(s) < s.at
  BY <1>1 DEF Climbs, Parent
<1>4. /\ Parent(s) \in 1..Len(s.heap.list) /\ s.at \in 1..Len(s.heap.list)
      /\ Parent(s) \in Nat \ {0}
  BY <1>1, <1>2, <1>3
<1> DEFINE g == Exchange(s.heap, s.at, Parent(s))
<1>5. g \in Heaps /\ Len(g.list) = Len(s.heap.list)
  BY <1>1, <1>4, ExchangeType
<1>6. MoveTo(s, Parent(s)) = [at |-> Parent(s), heap |-> g]
  BY DEF MoveTo
<1> HIDE DEF g
<1> QED
  BY <1>1, <1>2, <1>3, <1>4, <1>5, <1>6 DEF UpPlaces, Places

\* HeapUp ends in a place where it does not climb, with whatever its steps keep.
LEMMA UpRule ==
  ASSUME NEW v, NEW h \in Heaps, NEW Inv \in SUBSET UpPlaces,
         [at |-> Len(h.list), heap |-> h] \in Inv,
         \A s \in Inv : Climbs(v, s) => MoveTo(s, Parent(s)) \in Inv
  PROVE  \E s \in Inv : ~Climbs(v, s) /\ HeapUp(v, h) = s.heap
<1> DEFINE Up(f) == f = [s \in UpPlaces |->
                           IF Climbs(v, s) THEN f[MoveTo(s, Parent(s))] ELSE s.heap]
           up == CHOOSE f : Up(f)
           start == [at |-> Len(h.list), heap |-> h]
           m == [s \in UpPlaces |-> s.at]
           stop == {s \in UpPlaces : ~Climbs(v, s)}
           nx == [s \in UpPlaces |-> IF Climbs(v, s) THEN MoveTo(s, Parent(s)) ELSE s]
           out == [s \in UpPlaces |-> s.heap]
           Loop(f) == Computes(f, UpPlaces, stop, nx, out)
<1>1. HeapUp(v, h) = up[start]
  BY DEF HeapUp, UpPlaces, Parent
<1>2. ComesDown(UpPlaces, m, stop, nx)
  <2>1. \A s \in UpPlaces : s.at \in Nat
    BY DEF UpPlaces, Places
  <2>2. ASSUME NEW s \in UpPlaces, Climbs(v, s)
        PROVE  MoveTo(s, Parent(s)) \in UpPlaces /\ MoveTo(s, Parent(s)).at < s.at
    BY <2>2, UpStep DEF MoveTo
  <2> QED
    BY <2>1, <2>2 DEF ComesDown
<1>3. ASSUME NEW f PROVE Loop(f) <=> Up(f)
  <2>1. ASSUME NEW d \in UpPlaces
        PROVE  (IF d \in stop THEN out[d] ELSE f[nx[d]])
               = (IF Climbs(v, d) THEN f[MoveTo(d, Parent(d))] ELSE d.heap)
    OBVIOUS
  <2> QED
    BY <2>1 DEF Computes
<1> HIDE DEF m, stop, nx, out
<1>4. \E f : Loop(f)
  BY <1>2, LoopExists
<1> HIDE DEF Up
<1>5. Loop(up)
  <2> HIDE DEF Loop
  <2> QED
    BY <1>3, <1>4
<1> HIDE DEF up
<1>6. \A d \in Inv : d \notin stop => nx[d] \in Inv
  BY DEF stop, nx
<1>7. start \in Inv
  OBVIOUS
<1> HIDE DEF start
<1>8. \E d \in Inv : d \in stop /\ up[start] = out[d]
  BY <1>2, <1>5, <1>6, <1>7, LoopRule
<1> QED
  BY <1>1, <1>8 DEF stop, out

\* A step of HeapDown stays in the array and comes nearer to its end.
LEMMA DownStep ==
  ASSUME NEW v, NEW s \in Places, Sinks(v, s)
  PROVE  /\ MinSon(v, s) \in {2 * s.at, 2 * s.at + 1}
         /\ MinSon(v, s) \in 1..Len(s.heap.list) /\ s.at < MinSon(v, s)
         /\ s.at \in 1..Len(s.heap.list)
         /\ MoveTo(s, MinSon(v, s)) \in Places
         /\ Len(MoveTo(s, MinSon(v, s)).heap.list) = Len(s.heap.list)
<1>1. s.heap \in Heaps /\ s.at \in Nat \ {0} /\ s.heap.list \in Seq(Entries)
  BY DEF Places, Heaps
<1>2. Len(s.heap.list) \in Nat
  BY <1>1, LenProperties
<1>3. 2 * s.at <= Len(s.heap.list)
  BY DEF Sinks
<1>4. \/ MinSon(v, s) = 2 * s.at
      \/ MinSon(v, s) = 2 * s.at + 1 /\ 2 * s.at < Len(s.heap.list)
  BY DEF MinSon
<1>5. /\ MinSon(v, s) \in 1..Len(s.heap.list) /\ s.at < MinSon(v, s)
      /\ s.at \in 1..Len(s.heap.list) /\ MinSon(v, s) \in Nat \ {0}
  BY <1>1, <1>2, <1>3, <1>4
<1> DEFINE g == Exchange(s.heap, s.at, MinSon(v, s))
<1>6. g \in Heaps /\ Len(g.list) = Len(s.heap.list)
  BY <1>1, <1>5, ExchangeType
<1>7. MoveTo(s, MinSon(v, s)) = [at |-> MinSon(v, s), heap |-> g]
  BY DEF MoveTo
<1> HIDE DEF g
<1> QED
  BY <1>4, <1>5, <1>6, <1>7 DEF Places

\* HeapDown ends in a place where it does not sink, with whatever its steps keep.
LEMMA DownRule ==
  ASSUME NEW v, NEW h \in Heaps, NEW from \in Nat \ {0}, NEW Inv \in SUBSET Places,
         [at |-> from, heap |-> h] \in Inv,
         \A s \in Inv : Sinks(v, s) => MoveTo(s, MinSon(v, s)) \in Inv
  PROVE  \E s \in Inv : ~Sinks(v, s) /\ HeapDown(v, h, from) = s.heap
<1> DEFINE Down(f) == f = [s \in Places |->
                             IF Sinks(v, s) THEN f[MoveTo(s, MinSon(v, s))] ELSE s.heap]
           down == CHOOSE f : Down(f)
           start == [at |-> from, heap |-> h]
           m == [s \in Places |-> IF s.at <= Len(s.heap.list)
                                  THEN Len(s.heap.list) + 1 - s.at ELSE 0]
           stop == {s \in Places : ~Sinks(v, s)}
           nx == [s \in Places |-> IF Sinks(v, s) THEN MoveTo(s, MinSon(v, s)) ELSE s]
           out == [s \in Places |-> s.heap]
           Loop(f) == Computes(f, Places, stop, nx, out)
<1>1. HeapDown(v, h, from) = down[start]
  BY DEF HeapDown
<1>2. ComesDown(Places, m, stop, nx)
  <2>1. ASSUME NEW s \in Places PROVE s.at \in Nat /\ Len(s.heap.list) \in Nat
    <3>1. s.heap.list \in Seq(Entries) /\ s.at \in Nat
      BY DEF Places, Heaps
    <3> QED
      BY <3>1, LenProperties
  <2>2. ASSUME NEW s \in Places, Sinks(v, s)
        PROVE  /\ MoveTo(s, MinSon(v, s)) \in Places
               /\ m[MoveTo(s, MinSon(v, s))] < m[s]
    <3>1. /\ MoveTo(s, MinSon(v, s)) \in Places
          /\ MoveTo(s, MinSon(v, s)).at = MinSon(v, s)
          /\ MinSon(v, s) \in 1..Len(s.heap.list) /\ s.at < MinSon(v, s)
          /\ Len(MoveTo(s, MinSon(v, s)).heap.list) = Len(s.heap.list)
      BY <2>2, DownStep DEF MoveTo
    <3> DEFINE t == MoveTo(s, MinSon(v, s))
    <3>2. m[t] = Len(s.heap.list) + 1 - MinSon(v, s)
      BY <3>1, <2>1
    <3>3. m[s] = Len(s.heap.list) + 1 - s.at
      BY <3>1, <2>1
    <3> HIDE DEF t, m
    <3> QED
      BY <2>1, <3>1, <3>2, <3>3 DEF t
  <2>3. m \in [Places -> Nat]
    BY <2>1
  <2> QED
    BY <2>2, <2>3 DEF ComesDown
<1>3. ASSUME NEW f PROVE Loop(f) <=> Down(f)
  <2>1. ASSUME NEW d \in Places
        PROVE  (IF d \in stop THEN out[d] ELSE f[nx[d]])
               = (IF Sinks(v, d) THEN f[MoveTo(d, MinSon(v, d))] ELSE d.heap)
    OBVIOUS
  <2> QED
    BY <2>1 DEF Computes
<1> HIDE DEF m, stop, nx, out
<1>4. \E f : Loop(f)
  BY <1>2, LoopExists
<1> HIDE DEF Down
<1>5. Loop(down)
  <2> HIDE DEF Loop
  <2> QED
    BY <1>3, <1>4
<1> HIDE DEF down
<1>6. \A d \in Inv : d \notin stop => nx[d] \in Inv
  BY DEF stop, nx
<1>7. start \in Inv
  OBVIOUS
<1> HIDE DEF start
<1>8. \E d \in Inv : d \in stop /\ down[start] = out[d]
  BY <1>2, <1>5, <1>6, <1>7, LoopRule
<1> QED
  BY <1>1, <1>8 DEF stop, out

-----------------------------------------------------------------------------
(* What both loops keep: who is inside, and that everybody knows where. *)

\* An entry that is inside knows where it is.
Placed(h) == \A i \in 1..Len(h.list) : h.index[h.list[i]] = i

\* g holds the entries of h, perhaps in another order.
Kept(h, g) ==
  /\ g \in Heaps /\ Placed(g) /\ Len(g.list) = Len(h.list)
  /\ \A e \in Entries : e \in Elems(g.list) <=> e \in Elems(h.list)
  /\ \A e \in Entries : e \notin Elems(h.list) => g.index[e] = h.index[e]

LEMMA HeapType ==
  ASSUME NEW h \in Heaps
  PROVE  /\ h.list \in Seq(Entries) /\ Len(h.list) \in Nat
         /\ DOMAIN h.list = 1..Len(h.list)
         /\ h.index \in [Entries -> Nat] /\ \A i \in 1..Len(h.list) : h.list[i] \in Entries
<1>1. h.list \in Seq(Entries) /\ h.index \in [Entries -> Nat]
  BY DEF Heaps
<1> QED
  BY <1>1, LenProperties, ElementOfSeq

LEMMA ExchangeKeeps ==
  ASSUME NEW h \in Heaps, Placed(h), NEW i \in 1..Len(h.list), NEW j \in 1..Len(h.list)
  PROVE  Kept(h, Exchange(h, i, j))
<1> DEFINE g == Exchange(h, i, j)
<1>1. /\ g \in Heaps /\ Len(g.list) = Len(h.list)
      /\ \A k \in 1..Len(h.list) :
           g.list[k] = IF k = j THEN h.list[i] ELSE IF k = i THEN h.list[j] ELSE h.list[k]
      /\ \A e \in Entries : g.index[e] = IF e = h.list[i] THEN j
                                         ELSE IF e = h.list[j] THEN i ELSE h.index[e]
  BY ExchangeType
<1> HIDE DEF g
<1>2. /\ Len(h.list) \in Nat /\ DOMAIN h.list = 1..Len(h.list)
      /\ \A k \in 1..Len(h.list) : h.list[k] \in Entries
  BY HeapType
<1>3. DOMAIN g.list = 1..Len(h.list) /\ \A k \in 1..Len(h.list) : g.list[k] \in Entries
  BY <1>1, HeapType
<1>4. Placed(g)
  <2> SUFFICES ASSUME NEW k \in 1..Len(h.list) PROVE g.index[g.list[k]] = k
    BY <1>1 DEF Placed
  <2>1. \A a, b \in 1..Len(h.list) : h.list[a] = h.list[b] => a = b
    BY DEF Placed
  <2>2. h.index[h.list[k]] = k
    BY DEF Placed
  <2>3. CASE k = j
    BY <2>3, <1>1, <1>2
  <2>4. CASE k # j /\ k = i
    BY <2>4, <1>1, <1>2, <2>1
  <2>5. CASE k # j /\ k # i
    BY <2>5, <1>1, <1>2, <2>1, <2>2
  <2> QED
    BY <2>3, <2>4, <2>5
<1>5. ASSUME NEW e \in Entries PROVE e \in Elems(g.list) <=> e \in Elems(h.list)
  <2>1. ASSUME e \in Elems(g.list) PROVE e \in Elems(h.list)
    <3>1. PICK k \in 1..Len(h.list) : e = g.list[k]
      BY <2>1, <1>3 DEF Elems
    <3>2. e = h.list[i] \/ e = h.list[j] \/ e = h.list[k]
      BY <3>1, <1>1
    <3> QED
      BY <3>2, <1>2 DEF Elems
  <2>2. ASSUME e \in Elems(h.list) PROVE e \in Elems(g.list)
    <3>1. PICK k \in 1..Len(h.list) : e = h.list[k]
      BY <2>2, <1>2 DEF Elems
    <3>2. e = g.list[i] \/ e = g.list[j] \/ e = g.list[k]
      BY <3>1, <1>1
    <3> QED
      BY <3>2, <1>3 DEF Elems
  <2> QED
    BY <2>1, <2>2
<1>6. ASSUME NEW e \in Entries, e \notin Elems(h.list) PROVE g.index[e] = h.index[e]
  <2>1. e # h.list[i] /\ e # h.list[j]
    BY <1>6, <1>2 DEF Elems
  <2> QED
    BY <2>1, <1>1
<1> QED
  BY <1>1, <1>4, <1>5, <1>6 DEF Kept, g

LEMMA KeptTwice ==
  ASSUME NEW h, NEW g, NEW k, Kept(h, g), Kept(g, k)
  PROVE  Kept(h, k)
BY DEF Kept

LEMMA UpKeeps ==
  ASSUME NEW v, NEW h \in Heaps, Placed(h), h.list # <<>>
  PROVE  Kept(h, HeapUp(v, h))
<1> DEFINE Inv == {s \in UpPlaces : Kept(h, s.heap)}
<1>1. [at |-> Len(h.list), heap |-> h] \in Inv
  <2>1. Len(h.list) \in Nat \ {0}
    BY HeapType, LenProperties, EmptySeq
  <2>2. Kept(h, h)
    BY DEF Kept
  <2> QED
    BY <2>1, <2>2 DEF UpPlaces, Places
<1>2. ASSUME NEW s \in Inv, Climbs(v, s) PROVE MoveTo(s, Parent(s)) \in Inv
  <2>1. /\ Parent(s) \in 1..Len(s.heap.list) /\ s.at \in 1..Len(s.heap.list)
        /\ MoveTo(s, Parent(s)) \in UpPlaces
    BY <1>2, UpStep
  <2>2. Kept(s.heap, Exchange(s.heap, s.at, Parent(s)))
    BY <2>1, ExchangeKeeps DEF Kept
  <2>3. Kept(h, MoveTo(s, Parent(s)).heap)
    BY <2>2, KeptTwice DEF MoveTo
  <2> QED
    BY <2>1, <2>3
<1>3. \A s \in Inv : Kept(h, s.heap)
  OBVIOUS
<1>4. Inv \in SUBSET UpPlaces
  OBVIOUS
<1> HIDE DEF Inv
<1>5. \E s \in Inv : ~Climbs(v, s) /\ HeapUp(v, h) = s.heap
  BY <1>1, <1>2, <1>4, UpRule
<1> QED
  BY <1>3, <1>5

LEMMA DownKeeps ==
  ASSUME NEW v, NEW h \in Heaps, Placed(h), NEW from \in Nat \ {0}
  PROVE  Kept(h, HeapDown(v, h, from))
<1> DEFINE Inv == {s \in Places : Kept(h, s.heap)}
<1>1. [at |-> from, heap |-> h] \in Inv
  BY DEF Kept, Places
<1>2. ASSUME NEW s \in Inv, Sinks(v, s) PROVE MoveTo(s, MinSon(v, s)) \in Inv
  <2>1. /\ MinSon(v, s) \in 1..Len(s.heap.list) /\ s.at \in 1..Len(s.heap.list)
        /\ MoveTo(s, MinSon(v, s)) \in Places
    BY <1>2, DownStep
  <2>2. Kept(s.heap, Exchange(s.heap, s.at, MinSon(v, s)))
    BY <2>1, ExchangeKeeps DEF Kept
  <2>3. Kept(h, MoveTo(s, MinSon(v, s)).heap)
    BY <2>2, KeptTwice DEF MoveTo
  <2> QED
    BY <2>1, <2>3
<1>3. \A s \in Inv : Kept(h, s.heap)
  OBVIOUS
<1>4. Inv \in SUBSET Places
  OBVIOUS
<1> HIDE DEF Inv
<1>5. \E s \in Inv : ~Sinks(v, s) /\ HeapDown(v, h, from) = s.heap
  BY <1>1, <1>2, <1>4, DownRule
<1> QED
  BY <1>3, <1>5

-----------------------------------------------------------------------------
(* Order, over the values w of the entries at each position.                    *)

Values(v, l) == [k \in 1..Len(l) |-> v[l[k]]]
Order(w, n) == \A k \in 2..n : w[k \div 2] <= w[k]

\* In order but for the entry at p, which may be too late for the place above it ...
OrderAbove(w, n, p) ==
  /\ \A k \in 2..n : k # p => w[k \div 2] <= w[k]
  /\ \A k \in 2..n : k \div 2 = p /\ p >= 2 => w[p \div 2] <= w[k]
\* ... or too early for the places below.
OrderBelow(w, n, p) ==
  /\ \A k \in 2..n : k \div 2 # p => w[k \div 2] <= w[k]
  /\ \A k \in 2..n : k \div 2 = p /\ p >= 2 => w[p \div 2] <= w[k]

\* x is w with two values exchanged; no value below p is earlier than the one at q.
Swapped(w, x, n, p, q) ==
  \A k \in 1..n : x[k] = IF k = q THEN w[p] ELSE IF k = p THEN w[q] ELSE w[k]
Earliest(w, n, p, q) == \A k \in 2..n : k \div 2 = p => w[q] <= w[k]

LEMMA Halves ==
  ASSUME NEW k \in Nat, k >= 2
  PROVE  /\ k \div 2 \in Nat \ {0} /\ k \div 2 < k
         /\ k = 2 * (k \div 2) \/ k = 2 * (k \div 2) + 1
OBVIOUS

LEMMA ClimbOrder ==
  ASSUME NEW n \in Nat, NEW w \in [1..n -> Int], NEW x \in [1..n -> Int], NEW p \in 2..n,
         OrderAbove(w, n, p), w[p] < w[p \div 2], Swapped(w, x, n, p \div 2, p)
  PROVE  OrderAbove(x, n, p \div 2)
<1> USE DEF Swapped
<1> DEFINE q == p \div 2
<1>1. q \in 1..n /\ q < p
  BY Halves
<1>2. x[q] = w[p] /\ x[p] = w[q] /\ w[p] < w[q]
  BY <1>1, SMTT(40)
<1>3. \A k \in 2..n : k \div 2 \in 1..n /\ k \div 2 < k
  BY Halves
<1>4. \A k \in 1..n : k # p /\ k # q => x[k] = w[k]
  BY <1>1
<1>5. \A k \in 1..n : w[k] \in Int
  OBVIOUS
<1>6. ASSUME NEW k \in 2..n, k # q PROVE x[k \div 2] <= x[k]
  <2>1. CASE k = p
    BY <2>1, <1>2, <1>5, <1>1
  <2>2. CASE k # p /\ k \div 2 = p
    <3>1. w[q] <= w[k]
      BY <2>2 DEF OrderAbove
    <3>2. x[k] = w[k]
      BY <2>2, <1>6, <1>4
    <3> QED
      BY <3>1, <3>2, <2>2, <1>2
  <2>3. CASE k # p /\ k \div 2 = q
    <3>1. w[q] <= w[k] /\ x[k] = w[k]
      BY <2>3, <1>6, <1>4 DEF OrderAbove
    <3> HIDE DEF q
    <3> QED
      BY <3>1, <2>3, <1>2, <1>1, <1>5, SMTT(40)
  <2>4. CASE k # p /\ k \div 2 # p /\ k \div 2 # q
    <3>1. x[k] = w[k] /\ x[k \div 2] = w[k \div 2]
      BY <2>4, <1>6, <1>4, <1>3, SMTT(40)
    <3> QED
      BY <3>1, <2>4 DEF OrderAbove
  <2> QED
    BY <2>1, <2>2, <2>3, <2>4
<1>7. ASSUME NEW k \in 2..n, k \div 2 = q, q >= 2 PROVE x[q \div 2] <= x[k]
  <2>1. q \div 2 \in 1..n /\ q \div 2 < q /\ q \in 2..n
    BY <1>7, <1>1, Halves
  <2>2. x[q \div 2] = w[q \div 2] /\ w[q \div 2] <= w[q]
    <3>1. q \div 2 # p /\ q \div 2 # q /\ q # p
      BY <2>1, <1>1
    <3> HIDE DEF q
    <3>2. x[q \div 2] = w[q \div 2]
      BY <3>1, <2>1, <1>4
    <3> QED
      BY <3>1, <3>2, <2>1 DEF OrderAbove
  <2>3. k = p \/ (x[k] = w[k] /\ w[q] <= w[k])
    <3>1. k # q
      BY <1>7, <1>3
    <3> QED
      BY <3>1, <1>7, <1>4 DEF OrderAbove
  <2>4. w[q] <= x[k]
    BY <2>3, <1>2, <1>5, <1>1
  <2>5. w[q \div 2] \in Int /\ w[q] \in Int /\ x[k] \in Int
    BY <2>1, <1>5, <1>1
  <2> HIDE DEF q
  <2> QED
    BY <2>2, <2>4, <2>5
<1> QED
  BY <1>6, <1>7 DEF OrderAbove

LEMMA SinkOrder ==
  ASSUME NEW n \in Nat, NEW w \in [1..n -> Int], NEW x \in [1..n -> Int], NEW p \in 1..n,
         NEW q \in 2..n, q \div 2 = p, Earliest(w, n, p, q), Swapped(w, x, n, p, q),
         OrderBelow(w, n, p), w[q] < w[p]
  PROVE  OrderBelow(x, n, q)
<1> USE DEF Earliest, Swapped
<1>1. p < q /\ p \in Nat
  BY Halves
<1>2. x[q] = w[p] /\ x[p] = w[q]
  BY <1>1
<1>3. \A k \in 2..n : k \div 2 \in 1..n /\ k \div 2 < k
  BY Halves
<1>4. \A k \in 1..n : k # p /\ k # q => x[k] = w[k]
  OBVIOUS
<1>5. \A k \in 1..n : w[k] \in Int
  OBVIOUS
<1>6. ASSUME NEW k \in 2..n, k \div 2 # q PROVE x[k \div 2] <= x[k]
  <2>1. CASE k = q
    BY <2>1, <1>2, <1>5
  <2>2. CASE k # q /\ k \div 2 = p
    <3>1. k # p
      BY <2>2, <1>3
    <3>2. x[k] = w[k]
      BY <3>1, <2>2, <1>4
    <3>3. w[q] <= w[k]
      BY <2>2
    <3> QED
      BY <3>2, <3>3, <2>2, <1>2
  <2>3. CASE k = p
    <3>1. k \div 2 # p /\ k \div 2 # q /\ k \div 2 \in 1..n
      BY <2>3, <1>3, <1>6
    <3>2. x[k \div 2] = w[k \div 2]
      BY <3>1, <1>4
    <3>3. q \div 2 = p /\ p >= 2
      BY <2>3
    <3>4. w[p \div 2] <= w[q]
      BY <3>3 DEF OrderBelow
    <3> QED
      BY <3>2, <3>4, <2>3, <1>2
  <2>4. CASE k # q /\ k # p /\ k \div 2 # p
    <3>1. x[k] = w[k] /\ x[k \div 2] = w[k \div 2]
      BY <2>4, <1>6, <1>4, <1>3
    <3> QED
      BY <3>1, <2>4 DEF OrderBelow
  <2> QED
    BY <2>1, <2>2, <2>3, <2>4
<1>7. ASSUME NEW k \in 2..n, k \div 2 = q PROVE x[q \div 2] <= x[k]
  <2>1. k # q /\ k # p /\ k \div 2 # p
    BY <1>7, <1>3, <1>1
  <2>2. x[k] = w[k]
    BY <2>1, <1>4
  <2>3. w[q] <= w[k]
    BY <2>1, <1>7 DEF OrderBelow
  <2> QED
    BY <2>2, <2>3, <1>2, <1>7
<1> QED
  BY <1>6, <1>7 DEF OrderBelow

LEMMA ValuesType ==
  ASSUME NEW v \in [Entries -> Int], NEW h \in Heaps
  PROVE  /\ Values(v, h.list) \in [1..Len(h.list) -> Int]
         /\ \A k \in 1..Len(h.list) : Values(v, h.list)[k] = v[h.list[k]]
<1>1. \A k \in 1..Len(h.list) : h.list[k] \in Entries
  BY HeapType
<1> QED
  BY <1>1 DEF Values

LEMMA ValuesExchanged ==
  ASSUME NEW v \in [Entries -> Int], NEW h \in Heaps,
         NEW i \in 1..Len(h.list), NEW j \in 1..Len(h.list), NEW k \in 1..Len(h.list)
  PROVE  Values(v, Exchange(h, i, j).list)[k]
         = IF k = j THEN Values(v, h.list)[i]
           ELSE IF k = i THEN Values(v, h.list)[j] ELSE Values(v, h.list)[k]
<1> DEFINE g == Exchange(h, i, j)
<1>1. /\ g \in Heaps /\ Len(g.list) = Len(h.list)
      /\ g.list[k] = IF k = j THEN h.list[i] ELSE IF k = i THEN h.list[j] ELSE h.list[k]
  BY ExchangeType
<1> HIDE DEF g
<1>2. Values(v, g.list)[k] = v[g.list[k]]
  BY <1>1, ValuesType
<1> QED
  BY <1>1, <1>2, ValuesType DEF g

\* HeapUp puts a heap in order whose last entry may be too early for its place.
LEMMA UpOrders ==
  ASSUME NEW v \in [Entries -> Int], NEW h \in Heaps, h.list # <<>>,
         OrderAbove(Values(v, h.list), Len(h.list), Len(h.list))
  PROVE  Order(Values(v, HeapUp(v, h).list), Len(h.list))
<1> DEFINE n == Len(h.list)
           Inv == {s \in UpPlaces : /\ Len(s.heap.list) = n
                                    /\ OrderAbove(Values(v, s.heap.list), n, s.at)}
<1>0. n \in Nat /\ n # 0
  BY HeapType, EmptySeq
<1>1. [at |-> n, heap |-> h] \in Inv
  BY <1>0 DEF UpPlaces, Places
<1> HIDE DEF n
<1>2. ASSUME NEW s \in Inv, Climbs(v, s) PROVE MoveTo(s, Parent(s)) \in Inv
  <2>1. /\ Parent(s) \in 1..n /\ s.at \in 1..n /\ Parent(s) < s.at
        /\ MoveTo(s, Parent(s)) \in UpPlaces /\ s.heap \in Heaps
        /\ Len(s.heap.list) = n
    BY <1>2, UpStep DEF UpPlaces, Places
  <2> DEFINE w == Values(v, s.heap.list)
             g == Exchange(s.heap, s.at, Parent(s))
             x == Values(v, g.list)
  <2>2. g \in Heaps /\ Len(g.list) = n
    BY <2>1, ExchangeType
  <2>3. /\ w \in [1..n -> Int]
        /\ w[s.at] = v[s.heap.list[s.at]] /\ w[Parent(s)] = v[s.heap.list[Parent(s)]]
    BY <2>1, ValuesType
  <2>4. x \in [1..n -> Int]
    <3> HIDE DEF g
    <3> QED
      BY <2>2, ValuesType
  <2>5. \A k \in 1..n : x[k] = IF k = Parent(s) THEN w[s.at]
                               ELSE IF k = s.at THEN w[Parent(s)] ELSE w[k]
    BY <2>1, ValuesExchanged, SMTT(40)
  <2>6. OrderAbove(w, n, s.at) /\ w[s.at] < w[Parent(s)]
    BY <1>2, <2>3 DEF Climbs, Parent
  <2> HIDE DEF w, x, g
  <2>7. OrderAbove(x, n, Parent(s))
    <3>1. s.at \in 2..n /\ Parent(s) # s.at
      BY <2>1, <1>0
    <3>2. Swapped(w, x, n, Parent(s), s.at)
      BY <2>5, <3>1 DEF Swapped
    <3> QED
      BY <1>0, <2>3, <2>4, <2>6, <3>1, <3>2, ClimbOrder DEF Parent
  <2>8. MoveTo(s, Parent(s)).heap = g /\ MoveTo(s, Parent(s)).at = Parent(s)
    BY DEF MoveTo, g
  <2> QED
    BY <2>1, <2>2, <2>7, <2>8 DEF x
<1>3. ASSUME NEW s \in Inv, ~Climbs(v, s) PROVE Order(Values(v, s.heap.list), n)
  <2>1. /\ s.heap \in Heaps /\ Len(s.heap.list) = n /\ s.at \in 1..n
    BY <1>0 DEF UpPlaces, Places
  <2> DEFINE w == Values(v, s.heap.list)
  <2>2. w \in [1..n -> Int] /\ \A k \in 1..n : w[k] = v[s.heap.list[k]]
    BY <2>1, ValuesType
  <2>3. OrderAbove(w, n, s.at)
    OBVIOUS
  <2> HIDE DEF w
  <2>4. ASSUME NEW k \in 2..n PROVE w[k \div 2] <= w[k]
    <3>1. CASE k # s.at
      BY <3>1, <2>3 DEF OrderAbove
    <3>2. CASE k = s.at
      <4>1. k \div 2 >= 1 /\ k \div 2 \in 1..n /\ k \in 1..n
        BY Halves
      <4>2. ~(w[k] < w[k \div 2])
        BY <1>3, <3>2, <4>1, <2>2 DEF Climbs
      <4> QED
        BY <4>1, <4>2, <2>2, SMTT(40)
    <3> QED
      BY <3>1, <3>2
  <2> QED
    BY <2>4 DEF Order, w
<1>4. Inv \in SUBSET UpPlaces
  OBVIOUS
<1> HIDE DEF Inv
<1>5. \E s \in Inv : ~Climbs(v, s) /\ HeapUp(v, h) = s.heap
  BY <1>1, <1>2, <1>4, UpRule DEF n
<1> QED
  BY <1>3, <1>5 DEF n

\* HeapDown puts a heap in order whose entry at from may be too late for its place.
LEMMA DownOrders ==
  ASSUME NEW v \in [Entries -> Int], NEW h \in Heaps, NEW from \in Nat \ {0},
         OrderBelow(Values(v, h.list), Len(h.list), from)
  PROVE  Order(Values(v, HeapDown(v, h, from).list), Len(h.list))
<1> DEFINE n == Len(h.list)
           Inv == {s \in Places : /\ Len(s.heap.list) = n
                                  /\ OrderBelow(Values(v, s.heap.list), n, s.at)}
<1>0. n \in Nat
  BY HeapType
<1>1. [at |-> from, heap |-> h] \in Inv
  BY DEF Places
<1> HIDE DEF n
<1>2. ASSUME NEW s \in Inv, Sinks(v, s) PROVE MoveTo(s, MinSon(v, s)) \in Inv
  <2>1. /\ MinSon(v, s) \in 1..n /\ s.at \in 1..n /\ s.at < MinSon(v, s)
        /\ MinSon(v, s) \in {2 * s.at, 2 * s.at + 1}
        /\ MoveTo(s, MinSon(v, s)) \in Places /\ s.heap \in Heaps
        /\ Len(s.heap.list) = n
    BY <1>2, DownStep DEF Places
  <2> DEFINE p == s.at
             q == MinSon(v, s)
             w == Values(v, s.heap.list)
             g == Exchange(s.heap, p, q)
             x == Values(v, g.list)
  <2>2. g \in Heaps /\ Len(g.list) = n
    BY <2>1, ExchangeType
  <2>3. w \in [1..n -> Int] /\ \A k \in 1..n : w[k] = v[s.heap.list[k]]
    BY <2>1, ValuesType
  <2>4. x \in [1..n -> Int]
    <3> HIDE DEF g
    <3> QED
      BY <2>2, ValuesType
  <2>5. Swapped(w, x, n, p, q)
    BY <2>1, ValuesExchanged, SMTT(40) DEF Swapped
  <2>6. OrderBelow(w, n, p)
    OBVIOUS
  <2>7. MoveTo(s, q).heap = g /\ MoveTo(s, q).at = q
    BY DEF MoveTo
  <2>8. /\ 2 * p <= n /\ v[s.heap.list[p]] > v[s.heap.list[q]]
        /\ q = IF 2 * p < n /\ v[s.heap.list[2 * p + 1]] < v[s.heap.list[2 * p]]
               THEN 2 * p + 1 ELSE 2 * p
    BY <1>2, <2>1 DEF Sinks, MinSon
  <2> HIDE DEF w, g, x, p, q
  <2>9. w[q] < w[p]
    BY <2>3, <2>8, <2>1 DEF p, q
  <2>10. p \in 1..n /\ q \in 2..n /\ q \in {2 * p, 2 * p + 1} /\ q \div 2 = p
    BY <2>1, <1>0, SMTT(40) DEF p, q
  <2>11. ASSUME NEW k \in 2..n, k \div 2 = p PROVE w[q] <= w[k]
    <3>0. k \in Nat /\ k >= 2 /\ 2 * p <= n /\ p \in 1..n
      BY <2>8, <2>10, <1>0
    <3>1. k = 2 * p \/ k = 2 * p + 1
      BY <3>0, <2>11, Halves
    <3>2. 2 * p \in 1..n /\ w[2 * p] = v[s.heap.list[2 * p]] /\ w[2 * p] \in Int
      BY <2>3, <3>0, <1>0
    <3>3. 2 * p < n => 2 * p + 1 \in 1..n /\ w[2 * p + 1] = v[s.heap.list[2 * p + 1]]
                       /\ w[2 * p + 1] \in Int
      BY <2>3, <2>10, <1>0
    <3>4. k = 2 * p + 1 => 2 * p < n
      BY <3>0, <1>0
    <3>5. CASE k = q
      BY <3>5, <3>1, <3>2, <3>3, <3>4
    <3>6. CASE k = 2 * p /\ q = 2 * p + 1
      <4>1. 2 * p < n /\ v[s.heap.list[2 * p + 1]] < v[s.heap.list[2 * p]]
        BY <3>6, <2>8, <3>0
      <4> QED
        BY <4>1, <3>2, <3>3, <3>6
    <3>7. CASE k = 2 * p + 1 /\ q = 2 * p
      <4>1. 2 * p < n /\ ~(v[s.heap.list[2 * p + 1]] < v[s.heap.list[2 * p]])
        BY <3>4, <3>7, <2>8, <3>0
      <4> QED
        BY <4>1, <3>2, <3>3, <3>7
    <3> QED
      BY <3>1, <3>5, <3>6, <3>7, <2>10
  <2>12. OrderBelow(x, n, q)
    <3>0. Earliest(w, n, p, q)
      BY <2>11 DEF Earliest
    <3>1. w \in [1..n -> Int]
      BY <2>3
    <3>2. p \in 1..n /\ q \in 2..n /\ q \div 2 = p
      BY <2>10
    <3> QED
      BY <1>0, <2>4, <2>5, <2>6, <2>9, <3>0, <3>1, <3>2, SinkOrder
  <2>13. MoveTo(s, q) \in Places
    BY <2>1 DEF q
  <2> QED
    BY <2>2, <2>7, <2>12, <2>13 DEF x, q
<1>3. ASSUME NEW s \in Inv, ~Sinks(v, s) PROVE Order(Values(v, s.heap.list), n)
  <2>1. /\ s.heap \in Heaps /\ Len(s.heap.list) = n /\ s.at \in Nat \ {0}
    BY DEF Places
  <2> DEFINE p == s.at
             w == Values(v, s.heap.list)
  <2>2. w \in [1..n -> Int] /\ \A k \in 1..n : w[k] = v[s.heap.list[k]]
    BY <2>1, ValuesType, ZenonT(60)
  <2>3. OrderBelow(w, n, p)
    OBVIOUS
  <2>4. 2 * p <= n => \E q \in {2 * p, 2 * p + 1} :
          /\ ~(v[s.heap.list[p]] > v[s.heap.list[q]])
          /\ q = IF 2 * p < n /\ v[s.heap.list[2 * p + 1]] < v[s.heap.list[2 * p]]
                 THEN 2 * p + 1 ELSE 2 * p
    BY <1>3, <2>1 DEF Sinks, MinSon
  <2> HIDE DEF w, p
  <2>5. ASSUME NEW k \in 2..n PROVE w[k \div 2] <= w[k]
    <3>1. CASE k \div 2 # p
      BY <3>1, <2>3 DEF OrderBelow
    <3>2. CASE k \div 2 = p
      <4>1. (k = 2 * p \/ k = 2 * p + 1) /\ p \in Nat \ {0} /\ p < k
        BY <3>2, Halves, SMTT(40)
      <4>2. 2 * p <= n /\ p \in 1..n
        BY <4>1, <1>0
      <4>3. PICK q \in {2 * p, 2 * p + 1} :
              /\ ~(v[s.heap.list[p]] > v[s.heap.list[q]])
              /\ q = IF 2 * p < n /\ v[s.heap.list[2 * p + 1]] < v[s.heap.list[2 * p]]
                     THEN 2 * p + 1 ELSE 2 * p
        BY <4>2, <2>4
      <4>4. q \in 1..n
        BY <4>2, <4>3, <1>0
      <4>5. ~(w[p] > w[q]) /\ w[p] \in Int /\ w[q] \in Int
        BY <4>2, <4>3, <4>4, <2>2
      <4>6. /\ 2 * p \in 1..n /\ w[2 * p] = v[s.heap.list[2 * p]] /\ w[2 * p] \in Int
        BY <4>2, <2>2, <1>0
      <4>7. 2 * p < n => 2 * p + 1 \in 1..n /\ w[2 * p + 1] = v[s.heap.list[2 * p + 1]]
                         /\ w[2 * p + 1] \in Int
        BY <4>2, <2>2, <1>0
      <4>8. k = 2 * p + 1 => 2 * p < n
        BY <4>2, <1>0
      <4>9. w[q] <= w[k]
        BY <4>1, <4>3, <4>6, <4>7, <4>8, SMTT(40)
      <4>10. w[k] \in Int
        BY <2>2
      <4> QED
        BY <3>2, <4>5, <4>9, <4>10
    <3> QED
      BY <3>1, <3>2
  <2> QED
    BY <2>5 DEF Order, w
<1>4. Inv \in SUBSET Places
  OBVIOUS
<1> HIDE DEF Inv
<1>5. \E s \in Inv : ~Sinks(v, s) /\ HeapDown(v, h, from) = s.heap
  BY <1>1, <1>2, <1>4, DownRule DEF n
<1> QED
  BY <1>3, <1>5 DEF n

-----------------------------------------------------------------------------
(* The operations.                                                              *)

Now == [list |-> list, index |-> index]
Sound == TypeOK /\ IndexCorrect

LEMMA SoundHeap ==
  ASSUME Sound
  PROVE  /\ Now \in Heaps /\ Placed(Now)
         /\ list \in Seq(Entries) /\ Len(list) \in Nat /\ DOMAIN list = 1..Len(list)
         /\ \A i \in 1..Len(list) : list[i] \in Entries /\ index[list[i]] = i
         /\ \A e \in Entries : e \in Elems(list) <=> \E i \in 1..Len(list) : e = list[i]
         /\ \A e \in Entries : index[e] = 0 <=> e \notin Elems(list)
<1>1. list \in Seq(Entries) /\ index \in [Entries -> Nat]
  BY HeapAssumption DEF Sound, TypeOK
<1>2. Len(list) \in Nat /\ DOMAIN list = 1..Len(list)
      /\ \A i \in 1..Len(list) : list[i] \in Entries
  BY <1>1, LenProperties, ElementOfSeq
<1>3. \A i \in 1..Len(list) : index[list[i]] = i
  BY <1>2 DEF Sound, IndexCorrect
<1>4. Now \in Heaps /\ Placed(Now)
  BY <1>1, <1>2, <1>3 DEF Now, Heaps, Placed
<1> QED
  BY <1>1, <1>2, <1>3, <1>4 DEF Elems, Sound, IndexCorrect

\* What a heap must be for the state to be sound once it is taken for the heap.
LEMMA BecomesSound ==
  ASSUME NEW h \in Heaps, list' = h.list, index' = h.index, Placed(h), Len(h.list) <= Max,
         value' \in [Entries -> Times \cup {0}],
         \A e \in Entries : e \notin Elems(h.list) => h.index[e] = 0
  PROVE  Sound'
<1>1. /\ h.list \in Seq(Entries) /\ Len(h.list) \in Nat /\ DOMAIN h.list = 1..Len(h.list)
      /\ h.index \in [Entries -> Nat] /\ \A i \in 1..Len(h.list) : h.list[i] \in Entries
  BY HeapType
<1>2. ASSUME NEW e \in Entries, e \in Elems(h.list)
      PROVE  h.index[e] \in 1..Len(h.list)
  BY <1>1, <1>2 DEF Elems, Placed
<1>3. \A e \in Entries : h.index[e] \in 0..Max
  BY <1>1, <1>2, HeapAssumption
<1>4. h.index \in [Entries -> 0..Max]
  BY <1>1, <1>3
<1>5. TypeOK'
  BY <1>1, <1>4 DEF TypeOK
<1>6. \A i \in DOMAIN h.list : h.index[h.list[i]] = i
  BY <1>1 DEF Placed
<1>7. \A e \in Entries : h.index[e] = 0 <=> e \notin Elems(h.list)
  BY <1>2, <1>1
<1>8. IndexCorrect'
  BY <1>6, <1>7 DEF IndexCorrect, Elems
<1> QED
  BY <1>5, <1>8 DEF Sound

LEMMA Pushed ==
  ASSUME Sound, NEW e \in Entries, index[e] = 0
  PROVE  LET h == [list |-> Append(list, e), index |-> [index EXCEPT ![e] = Len(list) + 1]]
         IN  /\ h \in Heaps /\ Placed(h) /\ h.list # <<>> /\ Len(h.list) = Len(list) + 1
             /\ \A i \in 1..Len(list) : h.list[i] = list[i]
             /\ h.list[Len(list) + 1] = e
             /\ \A f \in Entries : f \in Elems(h.list) <=> f = e \/ f \in Elems(list)
             /\ \A f \in Entries : f \notin Elems(h.list) => h.index[f] = 0
<1> DEFINE l == Append(list, e)
           x == [index EXCEPT ![e] = Len(list) + 1]
           n == Len(list)
<1>1. l \in Seq(Entries) /\ Len(l) = n + 1 /\ l[n + 1] = e
      /\ \A i \in 1..n : l[i] = list[i]
  BY SoundHeap, AppendProperties
<1>2. x \in [Entries -> Nat] /\ \A f \in Entries : x[f] = IF f = e THEN n + 1 ELSE index[f]
  BY SoundHeap DEF Now, Heaps
<1>3. l # <<>> /\ DOMAIN l = 1..n + 1 /\ n \in Nat
  BY <1>1, SoundHeap, LenProperties, EmptySeq
<1> HIDE DEF l, x
<1> DEFINE h == [list |-> l, index |-> x]
<1>4. h \in Heaps /\ h.list = l /\ h.index = x
  BY <1>1, <1>2 DEF Heaps
<1>5. ASSUME NEW i \in 1..n + 1 PROVE x[l[i]] = i
  <2>1. CASE i = n + 1
    BY <2>1, <1>1, <1>2
  <2>2. CASE i # n + 1
    <3>1. i \in 1..n /\ l[i] = list[i] /\ list[i] \in Entries /\ index[list[i]] = i
      BY <2>2, <1>1, <1>3, SoundHeap
    <3>2. list[i] # e
      BY <3>1, <1>3
    <3> QED
      BY <3>1, <3>2, <1>2
  <2> QED
    BY <2>1, <2>2
<1>6. Placed(h)
  BY <1>1, <1>4, <1>5 DEF Placed
<1>7. ASSUME NEW f \in Entries PROVE f \in Elems(l) <=> f = e \/ f \in Elems(list)
  <2>1. f \in Elems(l) <=> \E i \in 1..n + 1 : f = l[i]
    BY <1>3 DEF Elems
  <2>2. f \in Elems(list) <=> \E i \in 1..n : f = list[i]
    BY SoundHeap
  <2>3. n + 1 \in 1..n + 1 /\ \A i \in 1..n + 1 : i = n + 1 \/ i \in 1..n
    BY <1>3
  <2>4. \A i \in 1..n : i \in 1..n + 1
    BY <1>3
  <2> HIDE DEF n
  <2> QED
    BY <2>1, <2>2, <2>3, <2>4, <1>1
<1>8. ASSUME NEW f \in Entries, f \notin Elems(l) PROVE x[f] = 0
  <2>1. f # e /\ f \notin Elems(list)
    BY <1>7, <1>8
  <2> QED
    BY <2>1, <1>2, SoundHeap
<1> QED
  BY <1>1, <1>3, <1>4, <1>6, <1>7, <1>8 DEF l, x

LEMMA PushStep ==
  ASSUME Sound, NEW e \in Entries, NEW time \in Times, HeapPush(e, time)
  PROVE  /\ Sound' /\ e \notin Elems(list)
         /\ \A f \in Entries : f \in Elems(list') <=> f = e \/ f \in Elems(list)
         /\ value' = [value EXCEPT ![e] = time]
<1> DEFINE h == [list |-> Append(list, e), index |-> [index EXCEPT ![e] = Len(list) + 1]]
           g == HeapUp(value', h)
<1>1. index[e] = 0 /\ Len(list) < Max /\ value' = [value EXCEPT ![e] = time]
      /\ list' = g.list /\ index' = g.index
  <2>1. Len(list) \in Nat /\ Max \in Nat
    BY SoundHeap, HeapAssumption
  <2> QED
    BY <2>1 DEF HeapPush, HeapFull, Becomes
<1>2. /\ h \in Heaps /\ Placed(h) /\ h.list # <<>> /\ Len(h.list) = Len(list) + 1
      /\ \A f \in Entries : f \in Elems(h.list) <=> f = e \/ f \in Elems(list)
      /\ \A f \in Entries : f \notin Elems(h.list) => h.index[f] = 0
  BY <1>1, Pushed
<1>3. value' \in [Entries -> Times \cup {0}]
  BY <1>1 DEF Sound, TypeOK
<1> HIDE DEF h
<1>4. Kept(h, g)
  BY <1>2, UpKeeps
<1> HIDE DEF g
<1>5. Len(list) \in Nat /\ Max \in Nat
  BY SoundHeap, HeapAssumption
<1>6. Sound'
  BY <1>1, <1>2, <1>3, <1>4, <1>5, BecomesSound DEF Kept
<1>7. e \notin Elems(list)
  BY <1>1, SoundHeap
<1> QED
  BY <1>1, <1>2, <1>4, <1>6, <1>7 DEF Kept

LEMMA Shortened ==
  ASSUME Sound, NEW pos \in 1..Len(list)
  PROVE  LET h == MoveLastTo(pos)
         IN  /\ h \in Heaps /\ Placed(h) /\ Len(h.list) = Len(list) - 1
             /\ \A i \in 1..Len(list) - 1 :
                  h.list[i] = IF i = pos THEN list[Len(list)] ELSE list[i]
             /\ \A f \in Entries : f \in Elems(h.list) <=> f # list[pos] /\ f \in Elems(list)
             /\ \A f \in Entries :
                  f \notin Elems(h.list) => f = list[pos] \/ h.index[f] = 0
<1> DEFINE n == Len(list)
           last == list[n]
           l == [list EXCEPT ![pos] = last]
           t == SubSeq(l, 1, n - 1)
           x == [index EXCEPT ![last] = pos]
<1>1. n \in Nat /\ n >= 1 /\ last \in Entries /\ list \in Seq(Entries)
      /\ \A i \in 1..n : list[i] \in Entries /\ index[list[i]] = i
  BY SoundHeap
<1>2. l \in Seq(Entries) /\ Len(l) = n
      /\ \A i \in 1..n : l[i] = IF i = pos THEN last ELSE list[i]
  BY <1>1, ExceptSeq
<1> HIDE DEF l
<1>3. t \in Seq(Entries) /\ Len(t) = n - 1 /\ \A i \in 1..n - 1 : t[i] = l[i]
  <2>1. \A i \in 1..n - 1 : l[i] \in Entries
    BY <1>1, <1>2
  <2>2. /\ t \in Seq(Entries) /\ Len(t) = IF 1 <= n - 1 THEN n - 1 - 1 + 1 ELSE 0
        /\ \A i \in 1..n - 1 - 1 + 1 : t[i] = l[1 + i - 1]
    BY <1>1, <1>2, <2>1, SubSeqProperties
  <2> HIDE DEF t, n
  <2>3. n - 1 - 1 + 1 = n - 1 /\ \A i \in 1..n - 1 : 1 + i - 1 = i
    BY <1>1
  <2>4. \A i \in 1..n - 1 : t[i] = l[i]
    BY <2>2, <2>3
  <2>5. Len(t) = n - 1
    BY <1>1, <2>2
  <2> QED
    BY <2>2, <2>4, <2>5
<1> HIDE DEF t
<1>4. x \in [Entries -> Nat] /\ \A f \in Entries : x[f] = IF f = last THEN pos ELSE index[f]
  BY <1>1, SoundHeap DEF Now, Heaps
<1> HIDE DEF x
<1> DEFINE h == [list |-> t, index |-> x]
<1>5. MoveLastTo(pos) = h /\ h.list = t /\ h.index = x
  <2>1. SubSeq(l, 1, Len(l) - 1) = t
    BY <1>2 DEF t
  <2> DEFINE r == [list |-> l, index |-> x]
  <2>2. MoveLastTo(pos) = [r EXCEPT !.list = SubSeq(r.list, 1, Len(r.list) - 1)]
    BY DEF MoveLastTo, PutAt, l, x
  <2>3. [r EXCEPT !.list = t] = h
    OBVIOUS
  <2> QED
    BY <2>1, <2>2, <2>3
<1>6. h \in Heaps
  BY <1>3, <1>4 DEF Heaps
<1>7. ASSUME NEW i \in 1..n - 1
      PROVE  t[i] = IF i = pos THEN last ELSE list[i]
  BY <1>1, <1>2, <1>3
<1>8. ASSUME NEW i \in 1..n - 1 PROVE x[t[i]] = i
  <2>1. CASE i = pos
    BY <2>1, <1>1, <1>4, <1>7
  <2>2. CASE i # pos
    <3>1. list[i] # last
      BY <1>1
    <3> QED
      BY <3>1, <2>2, <1>1, <1>4, <1>7, SMTT(40)
  <2> QED
    BY <2>1, <2>2
<1>9. DOMAIN t = 1..n - 1
  BY <1>3, LenProperties
<1>10. ASSUME NEW f \in Entries
       PROVE  f \in Elems(t) <=> f # list[pos] /\ f \in Elems(list)
  <2>1. f \in Elems(t) <=> \E i \in 1..n - 1 : f = t[i]
    BY <1>9 DEF Elems
  <2>2. f \in Elems(list) <=> \E i \in 1..n : f = list[i]
    BY SoundHeap
  <2>3. ASSUME NEW i \in 1..n - 1, f = t[i] PROVE f # list[pos] /\ f \in Elems(list)
    <3>1. CASE i = pos
      <4>1. f = list[n] /\ n \in 1..n /\ n # pos
        BY <3>1, <2>3, <1>7, <1>1
      <4> QED
        BY <4>1, <2>2, <1>1
    <3>2. CASE i # pos
      <4>1. f = list[i] /\ i \in 1..n
        BY <3>2, <2>3, <1>7, <1>1
      <4> QED
        BY <4>1, <3>2, <2>2, <1>1
    <3> QED
      BY <3>1, <3>2
  <2>4. ASSUME NEW i \in 1..n, f = list[i], f # list[pos] PROVE f \in Elems(t)
    <3>1. CASE i = n
      <4>1. pos \in 1..n - 1 /\ t[pos] = f
        BY <3>1, <2>4, <1>7, <1>1
      <4> QED
        BY <4>1, <2>1
    <3>2. CASE i # n
      <4>1. i \in 1..n - 1 /\ t[i] = f
        BY <3>2, <2>4, <1>7, <1>1
      <4> QED
        BY <4>1, <2>1
    <3> QED
      BY <3>1, <3>2
  <2> QED
    BY <2>1, <2>2, <2>3, <2>4
<1>11. ASSUME NEW f \in Entries, f \notin Elems(t) PROVE f = list[pos] \/ x[f] = 0
  <2>1. CASE f = last /\ f # list[pos]
    <3>1. n \in 1..n
      BY <1>1
    <3>2. f \in Elems(list)
      BY <3>1, <2>1, SoundHeap
    <3> QED
      BY <3>2, <2>1, <1>10, <1>11
  <2>2. CASE f # last /\ f # list[pos]
    <3>1. f \notin Elems(list)
      BY <2>2, <1>10, <1>11
    <3> QED
      BY <3>1, <2>2, <1>4, SoundHeap
  <2> QED
    BY <2>1, <2>2
<1>12. Placed(h)
  BY <1>3, <1>5, <1>8 DEF Placed
<1> QED
  BY <1>3, <1>5, <1>6, <1>7, <1>10, <1>11, <1>12

LEMMA RemoveStep ==
  ASSUME Sound, NEW pos \in 1..Len(list), RemoveAt(pos)
  PROVE  /\ Sound' /\ list[pos] \in Elems(list) /\ list[pos] \in Entries
         /\ \A f \in Entries : f \in Elems(list') <=> f # list[pos] /\ f \in Elems(list)
         /\ value' = [value EXCEPT ![list[pos]] = 0]
<1> DEFINE e == list[pos]
           h == MoveLastTo(pos)
           g == HeapDown(value, h, pos)
           k == [g EXCEPT !.index[e] = 0]
<1>1. list' = k.list /\ index' = k.index /\ value' = [value EXCEPT ![e] = 0]
  BY DEF RemoveAt, Becomes
<1>2. /\ h \in Heaps /\ Placed(h) /\ Len(h.list) = Len(list) - 1
      /\ \A f \in Entries : f \in Elems(h.list) <=> f # e /\ f \in Elems(list)
      /\ \A f \in Entries : f \notin Elems(h.list) => f = e \/ h.index[f] = 0
  BY Shortened
<1>3. Len(list) \in Nat /\ e \in Entries /\ e \in Elems(list) /\ pos \in Nat \ {0}
  BY SoundHeap
<1> HIDE DEF h, e
<1>4. Kept(h, g)
  BY <1>2, <1>3, DownKeeps
<1> HIDE DEF g
<1>5. /\ k \in Heaps /\ k.list = g.list
      /\ \A f \in Entries : k.index[f] = IF f = e THEN 0 ELSE g.index[f]
  <2>1. g \in [list : Seq(Entries), index : [Entries -> Nat]]
    BY <1>4 DEF Kept, Heaps
  <2> DEFINE y == [g.index EXCEPT ![e] = 0]
  <2>2. y \in [Entries -> Nat] /\ \A f \in Entries : y[f] = IF f = e THEN 0 ELSE g.index[f]
    BY <2>1
  <2>3. k = [g EXCEPT !.index = y]
    OBVIOUS
  <2> HIDE DEF k, y
  <2>4. k = [list |-> g.list, index |-> y]
    BY <2>1, <2>3
  <2> QED
    BY <2>1, <2>2, <2>4 DEF Heaps
<1> HIDE DEF k
<1>6. Placed(k)
  <2> SUFFICES ASSUME NEW i \in 1..Len(g.list) PROVE k.index[g.list[i]] = i
    BY <1>5 DEF Placed
  <2>1. g.list[i] \in Entries /\ g.index[g.list[i]] = i /\ g.list[i] \in Elems(g.list)
    BY <1>4, HeapType DEF Kept, Placed, Elems
  <2>2. g.list[i] # e
    BY <2>1, <1>2, <1>3, <1>4 DEF Kept
  <2> QED
    BY <2>1, <2>2, <1>5
<1>7. \A f \in Entries : f \in Elems(k.list) <=> f # e /\ f \in Elems(list)
  BY <1>2, <1>4, <1>5 DEF Kept
<1>8. \A f \in Entries : f \notin Elems(k.list) => k.index[f] = 0
  BY <1>2, <1>4, <1>5 DEF Kept
<1>9. value' \in [Entries -> Times \cup {0}]
  BY <1>1 DEF Sound, TypeOK
<1>10. Len(k.list) <= Max
  <2>1. Len(list) <= Max /\ Max \in Nat
    BY HeapAssumption DEF Sound, TypeOK
  <2>2. Len(k.list) = Len(list) - 1
    BY <1>2, <1>4, <1>5 DEF Kept
  <2> QED
    BY <2>1, <2>2, <1>3
<1>11. Sound'
  BY <1>1, <1>5, <1>6, <1>8, <1>9, <1>10, BecomesSound
<1> QED
  BY <1>1, <1>3, <1>7, <1>11 DEF e

-----------------------------------------------------------------------------
(* Whoever is inside, at the place it knows.                                    *)

LEMMA InitSound == Init => Sound
<1> SUFFICES ASSUME Init PROVE Sound
  OBVIOUS
<1>1. list = <<>> /\ list \in Seq(Entries) /\ Len(list) = 0 /\ DOMAIN list = {}
  BY EmptySeq, LenProperties DEF Init
<1>2. TypeOK
  BY <1>1, HeapAssumption DEF Init, TypeOK
<1>3. \A i \in DOMAIN list : index[list[i]] = i
  BY <1>1
<1>4. \A e \in Entries : index[e] = 0 <=> e \notin Elems(list)
  BY <1>1 DEF Init, Elems
<1> QED
  BY <1>2, <1>3, <1>4 DEF Sound, IndexCorrect

\* Every operation is a push or the removal of one entry.
LEMMA Operations ==
  ASSUME Sound, Next
  PROVE  \/ \E e \in Entries, time \in Times : HeapPush(e, time)
         \/ \E pos \in 1..Len(list) : RemoveAt(pos)
<1>1. HeapPop => 1 \in 1..Len(list) /\ RemoveAt(1)
  BY SoundHeap, EmptySeq DEF HeapPop
<1>2. \A e \in Entries : HeapDelete(e) => \E pos \in 1..Len(list) : RemoveAt(pos)
  BY DEF HeapDelete
<1> QED
  BY <1>1, <1>2 DEF Next

LEMMA NextSound ==
  ASSUME Sound, [Next]_vars
  PROVE  Sound'
<1>1. CASE UNCHANGED vars
  BY <1>1 DEF vars, Sound, TypeOK, IndexCorrect, Elems
<1>2. CASE Next
  BY <1>2, Operations, PushStep, RemoveStep
<1> QED
  BY <1>1, <1>2

LEMMA AlwaysSound == Spec => []Sound
<1>1. Sound /\ [Next]_vars => Sound'
  BY NextSound
<1> QED
  BY <1>1, InitSound, PTL DEF Spec

\* Every variable keeps its type, and the array its bound.
THEOREM TypeCorrect == Spec => []TypeOK
<1>1. Sound => TypeOK
  BY DEF Sound
<1> QED
  BY <1>1, AlwaysSound, PTL

\* The position an entry keeps is the one it is at, for any number of entries: the
\* exchanges of HeapUp and HeapDown leave none behind (heap.h:254-261, 299-306).
THEOREM PositionsCorrect == Spec => []IndexCorrect
<1>1. Sound => IndexCorrect
  BY DEF Sound
<1> QED
  BY <1>1, AlwaysSound, PTL

\* No operation adds, removes or changes an entry but the one it is called for.
THEOREM OthersKept == Spec => KeepsOthers
<1> DEFINE Own(e) ==
      /\ e \in Elems(list) <=> e \notin Elems(list')
      /\ \A f \in Entries \ {e} : /\ f \in Elems(list) <=> f \in Elems(list')
                                  /\ value'[f] = value[f]
<1>1. ASSUME Sound, Next PROVE \E e \in Entries : Own(e)
  <2>0. value \in [Entries -> Times \cup {0}]
    BY <1>1 DEF Sound, TypeOK
  <2>1. CASE \E e \in Entries, time \in Times : HeapPush(e, time)
    <3>1. PICK e \in Entries, time \in Times : HeapPush(e, time)
      BY <2>1
    <3>2. /\ e \notin Elems(list) /\ value' = [value EXCEPT ![e] = time]
          /\ \A f \in Entries : f \in Elems(list') <=> f = e \/ f \in Elems(list)
      BY <1>1, <3>1, PushStep
    <3>3. Own(e)
      BY <2>0, <3>2
    <3> QED
      BY <3>3
  <2>2. CASE \E pos \in 1..Len(list) : RemoveAt(pos)
    <3>1. PICK pos \in 1..Len(list) : RemoveAt(pos)
      BY <2>2
    <3> DEFINE e == list[pos]
    <3>2. /\ e \in Elems(list) /\ e \in Entries /\ value' = [value EXCEPT ![e] = 0]
          /\ \A f \in Entries : f \in Elems(list') <=> f # e /\ f \in Elems(list)
      BY <1>1, <3>1, RemoveStep
    <3> HIDE DEF e
    <3>3. Own(e)
      BY <2>0, <3>2
    <3> QED
      BY <3>2, <3>3
  <2> QED
    BY <1>1, <2>1, <2>2, Operations
<1> HIDE DEF Own
<1>2. Sound /\ [Next]_vars => [\E e \in Entries : Own(e)]_vars
  BY <1>1
<1>3. Spec => [][\E e \in Entries : Own(e)]_vars
  BY <1>2, AlwaysSound, PTL DEF Spec
<1> QED
  BY <1>3 DEF KeepsOthers, Own

-----------------------------------------------------------------------------
(* The top is the earliest.                                                     *)

InOrder == Order(Values(value, list), Len(list))

LEMMA TimesAreNumbers ==
  ASSUME NEW v \in [Entries -> Times \cup {0}]
  PROVE  v \in [Entries -> Int]
<1>1. \A t \in Times \cup {0} : t \in Int
  BY HeapAssumption
<1> QED
  BY <1>1

LEMMA RootFirst ==
  ASSUME NEW n \in Nat, NEW w \in [1..n -> Int], Order(w, n), NEW k \in 1..n
  PROVE  w[1] <= w[k]
<1> DEFINE D == 1..n
           m == [i \in D |-> i]
           Good == {i \in D : w[1] <= w[i]}
<1>1. ASSUME NEW i \in D, \A j \in D : m[j] < m[i] => j \in Good
      PROVE  i \in Good
  <2>1. CASE i = 1
    BY <2>1
  <2>2. CASE i # 1
    <3>1. i \in 2..n /\ i \div 2 \in D /\ i \div 2 < i
      BY <2>2, Halves
    <3>2. w[1] <= w[i \div 2]
      BY <3>1, <1>1
    <3>3. w[i \div 2] <= w[i]
      BY <3>1 DEF Order
    <3>4. w[1] \in Int /\ w[i \div 2] \in Int /\ w[i] \in Int
      BY <3>1
    <3> QED
      BY <3>2, <3>3, <3>4
  <2> QED
    BY <2>1, <2>2
<1>2. m \in [D -> Nat]
  OBVIOUS
<1>3. D \subseteq Good
  <2> HIDE DEF D, m, Good
  <2> QED
    BY <1>1, <1>2, Descent
<1> QED
  BY <1>3

LEMMA OrderedTop ==
  ASSUME Sound, InOrder
  PROVE  TopMinimal
<1>1. value \in [Entries -> Int] /\ Now \in Heaps /\ Now.list = list
  BY TimesAreNumbers, SoundHeap DEF Sound, TypeOK, Now
<1> DEFINE w == Values(value, list)
           n == Len(list)
<1>2. n \in Nat /\ w \in [1..n -> Int] /\ \A k \in 1..n : w[k] = value[list[k]]
  BY <1>1, ValuesType, SoundHeap
<1>3. Order(w, n)
  BY DEF InOrder
<1> HIDE DEF w
<1>4. ASSUME list # <<>>, NEW e \in Elems(list) PROVE value[list[1]] <= value[e]
  <2>1. PICK k \in 1..n : e = list[k]
    BY <1>4, SoundHeap DEF Elems
  <2>2. w[1] <= w[k]
    BY <1>2, <1>3, RootFirst
  <2>3. 1 \in 1..n
    BY <2>1, <1>2
  <2> QED
    BY <2>1, <2>2, <2>3, <1>2
<1> QED
  BY <1>4 DEF TopMinimal

LEMMA PushOrders ==
  ASSUME Sound, InOrder, NEW e \in Entries, NEW time \in Times, HeapPush(e, time)
  PROVE  InOrder'
<1> DEFINE h == [list |-> Append(list, e), index |-> [index EXCEPT ![e] = Len(list) + 1]]
           n == Len(list)
           v == value'
           w == Values(value, list)
           x == Values(v, h.list)
<1>1. index[e] = 0 /\ v = [value EXCEPT ![e] = time] /\ list' = HeapUp(v, h).list
  BY DEF HeapPush, Becomes
<1>2. /\ h \in Heaps /\ Placed(h) /\ h.list # <<>> /\ Len(h.list) = n + 1
      /\ \A i \in 1..n : h.list[i] = list[i]
  BY <1>1, Pushed
<1>3. /\ n \in Nat /\ Now \in Heaps /\ Now.list = list
      /\ \A i \in 1..n : list[i] \in Entries /\ index[list[i]] = i
  BY SoundHeap DEF Now
<1>4. value \in [Entries -> Int] /\ v \in [Entries -> Int]
  BY TimesAreNumbers, PushStep DEF Sound, TypeOK
<1> HIDE DEF h, v
<1>5. x \in [1..n + 1 -> Int] /\ \A k \in 1..n + 1 : x[k] = v[h.list[k]]
  BY <1>2, <1>4, ValuesType
<1>6. w \in [1..n -> Int] /\ \A k \in 1..n : w[k] = value[list[k]]
  BY <1>3, <1>4, ValuesType
<1>7. Order(w, n)
  BY DEF InOrder
<1> HIDE DEF w, x, n
<1>8. ASSUME NEW k \in 1..n PROVE x[k] = w[k]
  <2>1. list[k] # e /\ list[k] \in Entries
    BY <1>1, <1>3
  <2>2. v[list[k]] = value[list[k]]
    BY <2>1, <1>1, <1>4
  <2>3. k \in 1..n + 1
    BY <1>3
  <2>4. x[k] = v[list[k]]
    BY <2>3, <1>2, <1>5 DEF n
  <2> QED
    BY <2>2, <2>4, <1>6
<1>9. ASSUME NEW k \in 2..n + 1, k # n + 1 PROVE x[k \div 2] <= x[k]
  <2>1. k \in 2..n /\ k \div 2 \in 1..n /\ k \in 1..n
    BY <1>9, <1>3, Halves
  <2>2. w[k \div 2] <= w[k]
    BY <2>1, <1>7 DEF Order
  <2>3. x[k \div 2] = w[k \div 2] /\ x[k] = w[k]
    BY <2>1, <1>8
  <2> QED
    BY <2>2, <2>3
<1>10. ASSUME NEW k \in 2..n + 1 PROVE k \div 2 # n + 1
  BY <1>3, Halves
<1>11. OrderAbove(x, n + 1, n + 1)
  BY <1>9, <1>10 DEF OrderAbove
<1>12. Order(Values(v, HeapUp(v, h).list), n + 1)
  BY <1>2, <1>4, <1>11, UpOrders DEF x
<1>13. Len(list') = n + 1
  BY <1>1, <1>2, UpKeeps DEF Kept
<1> QED
  BY <1>1, <1>12, <1>13 DEF InOrder, v

\* A removal keeps the order if the last entry may stand where the removed one was.
LEMMA RemoveOrders ==
  ASSUME Sound, InOrder, NEW pos \in 1..Len(list), RemoveAt(pos),
         pos \in 2..Len(list) - 1 => value[list[pos \div 2]] <= value[list[Len(list)]]
  PROVE  InOrder'
<1> DEFINE e == list[pos]
           n == Len(list)
           h == MoveLastTo(pos)
           g == HeapDown(value, h, pos)
           w == Values(value, list)
           x == Values(value, h.list)
<1>1. value' = [value EXCEPT ![e] = 0] /\ list' = g.list
  <2> DEFINE k == [g EXCEPT !.index[e] = 0]
  <2>1. list' = k.list /\ value' = [value EXCEPT ![e] = 0]
    BY DEF RemoveAt, Becomes
  <2>2. k.list = g.list
    OBVIOUS
  <2> QED
    BY <2>1, <2>2
<1>2. /\ h \in Heaps /\ Placed(h) /\ Len(h.list) = n - 1
      /\ \A i \in 1..n - 1 : h.list[i] = IF i = pos THEN list[n] ELSE list[i]
      /\ \A f \in Entries : f \in Elems(h.list) <=> f # e /\ f \in Elems(list)
  BY Shortened
<1>3. /\ n \in Nat /\ pos \in Nat \ {0} /\ Now \in Heaps /\ Now.list = list
      /\ \A i \in 1..n : list[i] \in Entries /\ index[list[i]] = i
  BY SoundHeap DEF Now
<1>4. value \in [Entries -> Int]
  BY TimesAreNumbers DEF Sound, TypeOK
<1> HIDE DEF h, e, g
<1>5. x \in [1..n - 1 -> Int] /\ \A k \in 1..n - 1 : x[k] = value[h.list[k]]
  BY <1>2, <1>4, ValuesType, SMTT(40)
<1>6. w \in [1..n -> Int] /\ \A k \in 1..n : w[k] = value[list[k]]
  BY <1>3, <1>4, ValuesType
<1>7. Order(w, n)
  BY DEF InOrder
<1> HIDE DEF w, x, n
<1>8. ASSUME NEW k \in 1..n - 1 PROVE x[k] = IF k = pos THEN w[n] ELSE w[k]
  <2>1. k \in 1..n /\ n \in 1..n
    BY <1>3
  <2> QED
    BY <2>1, <1>2, <1>5, <1>6, SMTT(40)
<1>9. ASSUME NEW k \in 2..n - 1, k \div 2 # pos PROVE x[k \div 2] <= x[k]
  <2>1. k \in 2..n /\ k \div 2 \in 1..n - 1 /\ k \in 1..n - 1
    BY <1>3, Halves
  <2>2. x[k \div 2] = w[k \div 2]
    BY <2>1, <1>8, <1>9
  <2>3. CASE k = pos
    <3>1. value[list[pos \div 2]] <= value[list[n]]
      BY <2>1, <2>3 DEF n
    <3>2. w[k \div 2] = value[list[pos \div 2]] /\ w[n] = value[list[n]]
      <4>1. n \in 1..n /\ k \div 2 \in 1..n
        BY <2>1, <1>3
      <4> QED
        BY <4>1, <2>3, <1>6
    <3> QED
      BY <3>1, <3>2, <2>1, <2>2, <2>3, <1>8
  <2>4. CASE k # pos
    <3>1. w[k \div 2] <= w[k]
      BY <2>1, <1>7 DEF Order
    <3> QED
      BY <3>1, <2>1, <2>2, <2>4, <1>8
  <2> QED
    BY <2>3, <2>4
<1>10. ASSUME NEW k \in 2..n - 1, k \div 2 = pos, pos >= 2 PROVE x[pos \div 2] <= x[k]
  <2>1. /\ k \in 2..n /\ k \in 1..n - 1 /\ pos < k /\ pos \in 2..n
        /\ pos \div 2 \in 1..n - 1 /\ pos \div 2 < pos
    BY <1>3, <1>10, Halves
  <2>2. w[pos \div 2] <= w[pos] /\ w[pos] <= w[k]
    BY <2>1, <1>7, <1>10 DEF Order
  <2>3. x[pos \div 2] = w[pos \div 2] /\ x[k] = w[k]
    BY <2>1, <1>8
  <2>4. w[pos \div 2] \in Int /\ w[pos] \in Int /\ w[k] \in Int
    <3>1. pos \div 2 \in 1..n /\ pos \in 1..n /\ k \in 1..n
      BY <2>1, <1>3
    <3> QED
      BY <3>1, <1>6
  <2> QED
    BY <2>2, <2>3, <2>4
<1>11. OrderBelow(x, n - 1, pos)
  BY <1>9, <1>10 DEF OrderBelow
<1>12. Order(Values(value, g.list), n - 1)
  BY <1>2, <1>3, <1>4, <1>11, DownOrders DEF x, g
<1>13. Kept(h, g)
  BY <1>2, <1>3, DownKeeps DEF g
<1>14. Values(value', g.list) = Values(value, g.list)
  <2>1. ASSUME NEW k \in 1..Len(g.list) PROVE value'[g.list[k]] = value[g.list[k]]
    <3>1. g.list[k] \in Entries /\ g.list[k] \in Elems(g.list)
      BY <1>13, HeapType DEF Kept, Elems
    <3>2. g.list[k] # e
      BY <3>1, <1>2, <1>13 DEF Kept
    <3> QED
      BY <3>1, <3>2, <1>1, <1>4
  <2> QED
    BY <2>1 DEF Values
<1>15. Len(list') = n - 1
  BY <1>1, <1>2, <1>13 DEF Kept
<1> QED
  BY <1>1, <1>12, <1>14, <1>15 DEF InOrder

LEMMA InitOrder == Init => InOrder
<1>1. Init => Len(list) = 0
  BY EmptySeq DEF Init
<1> QED
  BY <1>1 DEF InOrder, Order

LEMMA StutterOrder ==
  ASSUME InOrder, UNCHANGED vars
  PROVE  InOrder'
BY DEF vars, InOrder, Values

\* Up to five entries the last one may stand anywhere: the place above is above it too.
LEMMA FewOrders ==
  ASSUME Max <= 5, Sound, InOrder, NEW pos \in 2..Len(list) - 1
  PROVE  value[list[pos \div 2]] <= value[list[Len(list)]]
<1> DEFINE w == Values(value, list)
           n == Len(list)
<1>1. value \in [Entries -> Int] /\ Now \in Heaps /\ Now.list = list
  BY TimesAreNumbers, SoundHeap DEF Sound, TypeOK, Now
<1>2. n \in Nat /\ w \in [1..n -> Int] /\ \A k \in 1..n : w[k] = value[list[k]]
  BY <1>1, ValuesType, SoundHeap, SMTT(40)
<1>3. Order(w, n) /\ n <= Max /\ Max \in Nat
  BY HeapAssumption DEF InOrder, Sound, TypeOK
<1> HIDE DEF w, n
<1>4. pos \in 2..n - 1 /\ n \in 3..5
  <2>1. pos \in 2..n - 1
    BY DEF n
  <2> QED
    BY <2>1, <1>2, <1>3
<1>5. (pos \div 2 = 1) \/ (pos = 4 /\ n = 5)
  BY <1>4
<1>6. CASE pos \div 2 = 1
  <2>1. w[1] <= w[n]
    BY <1>2, <1>3, <1>4, RootFirst
  <2>2. 1 \in 1..n /\ n \in 1..n
    BY <1>4
  <2> QED
    BY <2>1, <2>2, <1>2, <1>6 DEF n
<1>7. CASE pos = 4 /\ n = 5
  <2>1. 5 \div 2 = 2 /\ 4 \div 2 = 2 /\ 5 \in 2..n /\ 2 \in 1..n /\ 5 \in 1..n
    BY <1>7
  <2>2. w[2] <= w[5]
    BY <2>1, <1>3 DEF Order
  <2> QED
    BY <2>1, <2>2, <1>2, <1>7 DEF n
<1> QED
  BY <1>5, <1>6, <1>7

\* With room for at most five entries HeapTop is the earliest one, whichever entries
\* HeapDelete takes from the middle.  (heap_six shows that five is the most.)
THEOREM TopFirst ==
  ASSUME Max <= 5
  PROVE  Spec => []TopMinimal
<1>1. ASSUME Sound, InOrder, [Next]_vars PROVE InOrder'
  <2>1. CASE UNCHANGED vars
    BY <1>1, <2>1, StutterOrder
  <2>2. CASE Next
    BY <1>1, <2>2, Operations, PushOrders, RemoveOrders, FewOrders
  <2> QED
    BY <1>1, <2>1, <2>2
<1>2. Sound /\ InOrder /\ [Next]_vars => InOrder'
  BY <1>1
<1>3. Sound /\ InOrder => TopMinimal
  BY OrderedTop
<1> QED
  BY <1>2, <1>3, InitOrder, AlwaysSound, PTL DEF Spec

\* ... and a heap of any size from which only the top is taken keeps it earliest:
\* what breaks the order is HeapDelete alone.
QueueNext == HeapPop \/ \E e \in Entries, time \in Times : HeapPush(e, time)

THEOREM TopFirstWithoutDelete == Init /\ [][QueueNext]_vars => []TopMinimal
<1>1. QueueNext => Next
  BY DEF QueueNext, Next
<1>2. ASSUME Sound, InOrder, QueueNext PROVE InOrder'
  <2>1. CASE HeapPop
    <3>1. 1 \in 1..Len(list) /\ RemoveAt(1)
      BY <1>2, <2>1, SoundHeap, EmptySeq DEF HeapPop
    <3>2. 1 \notin 2..Len(list) - 1
      OBVIOUS
    <3> QED
      BY <1>2, <3>1, <3>2, RemoveOrders
  <2>2. CASE \E e \in Entries, time \in Times : HeapPush(e, time)
    BY <1>2, <2>2, PushOrders
  <2> QED
    BY <1>2, <2>1, <2>2 DEF QueueNext
<1>3. Sound /\ InOrder /\ [QueueNext]_vars => Sound' /\ InOrder'
  BY <1>1, <1>2, NextSound, StutterOrder
<1>4. Sound /\ InOrder => TopMinimal
  BY OrderedTop
<1> QED
  BY <1>3, <1>4, InitSound, InitOrder, PTL
=============================================================================
