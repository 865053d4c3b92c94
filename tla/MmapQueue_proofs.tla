-------------------------- MODULE MmapQueue_proofs --------------------------
(***************************************************************************)
(* What the monitor queue holds until the first accident, for every size   *)
(* of the ring, any writers and readers, any messages and deaths: the ring *)
(* keeps what was put into it, and mq_get returns it whole, once, and in   *)
(* the order in which the writers got their nodes.                         *)
(***************************************************************************)
EXTENDS MmapQueue, SequenceTheorems, TLAPS

\* How far one position is behind another, and behind head_pos.
Dist(from, to) == IF from <= to THEN to - from ELSE to + EleCount + 1 - from
Way(p) == Dist(head_pos, p)

Claims == 1..Len(claims)

\* A message that mq_get must not miss: it is in the queue or going to be.
Live(m) == m \in published \/ Busy(claims[m].by)

\* A claim without a token has a writer that is at work on it, or was killed at it; and
\* that writer has no other.
OwnInv ==
  /\ published \subseteq Claims
  /\ \A w \in Writers : pc[w] \in {"idle", "again", "claim", "skip", "fill", "token", "dead"}
  /\ \A r \in Readers : pc[r] \in {"idle", "look", "recheck", "need", "take", "copy", "reset"}
  /\ \A w \in Writers : pc[w] \in {"again", "claim"} => nr_nodes[w] \in Needs
  /\ \A m \in Claims \ published : Busy(claims[m].by) \/ pc[claims[m].by] = "dead"
  /\ \A m, j \in Claims \ published : claims[m].by = claims[j].by => m = j
  /\ \A w \in Writers : Busy(w) =>
       \E m \in Claims \ published :
         claims[m].by = w /\ claims[m].at = idx[w] /\ claims[m].n = nr_nodes[w]

\* A writer whose compare-and-swap is going to succeed has found room behind tail_pos, and
\* readers have only made more since.
RoomOf(w) ==
  pc[w] = "claim" /\ w \notin outrun =>
    /\ old_tail[w] = tail_pos
    /\ nr_nodes[w] >= 1 /\ idx[w] + nr_nodes[w] = new_tail[w]
    /\ Dist(tail_pos, idx[w]) + nr_nodes[w] = Dist(tail_pos, new_tail[w])
    /\ Way(tail_pos) + Dist(tail_pos, new_tail[w]) <= EleCount
    /\ idx[w] = tail_pos \/ idx[w] = 0

RoomInv == \A w \in Writers : RoomOf(w)

\* What readers hold is not in use, and nobody else holds it.
HeldInv ==
  \A r \in Readers : pc[r] \in {"copy", "reset"} =>
    /\ old_head[r] # new_head[r]
    /\ \A p \in Held(r) : Way(p) >= Way(tail_pos)
    /\ \A q \in Readers \ {r} : Held(r) \cap Held(q) = {}

\* The nodes of message m hold it.
Filled(m) ==
  /\ node[claims[m].at].need = claims[m].n
  /\ \A i \in 1..claims[m].n :
       node[claims[m].at + i - 1].msg = m /\ node[claims[m].at + i - 1].piece = i

\* The claims after number k are in the ring, in their order.
OrderInv(k) ==
  \A m \in k + 1..Len(claims) :
    /\ claims[m].at + claims[m].n <= EleCount
    /\ Way(claims[m].at) + claims[m].n <= Way(tail_pos)
    /\ \A j \in m + 1..Len(claims) : Way(claims[m].at) + claims[m].n <= Way(claims[j].at)

\* A writer works on a claim that is in the ring.
WriteInv(k) ==
  \A m \in Claims \ published : LET w == claims[m].by IN
    Busy(w) =>
      /\ m > k
      /\ pc[w] = "token" => Filled(m)
      /\ pc[w] = "skip" =>
           /\ claims[m].at = 0 /\ Way(old_tail[w]) < Way(0)
           /\ \A j \in k + 1..m - 1 : Way(claims[j].at) + claims[j].n <= Way(old_tail[w])

\* A token is the one of a message in the ring, or a reader is about to reset it.
TokenInv(k) ==
  /\ \A p \in Positions : node[p].start_token = "has_data" =>
       \/ \E r \in Readers : p \in Held(r)
       \/ \E m \in published : m > k /\ claims[m].at = p
  /\ \A m \in published : m > k =>
       node[claims[m].at].start_token = "has_data" /\ Filled(m)

\* A reader that has not been outrun has passed no message that it must not miss.
WalkOf(r, k) ==
  r \notin outrun /\ pc[r] \in {"look", "recheck", "need", "take"} =>
    /\ old_head[r] = head_pos
    /\ Way(head[r]) <= Way(tail_pos)
    /\ pc[r] # "look" => Way(head[r]) < Way(tail_pos)
    /\ \A m \in k + 1..Len(claims) : Live(m) => Way(head[r]) <= Way(claims[m].at)
    /\ pc[r] \in {"need", "take"} => node[head[r]].start_token = "has_data"
    /\ pc[r] = "take" => new_head[r] = Add(head[r], node[head[r]].need)

WalkInv(k) == \A r \in Readers : WalkOf(r, k)

\* The message that a reader has claimed and not returned yet.
Taken(r) == node[head[r]].msg

CopyOf(r, k) ==
  pc[r] = "copy" =>
    /\ Taken(r) \in published /\ Taken(r) <= k
    /\ head[r] = claims[Taken(r)].at /\ Filled(Taken(r))
    /\ new_head[r] = head[r] + claims[Taken(r)].n /\ new_head[r] <= EleCount
    /\ Nodes(Taken(r)) \subseteq Held(r)
    /\ \A j \in Returned(r) : j < Taken(r)
    /\ \A q \in Readers : Taken(r) \notin Returned(q)
    /\ \A q \in Readers \ {r} : pc[q] = "copy" => Taken(q) # Taken(r)

CopyInv(k) == \A r \in Readers : CopyOf(r, k)

\* Messages up to number k have been taken.
PastInv(k) ==
  /\ \A r \in Readers : Returned(r) \subseteq 1..k
  /\ \A m \in published : m <= k =>
       \E r \in Readers : m \in Returned(r) \/ (pc[r] = "copy" /\ Taken(r) = m)

Ring(k) ==
  /\ k \in 0..Len(claims)
  /\ OrderInv(k) /\ WriteInv(k) /\ TokenInv(k) /\ WalkInv(k) /\ CopyInv(k) /\ PastInv(k)

Good(k) == RoomInv /\ HeldInv /\ Ring(k)

GotType == got \in [Readers -> Seq(Seq(Nat \X Nat))]

IInv ==
  /\ TypeOK /\ OwnInv /\ GotType /\ Whole /\ InOrder
  /\ Sane => \E k \in 0..Len(claims) : Good(k)

-----------------------------------------------------------------------------
(* The ring. *)

LEMMA DistIs ==
  ASSUME NEW a \in Positions, NEW b \in Positions
  PROVE  Dist(a, b) \in 0..EleCount /\ (Dist(a, b) = 0 <=> a = b)
BY SizesAssumption DEF Positions, Dist

\* Distances add up as long as they do not go round.
LEMMA DistJoin ==
  ASSUME NEW a \in Positions, NEW b \in Positions, NEW c \in Positions,
         Dist(a, b) + Dist(b, c) <= EleCount
  PROVE  Dist(a, c) = Dist(a, b) + Dist(b, c)
BY SizesAssumption DEF Positions, Dist

\* Seen from a position further on.
LEMMA DistFrom ==
  ASSUME NEW a \in Positions, NEW b \in Positions, NEW c \in Positions
  PROVE  /\ Dist(a, b) <= Dist(a, c) => Dist(b, c) = Dist(a, c) - Dist(a, b)
         /\ Dist(a, c) < Dist(a, b) => Dist(b, c) = Dist(a, c) + EleCount + 1 - Dist(a, b)
         /\ Dist(a, b) = Dist(a, c) <=> b = c
BY SizesAssumption DEF Positions, Dist

LEMMA BetweenIs ==
  ASSUME NEW a \in Positions, NEW b \in Positions
  PROVE  Between(a, b) = {p \in Positions : Dist(a, p) < Dist(a, b)}
<1>1. \A p : p \in Between(a, b) <=> p \in Positions /\ Dist(a, p) < Dist(a, b)
  BY SizesAssumption DEF Positions, Dist, Between
<1> QED
  BY <1>1

\* The remainder of what goes round the ring at most once.
LEMMA ModIs ==
  ASSUME NEW n \in 0..2 * EleCount + 1
  PROVE  n % (EleCount + 1) = IF n <= EleCount THEN n ELSE n - EleCount - 1
<1> DEFINE size == EleCount + 1
<1>1. size \in Nat /\ size > 0 /\ n \in Int /\ n < 2 * size
  BY SizesAssumption
<1>2. EleCount = size - 1 /\ size \in Int
  BY SizesAssumption
<1> HIDE DEF size
<1>3. n % size = IF n < size THEN n ELSE n - size
  <2>1. CASE n < size
    BY <1>1, <2>1
  <2>2. CASE n >= size
    BY <1>1, <2>2
  <2> QED
    BY <1>1, <2>1, <2>2
<1>4. n % (EleCount + 1) = n % size
  BY DEF size
<1> QED
  BY <1>1, <1>2, <1>3, <1>4

LEMMA AddIs ==
  ASSUME NEW p \in Positions, NEW n \in Positions
  PROVE  /\ Add(p, n) \in Positions
         /\ Add(p, n) = IF p + n <= EleCount THEN p + n ELSE p + n - EleCount - 1
<1>1. p + n \in 0..2 * EleCount + 1 /\ EleCount \in Nat
  BY SizesAssumption DEF Positions
<1> DEFINE s == p + n
<1>2. s % (EleCount + 1) = IF s <= EleCount THEN s ELSE s - EleCount - 1
  <2>1. s \in 0..2 * EleCount + 1
    BY <1>1
  <2> HIDE DEF s
  <2> QED
    BY <2>1, ModIs
<1> QED
  BY <1>1, <1>2 DEF Add, Positions

LEMMA DistAdd ==
  ASSUME NEW a \in Positions, NEW p \in Positions, NEW n \in Nat, Dist(a, p) + n <= EleCount
  PROVE  /\ n \in Positions /\ Add(p, n) \in Positions /\ Dist(a, Add(p, n)) = Dist(a, p) + n
         /\ p + n <= EleCount => Add(p, n) = p + n
<1>1. n \in Positions
  BY SizesAssumption, DistIs DEF Positions
<1>2. Add(p, n) = IF p + n <= EleCount THEN p + n ELSE p + n - EleCount - 1
  BY <1>1, AddIs
<1>3. Add(p, n) \in Positions
  BY <1>1, AddIs
<1> QED
  BY <1>1, <1>2, <1>3, SizesAssumption DEF Positions, Dist

\* The nodes of a message follow each other.
LEMMA DistNode ==
  ASSUME NEW a \in Positions, NEW p \in Positions, NEW n \in Nat, p + n <= EleCount,
         Dist(a, p) + n <= EleCount, NEW i \in 0..n
  PROVE  p + i \in Positions /\ Dist(a, p + i) = Dist(a, p) + i
BY SizesAssumption DEF Positions, Dist

\* What is empty and what is used make up the ring.
LEMMA RoomIs ==
  ASSUME NEW hd \in Positions, tail_pos \in Positions
  PROVE  EmptyNodes(hd) = EleCount - Dist(hd, tail_pos) /\ UsedNodes(hd) = Dist(hd, tail_pos)
<1> DEFINE s == hd + EleCount - tail_pos
<1>1. s \in 0..2 * EleCount + 1 /\ EleCount \in Nat
  BY SizesAssumption DEF Positions
<1>2. s % (EleCount + 1) = IF s <= EleCount THEN s ELSE s - EleCount - 1
  <2> HIDE DEF s
  <2> QED
    BY <1>1, ModIs
<1>3. EmptyNodes(hd) = s % (EleCount + 1)
  BY DEF EmptyNodes
<1>4. EmptyNodes(hd) = EleCount - Dist(hd, tail_pos)
  BY <1>1, <1>2, <1>3 DEF Positions, Dist
<1> QED
  BY <1>1, <1>4, DistIs DEF UsedNodes

-----------------------------------------------------------------------------
(* Types and owners. *)

LEMMA Kinds ==
  /\ Procs = Writers \cup Readers
  /\ \A w \in Writers : w \in Procs /\ w \notin Readers
  /\ \A r \in Readers : r \in Procs /\ r \notin Writers
BY ProcsAssumption DEF Procs

LEMMA NeedsIs == ASSUME NEW n \in Needs PROVE n \in 1..EleCount
BY SizesAssumption

\* p goes on with step s and nobody else moves.
Moves(p, s) == pc'[p] = s /\ \A q \in Procs \ {p} : pc'[q] = pc[q]

LEMMA GoMoves ==
  ASSUME TypeOK, NEW p \in Procs, NEW s, Go(p, s)
  PROVE  Moves(p, s)
BY DEF TypeOK, Go, Moves

\* The claim a writer works on.
LEMMA OwnIs ==
  ASSUME TypeOK, OwnInv, NEW w \in Writers, Busy(w)
  PROVE  /\ Own(w) \in Claims \ published
         /\ claims[Own(w)].by = w /\ claims[Own(w)].at = idx[w] /\ claims[Own(w)].n = nr_nodes[w]
         /\ \A m \in Claims \ published : claims[m].by = w => m = Own(w)
<1>1. PICK m \in Claims \ published :
        claims[m].by = w /\ claims[m].at = idx[w] /\ claims[m].n = nr_nodes[w]
  BY DEF OwnInv
<1>2. \A j \in Claims \ published : claims[j].by = w => j = m
  BY <1>1 DEF OwnInv
<1>3. Own(w) = m
  BY <1>1, <1>2 DEF Own, Claims
<1> QED
  BY <1>1, <1>2, <1>3

LEMMA ClaimIs ==
  ASSUME TypeOK, NEW m \in Claims
  PROVE  /\ m \in Nat /\ m >= 1 /\ m <= MaxMsgs /\ Len(claims) \in Nat
         /\ claims[m].at \in Positions /\ claims[m].n \in 1..EleCount /\ claims[m].by \in Writers
<1> DEFINE Kind == [at : Positions, n : 1..EleCount, by : Writers]
<1>s. claims \in Seq(Kind)
  BY DEF TypeOK
<1> HIDE DEF Kind
<1>k. claims[m] \in Kind
  BY <1>s DEF Claims
<1>1. claims[m] \in [at : Positions, n : 1..EleCount, by : Writers]
  BY <1>k DEF Kind
<1>2. Len(claims) \in Nat /\ Len(claims) <= MaxMsgs /\ MaxMsgs \in Nat
  BY SizesAssumption DEF TypeOK
<1> QED
  BY <1>1, <1>2 DEF Claims

\* A claim is made.
LEMMA ClaimAppended ==
  ASSUME TypeOK, NEW c, claims' = Append(claims, c), NEW last, last = Len(claims) + 1
  PROVE  /\ Claims' = Claims \cup {last} /\ last \notin Claims /\ Len(claims) \in Nat
         /\ Len(claims') = last
         /\ \A m \in Claims : claims'[m] = claims[m]
         /\ claims'[last] = c
<1> DEFINE Kind == [at : Positions, n : 1..EleCount, by : Writers]
<1>1. claims \in Seq(Kind)
  BY DEF TypeOK
<1> HIDE DEF Kind
<1>2. /\ Len(claims') = last /\ Len(claims) \in Nat
      /\ \A m \in 1..Len(claims) : claims'[m] = claims[m]
      /\ claims'[last] = c
  BY <1>1
<1>3. 1..last = (1..Len(claims)) \cup {last} /\ last \notin 1..Len(claims)
  BY <1>2
<1> QED
  BY <1>2, <1>3 DEF Claims

\* The parts of the type invariant.
NodeType == [start_token : {"no_data", "has_data", "skipped", "payload"},
             need : 1..EleCount, msg : 0..MaxMsgs, piece : 1..EleCount]
PutTypes ==
  /\ nr_nodes \in [Writers -> 0..EleCount]
  /\ old_tail \in [Writers -> Positions] /\ new_tail \in [Writers -> Positions]
  /\ idx \in [Writers -> Positions]

LEMMA ForgetPutTypes ==
  ASSUME PutTypes, NEW w \in Writers, ForgetPut(w)
  PROVE  PutTypes'
<1>1. 0 \in 0..EleCount /\ 0 \in Positions
  BY SizesAssumption DEF Positions
<1> QED
  BY <1>1 DEF PutTypes, ForgetPut

\* A token is set.
LEMMA TokenIs ==
  ASSUME node \in [Positions -> NodeType], NEW p \in Positions,
         NEW token \in {"no_data", "has_data", "skipped", "payload"},
         node' = [node EXCEPT ![p].start_token = token]
  PROVE  /\ node' \in [Positions -> NodeType]
         /\ node'[p].start_token = token
         /\ \A q \in Positions : q # p => node'[q] = node[q]
         /\ \A q \in Positions : /\ node'[q].need = node[q].need /\ node'[q].msg = node[q].msg
                                 /\ node'[q].piece = node[q].piece
<1> DEFINE new == [node[p] EXCEPT !.start_token = token]
<1>1. node[p] \in NodeType
  OBVIOUS
<1>2. /\ new \in NodeType /\ new.start_token = token /\ new.need = node[p].need
      /\ new.msg = node[p].msg /\ new.piece = node[p].piece
  BY <1>1 DEF NodeType
<1>3. node' = [node EXCEPT ![p] = new]
  OBVIOUS
<1> HIDE DEF new
<1>4. /\ node' \in [Positions -> NodeType] /\ node'[p] = new
      /\ \A q \in Positions : q # p => node'[q] = node[q]
  BY <1>2, <1>3
<1> QED
  BY <1>2, <1>4

LEMMA TypeWriters ==
  ASSUME TypeOK, OwnInv, NEW w \in Writers, Put(w) \/ Die(w)
  PROVE  TypeOK'
<1> USE Kinds
<1>0. w \in Procs /\ EleCount \in Nat /\ EleCount >= 1 /\ 0 \in Positions /\ 1 \in Positions
  BY SizesAssumption DEF Positions
<1>n. node \in [Positions -> NodeType] /\ PutTypes
  BY DEF TypeOK, NodeType, PutTypes
<1>1. ASSUME NEW n \in Needs, Look(w, n) PROVE TypeOK'
  <2>1. n \in 1..EleCount /\ n \in Positions /\ tail_pos \in Positions
    BY NeedsIs, <1>0, SMTT(40) DEF Positions, TypeOK
  <2>2. Add(tail_pos, n) \in Positions
    BY <2>1, AddIs
  <2>3. /\ UNCHANGED <<file, getLocals, claims, published, got, blame, deaths>>
        /\ outrun' = outrun \ {w}
    BY <1>1 DEF Look
  <2>4. CASE HasRoom(n) /\ MayPut
    <3>1. /\ pc' = [pc EXCEPT ![w] = "claim"]
          /\ nr_nodes' = [nr_nodes EXCEPT ![w] = n]
          /\ old_tail' = [old_tail EXCEPT ![w] = tail_pos]
          /\ idx' = [idx EXCEPT ![w] = IF Wraps(n) THEN 0 ELSE tail_pos]
          /\ new_tail' = [new_tail EXCEPT ![w] = IF Wraps(n) THEN n ELSE Add(tail_pos, n)]
      BY <1>1, <2>4 DEF Look, Go
    <3>2. PutTypes'
      <4>1. /\ (IF Wraps(n) THEN 0 ELSE tail_pos) \in Positions
            /\ (IF Wraps(n) THEN n ELSE Add(tail_pos, n)) \in Positions
        BY <1>0, <2>1, <2>2
      <4> QED
        BY <1>n, <2>1, <3>1, <4>1 DEF PutTypes
    <3> QED
      BY <1>0, <2>3, <3>1, <3>2 DEF TypeOK, PutTypes, file, getLocals
  <2>5. CASE ~(HasRoom(n) /\ MayPut)
    <3>1. pc' = [pc EXCEPT ![w] = "idle"] /\ ForgetPut(w)
      BY <1>1, <2>5 DEF Look, Go
    <3>2. PutTypes'
      BY <1>n, <3>1, ForgetPutTypes
    <3> QED
      BY <1>0, <2>3, <3>1, <3>2 DEF TypeOK, PutTypes, file, getLocals
  <2> QED
    BY <2>4, <2>5
<1>2. CASE ClaimNodes(w)
  <2>0. /\ UNCHANGED <<head_pos, node, putLocals, getLocals, published, got, deaths>>
        /\ pc[w] = "claim"
    BY <1>2 DEF ClaimNodes
  <2>1. CASE CasTail(w)
    <3>1. /\ MayPut /\ tail_pos' = new_tail[w]
          /\ \E s \in {"skip", "fill"} : pc' = [pc EXCEPT ![w] = s]
          /\ outrun' = (outrun \cup {v \in Writers : pc[v] = "claim"}) \ {w}
          /\ claims' = Append(claims, Claim(idx[w], nr_nodes[w], w))
          /\ blame' \subseteq blame \cup {"reused", "lapped"}
      BY <1>2, <2>1 DEF ClaimNodes, Go
    <3>2. nr_nodes[w] \in 1..EleCount
      BY <2>0, NeedsIs DEF OwnInv
    <3>3. Claim(idx[w], nr_nodes[w], w) \in [at : Positions, n : 1..EleCount, by : Writers]
      BY <3>2 DEF Claim, TypeOK
    <3>4. /\ claims' \in Seq([at : Positions, n : 1..EleCount, by : Writers])
          /\ Len(claims') = Len(claims) + 1
      BY <3>1, <3>3 DEF TypeOK
    <3>5. Len(claims') <= MaxMsgs
      BY <3>1, <3>4, SizesAssumption DEF MayPut, TypeOK
    <3> QED
      BY <2>0, <3>1, <3>4, <3>5 DEF TypeOK, putLocals, getLocals
  <2>2. CASE ~CasTail(w)
    <3>1. pc' = [pc EXCEPT ![w] = "again"] /\ UNCHANGED <<tail_pos, claims, outrun, blame>>
      BY <1>2, <2>2 DEF ClaimNodes, Go
    <3> QED
      BY <1>0, <2>0, <3>1 DEF TypeOK, putLocals, getLocals
  <2> QED
    BY <2>1, <2>2
<1>3. CASE MarkSkipped(w)
  <2>1. Add(old_tail[w], 1) \in Positions
    BY <1>0, AddIs DEF TypeOK
  <2>2. /\ node' = [node EXCEPT ![old_tail[w]].start_token = "skipped"]
        /\ old_tail' = [old_tail EXCEPT ![w] = Add(@, 1)]
        /\ pc' = [pc EXCEPT ![w] = "fill"] \/ pc' = pc
        /\ UNCHANGED <<head_pos, tail_pos, nr_nodes, new_tail, idx, getLocals, history>>
    BY <1>3 DEF MarkSkipped, Go
  <2>3. old_tail' \in [Writers -> Positions]
    BY <2>1, <2>2 DEF TypeOK
  <2>4. node' \in [Positions -> NodeType]
    BY <1>n, <2>2, TokenIs DEF TypeOK
  <2>5. pc' \in [Procs -> {"idle", "again", "claim", "skip", "fill", "token", "dead",
                       "look", "recheck", "need", "take", "copy", "reset"}]
    BY <2>2 DEF TypeOK
  <2> QED
    BY <2>2, <2>3, <2>4, <2>5 DEF TypeOK, NodeType, getLocals, history, unmoved
<1>4. CASE Fill(w)
  <2> DEFINE m == Own(w)
  <2>1. /\ m \in Claims /\ idx[w] = claims[m].at /\ nr_nodes[w] = claims[m].n
    BY <1>4, OwnIs DEF Fill, Busy
  <2>2. /\ m \in 0..MaxMsgs /\ nr_nodes[w] \in 1..EleCount /\ idx[w] \in Positions
    BY <2>1, ClaimIs, SizesAssumption
  <2>3. /\ node' = [p \in Positions |->
             IF p \notin idx[w]..idx[w] + nr_nodes[w] - 1 THEN node[p]
             ELSE [start_token |-> IF p = idx[w] THEN node[p].start_token ELSE "payload",
                   need |-> IF p = idx[w] THEN nr_nodes[w] ELSE node[p].need, msg |-> m,
                   piece |-> p - idx[w] + 1]]
        /\ pc' = [pc EXCEPT ![w] = "token"]
        /\ UNCHANGED <<head_pos, tail_pos, putLocals, getLocals, history>>
    BY <1>4 DEF Fill, Go
  <2> HIDE DEF m
  <2>4. node' \in [Positions -> NodeType]
    <3>1. ASSUME NEW p \in Positions
          PROVE  node'[p] \in NodeType
      <4>1. node[p] \in NodeType
        BY <1>n
      <4>2. CASE p \notin idx[w]..idx[w] + nr_nodes[w] - 1
        BY <2>3, <4>1, <4>2
      <4>3. CASE p \in idx[w]..idx[w] + nr_nodes[w] - 1
        <5>1. p - idx[w] + 1 \in 1..EleCount
          BY <2>2, <4>3, <1>0 DEF Positions
        <5>2. node'[p] =
               [start_token |-> IF p = idx[w] THEN node[p].start_token ELSE "payload",
                need |-> IF p = idx[w] THEN nr_nodes[w] ELSE node[p].need, msg |-> m,
                piece |-> p - idx[w] + 1]
          BY <2>3, <4>3
        <5>3. /\ node[p].start_token \in {"no_data", "has_data", "skipped", "payload"}
              /\ node[p].need \in 1..EleCount
          BY <4>1 DEF NodeType
        <5> DEFINE tk == IF p = idx[w] THEN node[p].start_token ELSE "payload"
                   nd == IF p = idx[w] THEN nr_nodes[w] ELSE node[p].need
                   pi == p - idx[w] + 1
        <5>4. tk \in {"no_data", "has_data", "skipped", "payload"} /\ nd \in 1..EleCount
              /\ pi \in 1..EleCount
          BY <2>2, <5>1, <5>3
        <5>5. node'[p] = [start_token |-> tk, need |-> nd, msg |-> m, piece |-> pi]
          BY <5>2
        <5> HIDE DEF tk, nd, pi
        <5> QED
          BY <2>2, <5>4, <5>5 DEF NodeType
      <4> QED
        BY <4>2, <4>3
    <3>2. node' = [p \in Positions |-> node'[p]]
      BY <2>3
    <3> QED
      BY <3>1, <3>2
  <2> QED
    BY <1>0, <2>3, <2>4 DEF TypeOK, NodeType, putLocals, getLocals, history, unmoved
<1>5. CASE SetToken(w)
  <2>1. Own(w) \in Claims
    BY <1>5, OwnIs DEF SetToken, Busy
  <2>2. Own(w) \in 1..MaxMsgs
    BY <2>1, ClaimIs, SizesAssumption
  <2>3. /\ node' = [node EXCEPT ![idx[w]].start_token = "has_data"]
        /\ published' = published \cup {Own(w)}
        /\ pc' = [pc EXCEPT ![w] = "idle"] /\ ForgetPut(w)
        /\ UNCHANGED <<head_pos, tail_pos, getLocals, claims, got, outrun, blame, deaths>>
    BY <1>5 DEF SetToken, Go
  <2>4. node' \in [Positions -> NodeType]
    BY <1>n, <2>3, TokenIs DEF TypeOK
  <2>5. PutTypes'
    BY <1>n, <2>3, ForgetPutTypes
  <2> QED
    BY <1>0, <2>2, <2>3, <2>4, <2>5, ZenonT(60) DEF TypeOK, NodeType, PutTypes, getLocals
<1>6. CASE Die(w)
  <2>1. /\ deaths' = deaths + 1 /\ deaths < MaxDeaths
        /\ pc' = [pc EXCEPT ![w] = "dead"] /\ ForgetPut(w)
        /\ UNCHANGED <<file, getLocals, claims, published, got, outrun, blame>>
    BY <1>6 DEF Die, Go
  <2>2. deaths' \in 0..MaxDeaths
    BY <2>1, SizesAssumption DEF TypeOK
  <2>3. PutTypes'
    BY <1>n, <2>1, ForgetPutTypes
  <2> QED
    BY <1>0, <2>1, <2>2, <2>3 DEF TypeOK, PutTypes, getLocals, file
<1> QED
  BY <1>1, <1>2, <1>3, <1>4, <1>5, <1>6 DEF Put

GetTypes ==
  /\ rw_conflict \in [Readers -> 0..SQ_MAX_CONFLICT_TRIES]
  /\ old_head \in [Readers -> Positions] /\ head \in [Readers -> Positions]
  /\ new_head \in [Readers -> Positions]

LEMMA ForgetGetTypes ==
  ASSUME GetTypes, NEW r \in Readers, ForgetGet(r), rw_conflict' = rw_conflict
         \/ rw_conflict' = [rw_conflict EXCEPT ![r] = 0]
  PROVE  GetTypes'
<1>1. 0 \in Positions /\ 0 \in 0..SQ_MAX_CONFLICT_TRIES
  BY SizesAssumption DEF Positions
<1>2. rw_conflict' \in [Readers -> 0..SQ_MAX_CONFLICT_TRIES]
  BY <1>1 DEF GetTypes
<1> QED
  BY <1>1, <1>2 DEF GetTypes, ForgetGet

LEMMA TypeReaders ==
  ASSUME TypeOK, OwnInv, NEW r \in Readers, Read(r)
  PROVE  TypeOK'
<1> USE Kinds
<1>0. r \in Procs /\ 0 \in Positions /\ 1 \in Positions /\ head[r] \in Positions
  BY SizesAssumption DEF Positions, TypeOK
<1>n. node \in [Positions -> NodeType] /\ GetTypes
  BY DEF TypeOK, NodeType, GetTypes
<1>a. Add(head[r], 1) \in Positions /\ Add(old_head[r], 1) \in Positions
  BY <1>0, AddIs DEF TypeOK
<1>s. \* What is common to all of them.
      ASSUME /\ head_pos' \in Positions /\ tail_pos' = tail_pos /\ node' \in [Positions -> NodeType]
             /\ UNCHANGED putLocals /\ GetTypes'
             /\ \E s \in {"idle", "look", "recheck", "need", "take", "copy", "reset"} :
                  pc' = [pc EXCEPT ![r] = s] \/ pc' = pc
             /\ UNCHANGED <<claims, published, deaths>> /\ outrun' \subseteq outrun \cup Readers
             /\ blame' \subseteq blame \cup {"impatient", "reused", "lapped"}
      PROVE  TypeOK'
  <2>1. pc' \in [Procs -> {"idle", "again", "claim", "skip", "fill", "token", "dead",
                           "look", "recheck", "need", "take", "copy", "reset"}]
    BY <1>0, <1>s DEF TypeOK
  <2>2. outrun' \subseteq Procs /\ blame' \subseteq {"impatient", "reused", "lapped"}
    BY <1>s DEF TypeOK
  <2> QED
    BY <1>s, <2>1, <2>2 DEF TypeOK, GetTypes, NodeType, putLocals
<1>h. head_pos \in Positions /\ tail_pos \in Positions
  BY DEF TypeOK
<1>p. ASSUME NEW p \in Positions, StartAt(r, p), UNCHANGED <<rw_conflict, new_head>>
      PROVE  GetTypes' /\ outrun' \subseteq outrun
  BY <1>n, <1>p DEF StartAt, GetTypes
<1>m. ASSUME NEW p, MoveHead(r, p)
      PROVE  outrun' \subseteq outrun \cup Readers /\ blame' \subseteq blame \cup {"lapped"}
  BY <1>m DEF MoveHead
<1>1. CASE Get(r)
  BY <1>1, <1>n, <1>s, <1>h, <1>p DEF Get, file, unmoved, StartAt, Go
<1>2. CASE AtTail(r)
  <2>0. UNCHANGED <<tail_pos, node, putLocals, claims, published, got, deaths>>
    BY <1>2 DEF AtTail
  <2>1. CASE head[r] # old_head[r] /\ head_pos = old_head[r]
    <3>1. /\ MoveHead(r, head[r]) /\ new_head' = [new_head EXCEPT ![r] = head[r]]
          /\ Go(r, "reset") /\ UNCHANGED <<old_head, head, rw_conflict>>
      BY <1>2, <2>1 DEF AtTail
    <3>2. GetTypes'
      BY <1>0, <1>n, <3>1 DEF GetTypes
    <3>3. head_pos' \in Positions
      BY <1>0, <3>1 DEF MoveHead
    <3> QED
      BY <1>m, <1>n, <1>s, <2>0, <3>1, <3>2, <3>3 DEF Go
  <2>2. CASE ~(head[r] # old_head[r] /\ head_pos = old_head[r])
    <3>1. Return(r) /\ UNCHANGED <<head_pos, outrun, blame>>
      BY <1>2, <2>2 DEF AtTail
    <3>2. GetTypes'
      BY <1>n, <3>1, ForgetGetTypes DEF Return
    <3> QED
      BY <1>h, <1>n, <1>s, <2>0, <3>1, <3>2 DEF Return, Go
  <2> QED
    BY <2>1, <2>2
<1>3. CASE AtNode(r)
  <2>0. UNCHANGED <<file, putLocals, unmoved>>
    BY <1>3 DEF AtNode
  <2>1. CASE Go(r, "need") /\ UNCHANGED <<getLocals, outrun>>
    BY <1>h, <1>n, <1>s, <2>0, <2>1 DEF file, unmoved, getLocals, GetTypes, Go
  <2>2. CASE StartAt(r, head_pos) /\ UNCHANGED <<rw_conflict, new_head>>
    BY <1>h, <1>n, <1>p, <1>s, <2>0, <2>2 DEF file, unmoved, StartAt, Go
  <2>3. CASE /\ Patient(r) /\ rw_conflict' = [rw_conflict EXCEPT ![r] = Tried(@)]
             /\ Go(r, "idle") /\ ForgetGet(r) /\ UNCHANGED outrun
    <3>1. Tried(rw_conflict[r]) \in 0..SQ_MAX_CONFLICT_TRIES
      BY <1>n, <2>3, SizesAssumption DEF GetTypes, Patient, Tried
    <3>2. GetTypes'
      BY <1>0, <1>n, <2>3, <3>1 DEF GetTypes, ForgetGet
    <3> QED
      BY <1>h, <1>n, <1>s, <2>0, <2>3, <3>2 DEF file, unmoved, Go
  <2>4. CASE Go(r, "recheck") /\ UNCHANGED <<getLocals, outrun>>
    BY <1>h, <1>n, <1>s, <2>0, <2>4 DEF file, unmoved, getLocals, GetTypes, Go
  <2> QED
    BY <1>3, <2>1, <2>2, <2>3, <2>4 DEF AtNode
<1>k. ASSUME Skip(r)
      PROVE  /\ head' \in [Readers -> Positions] /\ blame' \subseteq blame \cup {"impatient"}
             /\ pc' = [pc EXCEPT ![r] = "look"]
  BY <1>a, <1>k DEF Skip, Go, TypeOK
<1>4. CASE Recheck(r)
  <2>0. UNCHANGED <<file, putLocals, rw_conflict, old_head, new_head,
                    claims, published, got, outrun, deaths>>
    BY <1>4 DEF Recheck
  <2>1. CASE Finished(r)
    <3>1. Go(r, "need") /\ UNCHANGED <<head, blame>>
      BY <1>4, <2>1 DEF Recheck
    <3>2. GetTypes'
      BY <1>n, <2>0, <3>1 DEF GetTypes
    <3> QED
      BY <1>h, <1>n, <1>s, <2>0, <3>1, <3>2 DEF file, Go
  <2>2. CASE ~Finished(r)
    <3>1. Skip(r)
      BY <1>4, <2>2 DEF Recheck
    <3>2. GetTypes'
      BY <1>k, <1>n, <2>0, <3>1 DEF GetTypes
    <3> QED
      BY <1>h, <1>k, <1>n, <1>s, <2>0, <3>1, <3>2 DEF file
  <2> QED
    BY <2>1, <2>2
<1>5. CASE ReadNeed(r)
  <2> DEFINE n == node[head[r]].need
  <2>0. UNCHANGED <<file, putLocals, rw_conflict, old_head, claims, published, got, outrun, deaths>>
    BY <1>5 DEF ReadNeed
  <2>1. CASE UsedNodes(head[r]) < n
    <3>1. Skip(r) /\ UNCHANGED new_head
      BY <1>5, <2>1 DEF ReadNeed
    <3>2. GetTypes'
      BY <1>k, <1>n, <2>0, <3>1 DEF GetTypes
    <3> QED
      BY <1>h, <1>k, <1>n, <1>s, <2>0, <3>1, <3>2 DEF file
  <2>2. CASE ~(UsedNodes(head[r]) < n)
    <3>1. /\ new_head' = [new_head EXCEPT ![r] = Add(head[r], n)]
          /\ Go(r, "take") /\ UNCHANGED <<head, blame>>
      BY <1>5, <2>2 DEF ReadNeed
    <3>2. n \in Positions
      <4>1. node[head[r]] \in NodeType
        BY <1>0, <1>n
      <4>2. n \in 1..EleCount
        BY <4>1 DEF NodeType
      <4> QED
        BY <4>2, SizesAssumption DEF Positions
    <3>3. Add(head[r], n) \in Positions
      BY <1>0, <3>2, AddIs
    <3> HIDE DEF n
    <3>4. GetTypes'
      BY <1>n, <2>0, <3>1, <3>3 DEF GetTypes
    <3> QED
      BY <1>h, <1>n, <1>s, <2>0, <3>1, <3>4 DEF file, Go
  <2> QED
    BY <2>1, <2>2
<1>6. CASE Take(r)
  <2>0. UNCHANGED <<tail_pos, node, putLocals, rw_conflict, new_head,
                    claims, published, got, deaths>>
    BY <1>6 DEF Take
  <2>1. CASE CasHead(r)
    <3>1. MoveHead(r, new_head[r]) /\ Go(r, "copy") /\ UNCHANGED <<old_head, head>>
      BY <1>6, <2>1 DEF Take
    <3>2. GetTypes' /\ head_pos' \in Positions
      BY <1>n, <2>0, <3>1 DEF GetTypes, MoveHead
    <3> QED
      BY <1>m, <1>n, <1>s, <2>0, <3>1, <3>2 DEF Go
  <2>2. CASE ~CasHead(r)
    <3>1. StartAt(r, head_pos) /\ UNCHANGED <<head_pos, blame>>
      BY <1>6, <2>2 DEF Take
    <3> QED
      BY <1>h, <1>n, <1>p, <1>s, <2>0, <3>1 DEF StartAt, Go
  <2> QED
    BY <2>1, <2>2
<1>7. CASE Copy(r)
  BY <1>7, <1>h, <1>n, <1>s DEF Copy, file, getLocals, GetTypes, Go
<1>8. CASE ResetToken(r)
  <2>0. /\ node' = [node EXCEPT ![old_head[r]] = Cleared(@)]
        /\ UNCHANGED <<head_pos, tail_pos, putLocals, history>>
    BY <1>8 DEF ResetToken
  <2>1. node' \in [Positions -> NodeType]
    BY <1>n, <2>0, TokenIs DEF GetTypes, Cleared
  <2>2. CASE Add(old_head[r], 1) = new_head[r]
    <3>1. Return(r)
      BY <1>8, <2>2 DEF ResetToken
    <3>2. GetTypes'
      BY <1>n, <3>1, ForgetGetTypes DEF Return
    <3> QED
      BY <1>h, <1>s, <2>0, <2>1, <3>1, <3>2 DEF Return, Go, history, unmoved
  <2>3. CASE Add(old_head[r], 1) # new_head[r]
    <3>1. /\ old_head' = [old_head EXCEPT ![r] = Add(@, 1)]
          /\ UNCHANGED <<pc, rw_conflict, head, new_head>>
      BY <1>8, <2>3 DEF ResetToken
    <3>2. GetTypes'
      BY <1>a, <1>n, <3>1 DEF GetTypes
    <3> QED
      BY <1>h, <1>s, <2>0, <2>1, <3>1, <3>2 DEF history, unmoved
  <2> QED
    BY <2>2, <2>3
<1> QED
  BY <1>1, <1>2, <1>3, <1>4, <1>5, <1>6, <1>7, <1>8 DEF Read

\* A writer goes on with its claim, or is killed at it, or has none.
LEMMA OwnFrame ==
  ASSUME TypeOK, OwnInv, NEW w \in Writers, NEW s, Moves(w, s), UNCHANGED <<claims, published>>,
         \A v \in Writers \ {w} : nr_nodes'[v] = nr_nodes[v] /\ idx'[v] = idx[v],
         s \in {"idle", "again", "claim", "skip", "fill", "token", "dead"},
         s \in {"skip", "fill", "token"} =>
           Busy(w) /\ idx'[w] = idx[w] /\ nr_nodes'[w] = nr_nodes[w],
         Busy(w) => s \in {"skip", "fill", "token", "dead"},
         pc[w] = "dead" => s = "dead",
         s \in {"again", "claim"} => nr_nodes'[w] \in Needs
  PROVE  OwnInv'
<1> USE Kinds
<1>1. /\ pc'[w] = s
      /\ \A v \in Writers \ {w} : pc'[v] = pc[v] /\ (Busy(v)' <=> Busy(v))
      /\ \A r \in Readers : pc'[r] = pc[r]
  BY DEF Moves, Busy
<1>2. Busy(w)' <=> s \in {"skip", "fill", "token"}
  BY <1>1 DEF Busy
<1>3. Claims' = Claims /\ claims' = claims /\ published' = published
  BY DEF Claims
<1>4. \A m \in Claims \ published : Busy(claims[m].by)' \/ pc'[claims[m].by] = "dead"
  <2> TAKE m \in Claims \ published
  <2>1. Busy(claims[m].by) \/ pc[claims[m].by] = "dead"
    BY DEF OwnInv
  <2>2. claims[m].by \in Writers
    BY ClaimIs
  <2>3. CASE claims[m].by = w
    BY <1>1, <1>2, <2>1, <2>3
  <2>4. CASE claims[m].by # w
    BY <1>1, <2>1, <2>2, <2>4 DEF Busy
  <2> QED
    BY <2>3, <2>4
<1>5. \A v \in Writers : Busy(v)' =>
        \E m \in Claims \ published :
          claims[m].by = v /\ claims[m].at = idx'[v] /\ claims[m].n = nr_nodes'[v]
  BY <1>1, <1>2 DEF OwnInv
<1>6. \A v \in Writers : pc'[v] \in {"again", "claim"} => nr_nodes'[v] \in Needs
  BY <1>1 DEF OwnInv
<1>7. /\ \A v \in Writers : pc'[v] \in {"idle", "again", "claim", "skip", "fill", "token", "dead"}
      /\ \A r \in Readers : pc'[r] \in {"idle", "look", "recheck", "need", "take", "copy", "reset"}
  BY <1>1 DEF OwnInv
<1> QED
  BY <1>3, <1>4, <1>5, <1>6, <1>7 DEF OwnInv

\* A claim gets a token, or a writer that has none makes one.
LEMMA OwnWriters ==
  ASSUME TypeOK, OwnInv, NEW w \in Writers, Put(w) \/ Die(w)
  PROVE  OwnInv'
<1> USE Kinds
<1>0. w \in Procs
  OBVIOUS
<1>1. ASSUME NEW n \in Needs, Look(w, n) PROVE OwnInv'
  <2>1. PICK s \in {"idle", "claim"} :
          /\ Go(w, s) /\ UNCHANGED <<claims, published>>
          /\ \A v \in Writers \ {w} : nr_nodes'[v] = nr_nodes[v] /\ idx'[v] = idx[v]
          /\ s = "claim" => nr_nodes'[w] = n
    BY <1>1, ZenonT(60) DEF Look, ForgetPut, TypeOK
  <2>2. pc[w] \in {"idle", "again"}
    BY <1>1 DEF Look
  <2>3. ~Busy(w) /\ pc[w] # "dead"
    BY <2>2 DEF Busy
  <2>4. Moves(w, s)
    BY <1>0, <2>1, GoMoves
  <2>5. s \notin {"skip", "fill", "token"} /\ (s \in {"again", "claim"} => nr_nodes'[w] \in Needs)
    BY <2>1
  <2>6. UNCHANGED <<claims, published>>
    BY <2>1
  <2>7. \A v \in Writers \ {w} : nr_nodes'[v] = nr_nodes[v] /\ idx'[v] = idx[v]
    BY <2>1
  <2>8. s \in {"idle", "again", "claim", "skip", "fill", "token", "dead"}
    OBVIOUS
  <2> QED
    BY <2>3, <2>4, <2>5, <2>6, <2>7, <2>8, OwnFrame
<1>2. CASE ClaimNodes(w)
  <2>0. pc[w] = "claim" /\ UNCHANGED <<putLocals, published>> /\ ~Busy(w)
    BY <1>2 DEF ClaimNodes, Busy
  <2>n. nr_nodes[w] \in Needs
    BY <2>0 DEF OwnInv
  <2>1. CASE CasTail(w)
    <3> DEFINE last == Len(claims) + 1
    <3>1. PICK s \in {"skip", "fill"} :
            Go(w, s) /\ claims' = Append(claims, Claim(idx[w], nr_nodes[w], w))
      BY <1>2, <2>1 DEF ClaimNodes
    <3>2. Moves(w, s)
      BY <1>0, <3>1, GoMoves
    <3>3. /\ pc'[w] = s /\ Busy(w)'
          /\ \A v \in Writers \ {w} : pc'[v] = pc[v] /\ (Busy(v)' <=> Busy(v))
          /\ \A r \in Readers : pc'[r] = pc[r]
      BY <3>2 DEF Moves, Busy
    <3>4. /\ Claims' = Claims \cup {last} /\ last \notin Claims /\ Len(claims) \in Nat
          /\ \A m \in Claims : claims'[m] = claims[m]
          /\ claims'[last] = Claim(idx[w], nr_nodes[w], w)
      BY <3>1, ClaimAppended
    <3>5. /\ claims'[last].by = w /\ claims'[last].at = idx[w] /\ claims'[last].n = nr_nodes[w]
      BY <3>4 DEF Claim
    <3>6. last \notin published /\ published \subseteq Claims
      BY <3>4 DEF OwnInv
    <3> HIDE DEF last
    <3>7. \A m \in Claims \ published : claims[m].by # w
      BY <2>0 DEF OwnInv, Busy
    <3>8. \A m \in Claims' \ published' : Busy(claims[m].by)' \/ pc'[claims'[m].by] = "dead"
      <4> TAKE m \in Claims' \ published'
      <4>1. CASE m = last
        BY <3>3, <3>5, <4>1 DEF Busy
      <4>2. CASE m # last
        <5>1. m \in Claims \ published /\ claims'[m] = claims[m]
          BY <2>0, <3>4, <4>2
        <5>2. PICK v \in Writers \ {w} : claims[m].by = v
          BY <3>7, <5>1, ClaimIs
        <5>3. Busy(v) \/ pc[v] = "dead"
          BY <5>1, <5>2 DEF OwnInv
        <5>4. Busy(v)' \/ pc'[v] = "dead"
          BY <3>3, <5>2, <5>3
        <5> QED
          BY <5>1, <5>2, <5>4 DEF Busy
      <4> QED
        BY <4>1, <4>2
    <3>9. \A m, j \in Claims' \ published' : claims'[m].by = claims'[j].by => m = j
      BY <2>0, <3>4, <3>5, <3>7 DEF OwnInv
    <3>10. \A v \in Writers : Busy(v)' =>
             \E m \in Claims' \ published' :
               claims'[m].by = v /\ claims'[m].at = idx'[v] /\ claims'[m].n = nr_nodes'[v]
      <4> SUFFICES ASSUME NEW v \in Writers, Busy(v)'
                   PROVE  \E m \in Claims' \ published' :
                            claims'[m].by = v /\ claims'[m].at = idx'[v] /\ claims'[m].n = nr_nodes'[v]
        OBVIOUS
      <4>u. idx' = idx /\ nr_nodes' = nr_nodes /\ published' = published
        BY <2>0 DEF putLocals
      <4>1. CASE v = w
        BY <3>4, <3>5, <3>6, <4>1, <4>u
      <4>2. CASE v # w
        <5>1. PICK m \in Claims \ published :
                claims[m].by = v /\ claims[m].at = idx[v] /\ claims[m].n = nr_nodes[v]
          BY <3>3, <4>2 DEF OwnInv
        <5> QED
          BY <3>4, <4>u, <5>1
      <4> QED
        BY <4>1, <4>2
    <3>11. /\ \A v \in Writers : pc'[v] \in {"idle", "again", "claim", "skip", "fill", "token", "dead"}
           /\ \A r \in Readers : pc'[r] \in {"idle", "look", "recheck", "need", "take", "copy", "reset"}
           /\ \A v \in Writers : pc'[v] \in {"again", "claim"} => nr_nodes'[v] \in Needs
      BY <2>0, <3>3 DEF OwnInv, putLocals
    <3> QED
      BY <2>0, <3>4, <3>6, <3>8, <3>9, <3>10, <3>11 DEF OwnInv, Claims
  <2>2. CASE ~CasTail(w)
    <3>1. Go(w, "again") /\ UNCHANGED <<claims, published>>
      BY <1>2, <2>0, <2>2 DEF ClaimNodes
    <3>2. Moves(w, "again")
      BY <1>0, <3>1, GoMoves
    <3>3. \A v \in Writers : nr_nodes'[v] = nr_nodes[v] /\ idx'[v] = idx[v]
      BY <2>0 DEF putLocals
    <3>4. pc[w] # "dead" /\ nr_nodes'[w] \in Needs
      BY <2>0, <2>n, <3>3
    <3> QED
      BY <2>0, <3>1, <3>2, <3>3, <3>4, OwnFrame
  <2> QED
    BY <2>1, <2>2
<1>3. CASE MarkSkipped(w) \/ Fill(w)
  <2>1. PICK s \in {"skip", "fill", "token"} : Moves(w, s)
    <3>1. CASE MarkSkipped(w)
      <4>1. Go(w, "fill") \/ (pc' = pc /\ pc[w] = "skip")
        BY <3>1 DEF MarkSkipped
      <4> QED
        BY <1>0, <4>1, GoMoves DEF Moves
    <3>2. CASE Fill(w)
      BY <1>0, <3>2, GoMoves DEF Fill
    <3> QED
      BY <1>3, <3>1, <3>2
  <2>2. Busy(w) /\ pc[w] # "dead"
    BY <1>3 DEF MarkSkipped, Fill, Busy
  <2>3. UNCHANGED <<claims, published, nr_nodes, idx>>
    BY <1>3 DEF MarkSkipped, Fill, history, unmoved, putLocals
  <2>4. s \in {"idle", "again", "claim", "skip", "fill", "token", "dead"} /\ s \notin {"again", "claim"}
    OBVIOUS
  <2>5. UNCHANGED <<claims, published>> /\ idx'[w] = idx[w] /\ nr_nodes'[w] = nr_nodes[w]
        /\ \A v \in Writers \ {w} : nr_nodes'[v] = nr_nodes[v] /\ idx'[v] = idx[v]
    BY <2>3
  <2> QED
    BY <2>1, <2>2, <2>4, <2>5, OwnFrame
<1>4. CASE SetToken(w)
  <2> DEFINE m == Own(w)
  <2>0. Busy(w)
    BY <1>4 DEF SetToken, Busy
  <2>1. /\ m \in Claims \ published /\ claims[m].by = w
        /\ \A j \in Claims \ published : claims[j].by = w => j = m
    BY <2>0, OwnIs
  <2>2. /\ Go(w, "idle") /\ published' = published \cup {m} /\ claims' = claims /\ Claims' = Claims
        /\ \A v \in Writers \ {w} : nr_nodes'[v] = nr_nodes[v] /\ idx'[v] = idx[v]
    BY <1>4 DEF SetToken, ForgetPut, Claims, TypeOK
  <2> HIDE DEF m
  <2>3. Moves(w, "idle")
    BY <1>0, <2>2, GoMoves
  <2>4. /\ pc'[w] = "idle" /\ ~Busy(w)'
        /\ \A v \in Writers \ {w} : pc'[v] = pc[v] /\ (Busy(v)' <=> Busy(v))
        /\ \A r \in Readers : pc'[r] = pc[r]
    BY <2>3 DEF Moves, Busy
  <2>5. \A j \in Claims \ published' : Busy(claims[j].by)' \/ pc'[claims[j].by] = "dead"
    <3> TAKE j \in Claims \ published'
    <3>1. j \in Claims \ published
      BY <2>2
    <3>2. PICK v \in Writers \ {w} : claims[j].by = v
      BY <2>1, <2>2, <3>1, ClaimIs
    <3>3. Busy(v) \/ pc[v] = "dead"
      BY <3>1, <3>2 DEF OwnInv
    <3>4. Busy(v)' \/ pc'[v] = "dead"
      BY <2>4, <3>3
    <3> QED
      BY <2>2, <3>2, <3>4 DEF Busy
  <2>6. \A v \in Writers : Busy(v)' =>
          \E j \in Claims \ published' :
            claims[j].by = v /\ claims[j].at = idx'[v] /\ claims[j].n = nr_nodes'[v]
    <3> SUFFICES ASSUME NEW v \in Writers, Busy(v)'
                 PROVE  \E j \in Claims \ published' :
                          claims[j].by = v /\ claims[j].at = idx'[v] /\ claims[j].n = nr_nodes'[v]
      OBVIOUS
    <3>1. v # w /\ Busy(v)
      BY <2>4
    <3>2. PICK j \in Claims \ published :
            claims[j].by = v /\ claims[j].at = idx[v] /\ claims[j].n = nr_nodes[v]
      BY <3>1 DEF OwnInv
    <3> QED
      BY <2>1, <2>2, <3>1, <3>2
  <2>7. \A j, i \in Claims \ published' : claims[j].by = claims[i].by => j = i
    BY <2>2 DEF OwnInv
  <2>8. /\ \A v \in Writers : pc'[v] \in {"idle", "again", "claim", "skip", "fill", "token", "dead"}
        /\ \A r \in Readers : pc'[r] \in {"idle", "look", "recheck", "need", "take", "copy", "reset"}
        /\ \A v \in Writers : pc'[v] \in {"again", "claim"} => nr_nodes'[v] \in Needs
    BY <2>2, <2>4 DEF OwnInv
  <2>9. published' \subseteq Claims
    BY <2>1, <2>2 DEF OwnInv
  <2> QED
    BY <2>2, <2>5, <2>6, <2>7, <2>8, <2>9 DEF OwnInv, Claims
<1>5. CASE Die(w)
  <2>1. /\ Go(w, "dead") /\ UNCHANGED <<claims, published>>
        /\ \A v \in Writers \ {w} : nr_nodes'[v] = nr_nodes[v] /\ idx'[v] = idx[v]
    BY <1>5 DEF Die, ForgetPut, TypeOK
  <2>2. Moves(w, "dead")
    BY <1>0, <2>1, GoMoves
  <2> QED
    BY <2>1, <2>2, OwnFrame
<1> QED
  BY <1>1, <1>2, <1>3, <1>4, <1>5 DEF Put

LEMMA OwnReaders ==
  ASSUME TypeOK, OwnInv, NEW r \in Readers, Read(r)
  PROVE  OwnInv'
<1> USE Kinds
<1>1. PICK s \in {"idle", "look", "recheck", "need", "take", "copy", "reset"} : Moves(r, s)
  <2>1. \/ \E s \in {"idle", "look", "recheck", "need", "take", "copy", "reset"} : Go(r, s)
        \/ pc' = pc
    BY DEF Read, Get, AtTail, AtNode, Recheck, ReadNeed, Take, Copy, ResetToken, StartAt, Skip, Return
  <2>2. CASE pc' = pc
    BY <2>2 DEF Moves, OwnInv
  <2> QED
    BY <2>1, <2>2, GoMoves
<1>2. UNCHANGED <<claims, published, nr_nodes, idx>>
  BY DEF Read, Get, AtTail, AtNode, Recheck, ReadNeed, Take, Copy, ResetToken, putLocals,
         unmoved, history
<1>3. /\ \A v \in Writers : pc'[v] = pc[v] /\ (Busy(v)' <=> Busy(v))
      /\ \A q \in Readers \ {r} : pc'[q] = pc[q]
      /\ pc'[r] = s
  BY <1>1 DEF Moves, Busy
<1>4. \A m \in Claims \ published : Busy(claims[m].by)' \/ pc'[claims[m].by] = "dead"
  <2> TAKE m \in Claims \ published
  <2>1. PICK v \in Writers : claims[m].by = v
    BY ClaimIs
  <2>2. Busy(v) \/ pc[v] = "dead"
    BY <2>1 DEF OwnInv
  <2>3. Busy(v)' \/ pc'[v] = "dead"
    BY <1>3, <2>2
  <2> QED
    BY <1>2, <2>1, <2>3 DEF Busy
<1>5. \A v \in Writers : Busy(v)' =>
        \E m \in Claims \ published :
          claims[m].by = v /\ claims[m].at = idx[v] /\ claims[m].n = nr_nodes[v]
  BY <1>3 DEF OwnInv
<1> QED
  BY <1>2, <1>3, <1>4, <1>5 DEF OwnInv, Claims

-----------------------------------------------------------------------------
(* Steps that leave the ring as it is. *)

\* A writer that has no claim goes on, or one that has is killed.
LEMMA WriterFrame ==
  ASSUME TypeOK, OwnInv, NEW k \in Nat, Good(k), NEW w \in Writers, NEW s, Moves(w, s),
         s \in {"idle", "again", "claim", "dead"},
         UNCHANGED <<file, getLocals, claims, published, got>>,
         outrun' = outrun \/ outrun' = outrun \ {w},
         \A v \in Writers \ {w} : /\ nr_nodes'[v] = nr_nodes[v] /\ idx'[v] = idx[v]
                                  /\ old_tail'[v] = old_tail[v] /\ new_tail'[v] = new_tail[v],
         RoomOf(w)'
  PROVE  Good(k)'
<1> USE Kinds
<1>0. /\ UNCHANGED <<head_pos, tail_pos, node, head, old_head, new_head, claims, published, got>>
      /\ Claims' = Claims
  BY DEF file, getLocals, Claims
<1>1. /\ pc'[w] = s /\ ~Busy(w)'
      /\ \A v \in Writers \ {w} : pc'[v] = pc[v] /\ (Busy(v)' <=> Busy(v))
      /\ \A r \in Readers : pc'[r] = pc[r] /\ (r \in outrun' <=> r \in outrun) /\ Held(r)' = Held(r)
  BY <1>0 DEF Moves, Busy, Held
<1>2. RoomInv'
  <2>1. ASSUME NEW v \in Writers, v # w PROVE RoomOf(v)'
    <3>1. RoomOf(v)
      BY DEF Good, RoomInv
    <3> QED
      BY <1>0, <1>1, <2>1, <3>1 DEF RoomOf, Way
  <2> QED
    BY <2>1 DEF RoomInv
<1>3. HeldInv'
  BY <1>0, <1>1 DEF Good, HeldInv, Way
<1>4. OrderInv(k)'
  BY <1>0 DEF Good, Ring, OrderInv, Way
<1>5. \A m : Filled(m)' <=> Filled(m)
  BY <1>0 DEF Filled
<1>6. WriteInv(k)'
  <2> SUFFICES ASSUME NEW m \in Claims \ published, NEW v \in Writers, claims[m].by = v, Busy(v)'
               PROVE  /\ m > k
                      /\ pc'[v] = "token" => Filled(m)'
                      /\ pc'[v] = "skip" =>
                           /\ claims[m].at = 0 /\ Way(old_tail'[v]) < Way(0)
                           /\ \A j \in k + 1..m - 1 :
                                Way(claims[j].at) + claims[j].n <= Way(old_tail'[v])
    BY <1>0, ClaimIs DEF WriteInv, Way
  <2>1. v # w /\ pc'[v] = pc[v] /\ Busy(v) /\ old_tail'[v] = old_tail[v]
    BY <1>1
  <2> QED
    BY <1>5, <2>1 DEF Good, Ring, WriteInv
<1>7. TokenInv(k)'
  BY <1>0, <1>1, <1>5 DEF Good, Ring, TokenInv
<1>8. \A m \in Claims : Live(m)' => Live(m)
  <2> SUFFICES ASSUME NEW m \in Claims, NEW v \in Writers, claims[m].by = v, Live(m)'
               PROVE  Live(m)
    BY ClaimIs
  <2> QED
    BY <1>0, <1>1 DEF Live, Busy
<1>9. WalkInv(k)'
  BY <1>0, <1>1, <1>8 DEF Good, Ring, WalkInv, WalkOf, Way, Claims
<1>10. CopyInv(k)'
  BY <1>0, <1>1, <1>5, SMTT(40) DEF Good, Ring, CopyInv, CopyOf, Taken, Nodes, Returned
<1>11. PastInv(k)'
  BY <1>0, <1>1 DEF Good, Ring, PastInv, Taken, Returned
<1> QED
  BY <1>0, <1>2, <1>3, <1>4, <1>6, <1>7, <1>9, <1>10, <1>11 DEF Good, Ring

\* A reader that holds nothing goes on.
LEMMA ReaderFrame ==
  ASSUME TypeOK, OwnInv, NEW k \in Nat, Good(k), NEW r \in Readers, NEW s, Moves(r, s),
         pc[r] \notin {"copy", "reset"}, s \in {"idle", "look", "recheck", "need", "take"},
         UNCHANGED <<file, putLocals, claims, published, got>>,
         outrun' = outrun \/ outrun' = outrun \ {r},
         \A q \in Readers \ {r} : /\ head'[q] = head[q] /\ old_head'[q] = old_head[q]
                                  /\ new_head'[q] = new_head[q],
         WalkOf(r, k)'
  PROVE  Good(k)'
<1> USE Kinds
<1>0. /\ UNCHANGED <<head_pos, tail_pos, node, claims, published, got>>
      /\ UNCHANGED <<nr_nodes, idx, old_tail, new_tail>>
      /\ Claims' = Claims
  BY DEF file, putLocals, Claims
<1>1. /\ pc'[r] = s /\ Held(r) = {} /\ Held(r)' = {}
      /\ \A v \in Writers : /\ pc'[v] = pc[v] /\ (Busy(v)' <=> Busy(v))
                            /\ (v \in outrun' <=> v \in outrun)
      /\ \A q \in Readers \ {r} : /\ pc'[q] = pc[q] /\ Held(q)' = Held(q)
                                  /\ (q \in outrun' <=> q \in outrun)
      /\ \A q \in Readers : Held(q)' = Held(q)
  BY <1>0 DEF Moves, Busy, Held
<1>2. RoomInv'
  BY <1>0, <1>1 DEF Good, RoomInv, RoomOf, Way
<1>3. HeldInv'
  BY <1>0, <1>1 DEF Good, HeldInv, Way
<1>4. OrderInv(k)'
  BY <1>0 DEF Good, Ring, OrderInv, Way
<1>5. \A m : Filled(m)' <=> Filled(m)
  BY <1>0 DEF Filled
<1>6. WriteInv(k)'
  <2> SUFFICES ASSUME NEW m \in Claims \ published, NEW v \in Writers, claims[m].by = v, Busy(v)'
               PROVE  /\ m > k
                      /\ pc'[v] = "token" => Filled(m)'
                      /\ pc'[v] = "skip" =>
                           /\ claims[m].at = 0 /\ Way(old_tail'[v]) < Way(0)
                           /\ \A j \in k + 1..m - 1 :
                                Way(claims[j].at) + claims[j].n <= Way(old_tail'[v])
    BY <1>0, ClaimIs DEF WriteInv, Way
  <2>1. pc'[v] = pc[v] /\ Busy(v) /\ old_tail'[v] = old_tail[v]
    BY <1>0, <1>1
  <2> QED
    BY <1>5, <2>1 DEF Good, Ring, WriteInv
<1>7. TokenInv(k)'
  BY <1>0, <1>1, <1>5 DEF Good, Ring, TokenInv
<1>8. \A m \in Claims : Live(m)' => Live(m)
  <2> SUFFICES ASSUME NEW m \in Claims, NEW v \in Writers, claims[m].by = v, Live(m)'
               PROVE  Live(m)
    BY ClaimIs
  <2> QED
    BY <1>0, <1>1 DEF Live, Busy
<1>9. WalkInv(k)'
  <2> SUFFICES ASSUME NEW q \in Readers \ {r} PROVE WalkOf(q, k)'
    BY DEF WalkInv
  <2>1. WalkOf(q, k)
    BY DEF Good, Ring, WalkInv
  <2> QED
    BY <1>0, <1>1, <1>8, <2>1 DEF WalkOf, Way, Claims
<1>10. CopyInv(k)'
  <2>1. \A q \in Readers : pc'[q] = "copy" =>
          /\ pc[q] = "copy" /\ head'[q] = head[q] /\ new_head'[q] = new_head[q]
          /\ Taken(q)' = Taken(q)
    BY <1>0, <1>1 DEF Taken
  <2>2. /\ \A q \in Readers : Returned(q)' = Returned(q)
        /\ \A m : Nodes(m)' = Nodes(m)
    BY <1>0 DEF Returned, Nodes
  <2> SUFFICES ASSUME NEW q \in Readers, pc'[q] = "copy" PROVE CopyOf(q, k)'
    BY DEF CopyInv, CopyOf
  <2>3. CopyOf(q, k) /\ pc[q] = "copy"
    BY <2>1 DEF Good, Ring, CopyInv
  <2>4. Taken(q)' = Taken(q)
    BY <2>1
  <2> QED
    BY <1>0, <1>1, <1>5, <2>1, <2>2, <2>3, <2>4 DEF CopyOf
<1>11. PastInv(k)'
  <2>1. \A q \in Readers : pc[q] = "copy" => pc'[q] = "copy" /\ head'[q] = head[q]
    BY <1>1
  <2> QED
    BY <1>0, <1>1, <2>1 DEF Good, Ring, PastInv, Taken, Returned
<1> QED
  BY <1>0, <1>2, <1>3, <1>4, <1>6, <1>7, <1>9, <1>10, <1>11 DEF Good, Ring

\* The room a writer looks for is room for the nodes it is going to claim.
LEMMA LookRoom ==
  ASSUME TypeOK, NEW n \in 1..EleCount, HasRoom(n),
         NEW i, i = (IF Wraps(n) THEN 0 ELSE tail_pos),
         NEW new, new = (IF Wraps(n) THEN n ELSE Add(tail_pos, n))
  PROVE  /\ i + n = new /\ Dist(tail_pos, i) + n = Dist(tail_pos, new)
         /\ Way(tail_pos) + Dist(tail_pos, new) <= EleCount
<1>0. /\ head_pos \in Positions /\ tail_pos \in Positions /\ n \in Positions /\ n \in Int
      /\ EleCount \in Nat /\ RESERVE_BLOCK_COUNT \in Nat
  BY SizesAssumption DEF TypeOK, Positions
<1>1. Add(tail_pos, n) = IF tail_pos + n <= EleCount THEN tail_pos + n
                         ELSE tail_pos + n - EleCount - 1
  BY <1>0, AddIs
<1>2. Way(tail_pos) + n <= EleCount
  <2>1. EleCount - Dist(head_pos, tail_pos) >= n + RESERVE_BLOCK_COUNT
    BY <1>0, RoomIs DEF HasRoom
  <2> QED
    BY <1>0, <2>1, DistIs DEF Way
<1>3. CASE Wraps(n)
  <2>1. tail_pos + n > EleCount /\ head_pos - 1 >= n /\ i = 0 /\ new = n
    BY <1>0, <1>1, <1>3 DEF Wraps, HasRoom, Positions
  <2> QED
    BY <1>0, <1>2, <2>1 DEF Way, Dist, Positions
<1>4. CASE ~Wraps(n)
  <2>1. tail_pos + n <= EleCount /\ i = tail_pos /\ new = tail_pos + n
    BY <1>0, <1>1, <1>4 DEF Wraps, Positions
  <2> QED
    BY <1>0, <1>2, <2>1 DEF Way, Dist, Positions
<1> QED
  BY <1>3, <1>4

LEMMA LookGood ==
  ASSUME TypeOK, OwnInv, NEW k \in Nat, Good(k), NEW w \in Writers, NEW n \in Needs, Look(w, n)
  PROVE  Good(k)'
<1> USE Kinds
<1>0. /\ UNCHANGED <<file, getLocals, claims, published, got>> /\ outrun' = outrun \ {w}
      /\ n \in 1..EleCount /\ w \in Procs
  BY NeedsIs DEF Look
<1>1. CASE HasRoom(n) /\ MayPut
  <2> DEFINE i == IF Wraps(n) THEN 0 ELSE tail_pos
             new == IF Wraps(n) THEN n ELSE Add(tail_pos, n)
  <2>1. /\ Go(w, "claim")
        /\ nr_nodes' = [nr_nodes EXCEPT ![w] = n] /\ old_tail' = [old_tail EXCEPT ![w] = tail_pos]
        /\ idx' = [idx EXCEPT ![w] = i] /\ new_tail' = [new_tail EXCEPT ![w] = new]
    BY <1>1 DEF Look
  <2>2. /\ i + n = new /\ Dist(tail_pos, i) + n = Dist(tail_pos, new)
        /\ Way(tail_pos) + Dist(tail_pos, new) <= EleCount
    BY <1>0, <1>1, LookRoom
  <2>3. i = tail_pos \/ i = 0
    OBVIOUS
  <2> HIDE DEF i, new
  <2>4. /\ nr_nodes'[w] = n /\ old_tail'[w] = tail_pos /\ idx'[w] = i /\ new_tail'[w] = new
        /\ \A v \in Writers \ {w} : /\ nr_nodes'[v] = nr_nodes[v] /\ idx'[v] = idx[v]
                                    /\ old_tail'[v] = old_tail[v] /\ new_tail'[v] = new_tail[v]
    BY <2>1 DEF TypeOK
  <2>5. RoomOf(w)'
    BY <1>0, <2>2, <2>3, <2>4 DEF RoomOf, Way, file
  <2>6. Moves(w, "claim")
    BY <1>0, <2>1, GoMoves
  <2> QED
    BY <1>0, <2>4, <2>5, <2>6, WriterFrame
<1>2. CASE ~(HasRoom(n) /\ MayPut)
  <2>1. Go(w, "idle") /\ ForgetPut(w)
    BY <1>2 DEF Look
  <2>2. \A v \in Writers \ {w} : /\ nr_nodes'[v] = nr_nodes[v] /\ idx'[v] = idx[v]
                                 /\ old_tail'[v] = old_tail[v] /\ new_tail'[v] = new_tail[v]
    BY <2>1 DEF ForgetPut, TypeOK
  <2>3. Moves(w, "idle")
    BY <1>0, <2>1, GoMoves
  <2>4. RoomOf(w)'
    BY <2>3 DEF RoomOf, Moves
  <2> QED
    BY <1>0, <2>2, <2>3, <2>4, WriterFrame
<1> QED
  BY <1>1, <1>2

LEMMA DieGood ==
  ASSUME TypeOK, OwnInv, NEW k \in Nat, Good(k), NEW w \in Writers, Die(w)
  PROVE  Good(k)'
<1>1. /\ Go(w, "dead") /\ UNCHANGED <<file, getLocals, claims, published, got, outrun>>
      /\ \A v \in Writers \ {w} : /\ nr_nodes'[v] = nr_nodes[v] /\ idx'[v] = idx[v]
                                  /\ old_tail'[v] = old_tail[v] /\ new_tail'[v] = new_tail[v]
  BY DEF Die, ForgetPut, TypeOK
<1>2. Moves(w, "dead")
  BY <1>1, GoMoves, Kinds
<1>3. RoomOf(w)'
  BY <1>2 DEF RoomOf, Moves
<1> QED
  BY <1>1, <1>2, <1>3, WriterFrame

\* Somebody else moved tail_pos.
LEMMA ClaimFailsGood ==
  ASSUME TypeOK, OwnInv, NEW k \in Nat, Good(k), NEW w \in Writers, ClaimNodes(w), ~CasTail(w)
  PROVE  Good(k)'
<1>1. /\ Go(w, "again") /\ UNCHANGED <<file, getLocals, claims, published, got, outrun>>
      /\ UNCHANGED <<nr_nodes, idx, old_tail, new_tail>>
  BY DEF ClaimNodes, file, putLocals
<1>2. Moves(w, "again")
  BY <1>1, GoMoves, Kinds
<1>3. RoomOf(w)'
  BY <1>2 DEF RoomOf, Moves
<1> QED
  BY <1>1, <1>2, <1>3, WriterFrame

\* What a walking reader knows.
LEMMA WalkIs ==
  ASSUME TypeOK, NEW k \in Nat, Good(k), NEW r \in Readers, r \notin outrun,
         pc[r] \in {"look", "recheck", "need", "take"}
  PROVE  /\ old_head[r] = head_pos /\ head[r] \in Positions
         /\ Way(head[r]) \in 0..EleCount /\ Way(tail_pos) \in 0..EleCount
         /\ Way(head[r]) <= Way(tail_pos)
         /\ Way(head[r]) = Way(tail_pos) <=> head[r] = tail_pos
         /\ pc[r] # "look" => Way(head[r]) < Way(tail_pos)
         /\ \A m \in k + 1..Len(claims) : Live(m) => Way(head[r]) <= Way(claims[m].at)
         /\ pc[r] \in {"need", "take"} => node[head[r]].start_token = "has_data"
         /\ pc[r] = "take" => new_head[r] = Add(head[r], node[head[r]].need)
<1>1. head[r] \in Positions /\ head_pos \in Positions /\ tail_pos \in Positions
  BY DEF TypeOK
<1>2. /\ Way(head[r]) \in 0..EleCount /\ Way(tail_pos) \in 0..EleCount
      /\ Way(head[r]) = Way(tail_pos) <=> head[r] = tail_pos
  BY <1>1, DistIs, DistFrom DEF Way
<1>3. WalkOf(r, k)
  BY DEF Good, Ring, WalkInv
<1> QED
  BY <1>1, <1>2, <1>3 DEF WalkOf

\* A reader starts where head_pos is.
LEMMA StartGood ==
  ASSUME TypeOK, OwnInv, NEW k \in Nat, Good(k), NEW r \in Readers, StartAt(r, head_pos),
         pc[r] \notin {"copy", "reset"},
         UNCHANGED <<file, putLocals, claims, published, got, new_head>>
  PROVE  Good(k)'
<1> USE Kinds
<1>1. /\ old_head'[r] = head_pos /\ head'[r] = head_pos /\ outrun' = outrun \ {r} /\ Go(r, "look")
      /\ \A q \in Readers \ {r} : /\ head'[q] = head[q] /\ old_head'[q] = old_head[q]
                                  /\ new_head'[q] = new_head[q]
  BY DEF StartAt, TypeOK
<1>2. Moves(r, "look")
  BY <1>1, GoMoves
<1>3. head_pos' = head_pos /\ tail_pos' = tail_pos /\ claims' = claims
  BY DEF file
<1>4. Way(head_pos) = 0 /\ \A p \in Positions : Way(p) >= 0
  BY DistIs DEF Way, TypeOK
<1>5. WalkOf(r, k)'
  <2>1. pc'[r] = "look"
    BY <1>2 DEF Moves
  <2>2. tail_pos \in Positions /\ k + 1 >= 1 /\ \A m \in k + 1..Len(claims) : m \in Claims
    BY DEF TypeOK, Claims
  <2>3. \A m \in k + 1..Len(claims) : 0 <= Way(claims[m].at)
    BY <1>4, <2>2, ClaimIs
  <2> QED
    BY <1>1, <1>3, <1>4, <2>1, <2>2, <2>3 DEF WalkOf, Way
<1> QED
  BY <1>1, <1>2, <1>5, ReaderFrame

\* A reader that is done with its call.
LEMMA ReturnGood ==
  ASSUME TypeOK, OwnInv, NEW k \in Nat, Good(k), NEW r \in Readers,
         Go(r, "idle"), ForgetGet(r), pc[r] \notin {"copy", "reset"},
         UNCHANGED <<file, putLocals, claims, published, got, outrun>>
  PROVE  Good(k)'
<1>1. \A q \in Readers \ {r} : /\ head'[q] = head[q] /\ old_head'[q] = old_head[q]
                               /\ new_head'[q] = new_head[q]
  BY DEF ForgetGet, TypeOK
<1>2. Moves(r, "idle")
  BY GoMoves, Kinds
<1>3. WalkOf(r, k)'
  BY <1>2 DEF WalkOf, Moves
<1> QED
  BY <1>1, <1>2, <1>3, ReaderFrame

\* A reader goes on at the node it is at.
LEMMA StayGood ==
  ASSUME TypeOK, OwnInv, NEW k \in Nat, Good(k), NEW r \in Readers,
         NEW s \in {"recheck", "need", "take"}, Go(r, s),
         pc[r] \in {"look", "recheck", "need"},
         UNCHANGED <<file, putLocals, claims, published, got, outrun, head, old_head>>,
         pc[r] = "look" => head[r] # tail_pos,
         s \in {"need", "take"} => node[head[r]].start_token = "has_data" \/ pc[r] = "need",
         s = "take" => new_head'[r] = Add(head[r], node[head[r]].need),
         \A q \in Readers \ {r} : new_head'[q] = new_head[q]
  PROVE  Good(k)'
<1>1. Moves(r, s)
  BY GoMoves, Kinds
<1>2. WalkOf(r, k)'
  <2> SUFFICES ASSUME r \notin outrun PROVE WalkOf(r, k)'
    BY DEF WalkOf
  <2>1. pc'[r] = s /\ UNCHANGED <<head_pos, tail_pos, node, claims, head, old_head>>
    BY <1>1 DEF Moves, file
  <2>2. /\ old_head[r] = head_pos /\ Way(head[r]) < Way(tail_pos)
        /\ \A m \in k + 1..Len(claims) : Live(m) => Way(head[r]) <= Way(claims[m].at)
        /\ s \in {"need", "take"} => node[head[r]].start_token = "has_data"
        /\ Way(head[r]) \in Int /\ Way(tail_pos) \in Int
    BY WalkIs
  <2>3. \A m \in Claims : Live(m)' => Live(m)
    <3> SUFFICES ASSUME NEW m \in Claims, NEW v \in Writers, claims[m].by = v, Live(m)'
                 PROVE  Live(m)
      BY ClaimIs
    <3> QED
      BY <1>1, <2>1, Kinds DEF Live, Busy, Moves
  <2>4. \A m \in k + 1..Len(claims) : m \in Claims
    BY DEF Claims, TypeOK
  <2> QED
    BY <2>1, <2>2, <2>3, <2>4 DEF WalkOf, Way
<1>3. \A q \in Readers \ {r} : /\ head'[q] = head[q] /\ old_head'[q] = old_head[q]
                               /\ new_head'[q] = new_head[q]
  OBVIOUS
<1> QED
  BY <1>1, <1>2, <1>3, ReaderFrame

\* A reader gives up a node where no message starts that it must not miss.
LEMMA SkipGood ==
  ASSUME TypeOK, OwnInv, NEW k \in Nat, Good(k), NEW r \in Readers, Skip(r), blame' = {},
         pc[r] \in {"recheck", "need"},
         UNCHANGED <<file, putLocals, claims, published, got, outrun, old_head, new_head>>,
         \A m \in published : m > k /\ claims[m].at = head[r] /\ r \notin outrun => FALSE
  PROVE  Good(k)'
<1> USE Kinds
<1>1. /\ Go(r, "look") /\ head'[r] = Add(head[r], 1)
      /\ \A q \in Readers \ {r} : head'[q] = head[q] /\ old_head'[q] = old_head[q]
                                  /\ new_head'[q] = new_head[q]
  BY DEF Skip, TypeOK
<1>2. Moves(r, "look")
  BY <1>1, GoMoves
<1>3. WalkOf(r, k)'
  <2> SUFFICES ASSUME r \notin outrun PROVE WalkOf(r, k)'
    BY DEF WalkOf
  <2>1. pc'[r] = "look" /\ UNCHANGED <<head_pos, tail_pos, node, claims, old_head, published>>
    BY <1>2 DEF Moves, file
  <2>2. /\ old_head[r] = head_pos /\ Way(head[r]) < Way(tail_pos) /\ head[r] \in Positions
        /\ \A m \in k + 1..Len(claims) : Live(m) => Way(head[r]) <= Way(claims[m].at)
        /\ Way(head[r]) \in 0..EleCount /\ Way(tail_pos) \in 0..EleCount
    BY WalkIs
  <2>3. Way(Add(head[r], 1)) = Way(head[r]) + 1
    <3>1. head_pos \in Positions /\ 1 \in Nat
      BY DEF TypeOK
    <3>2. Dist(head_pos, head[r]) + 1 <= EleCount
      BY <2>2, SizesAssumption DEF Way
    <3>3. Dist(head_pos, Add(head[r], 1)) = Dist(head_pos, head[r]) + 1
      BY <2>2, <3>1, <3>2, DistAdd
    <3> QED
      BY <3>3 DEF Way
  <2>4. ASSUME NEW m \in k + 1..Len(claims), Live(m)' PROVE Way(head[r]) + 1 <= Way(claims[m].at)
    <3>1. m \in Claims /\ m > k
      BY DEF Claims, TypeOK
    <3>2. claims[m].at \in Positions /\ claims[m].n \in 1..EleCount
      BY <3>1, ClaimIs
    <3>3. PICK v \in Writers : claims[m].by = v
      BY <3>1, ClaimIs
    <3>4. m \in published \/ Busy(v)
      BY <1>2, <2>1, <2>4, <3>3 DEF Live, Busy, Moves
    <3>5. head[r] # claims[m].at
      <4>1. CASE m \in published
        BY <3>1, <4>1
      <4>2. CASE m \notin published
        <5>1. Busy(v) /\ Own(v) = m
          BY <3>1, <3>3, <3>4, <4>2, OwnIs
        <5>2. claims[m].at \in Nodes(m)
          BY <3>2 DEF Nodes, Positions
        <5> QED
          BY <5>1, <5>2 DEF Skip
      <4> QED
        BY <4>1, <4>2
    <3>6. Way(head[r]) <= Way(claims[m].at)
      BY <2>2, <3>3, <3>4 DEF Live
    <3>7. Way(head[r]) # Way(claims[m].at) /\ Way(claims[m].at) \in 0..EleCount
      <4> DEFINE at == claims[m].at
      <4>1. at \in Positions /\ head_pos \in Positions
        BY <3>2 DEF TypeOK
      <4> HIDE DEF at
      <4>2. Dist(head_pos, head[r]) = Dist(head_pos, at) <=> head[r] = at
        BY <2>2, <4>1, DistFrom
      <4>3. Dist(head_pos, at) \in 0..EleCount
        BY <4>1, DistIs
      <4> QED
        BY <3>5, <4>2, <4>3 DEF Way, at
    <3> QED
      BY <2>2, <3>6, <3>7
  <2>5. Way(Add(head[r], 1)) <= Way(tail_pos)
    BY <2>2, <2>3
  <2>6. \A m \in k + 1..Len(claims) : Live(m)' => Way(Add(head[r], 1)) <= Way(claims[m].at)
    BY <2>3, <2>4
  <2> QED
    BY <1>1, <2>1, <2>2, <2>5, <2>6 DEF WalkOf, Way
<1> QED
  BY <1>1, <1>2, <1>3, ReaderFrame

\* The steps of a reader that moves nothing but itself.
LEMMA WalkGood ==
  ASSUME TypeOK, OwnInv, NEW k \in Nat, Good(k), NEW r \in Readers, blame' = {},
         \/ Get(r) \/ AtNode(r) \/ Recheck(r) \/ ReadNeed(r)
         \/ AtTail(r) /\ ~(head[r] # old_head[r] /\ head_pos = old_head[r])
         \/ Take(r) /\ ~CasHead(r)
  PROVE  Good(k)'
<1> USE Kinds
<1>1. CASE Get(r)
  BY <1>1, StartGood DEF Get, unmoved
<1>2. CASE AtNode(r)
  <2>0. /\ pc[r] = "look" /\ head[r] # tail_pos
        /\ UNCHANGED <<file, putLocals, claims, published, got>>
    BY <1>2 DEF AtNode, unmoved
  <2>1. CASE Token(r) = "has_data" /\ Go(r, "need") /\ UNCHANGED <<getLocals, outrun>>
    BY <2>0, <2>1, StayGood DEF Token, getLocals
  <2>2. CASE StartAt(r, head_pos) /\ UNCHANGED <<rw_conflict, new_head>>
    BY <2>0, <2>2, StartGood
  <2>3. CASE Go(r, "idle") /\ ForgetGet(r) /\ UNCHANGED outrun
    BY <2>0, <2>3, ReturnGood
  <2>4. CASE Go(r, "recheck") /\ UNCHANGED <<getLocals, outrun>>
    BY <2>0, <2>4, StayGood DEF getLocals
  <2> QED
    BY <1>2, <2>1, <2>2, <2>3, <2>4 DEF AtNode
<1>3. CASE Recheck(r)
  <2>0. /\ pc[r] = "recheck"
        /\ UNCHANGED <<file, putLocals, claims, published, got, outrun, old_head, new_head>>
    BY <1>3 DEF Recheck
  <2>1. CASE Finished(r)
    <3>1. Go(r, "need") /\ UNCHANGED head
      BY <1>3, <2>1 DEF Recheck
    <3> QED
      BY <2>0, <2>1, <3>1, StayGood DEF Finished, Token
  <2>2. CASE ~Finished(r)
    <3>1. Skip(r)
      BY <1>3, <2>2 DEF Recheck
    <3>2. \A m \in published : m > k /\ claims[m].at = head[r] /\ r \notin outrun => FALSE
      BY <2>2 DEF Finished, Token, Good, Ring, TokenInv
    <3> QED
      BY <2>0, <3>1, <3>2, SkipGood
  <2> QED
    BY <2>1, <2>2
<1>4. CASE ReadNeed(r)
  <2> DEFINE n == node[head[r]].need
  <2>0. /\ pc[r] = "need"
        /\ UNCHANGED <<file, putLocals, claims, published, got, outrun, old_head>>
    BY <1>4 DEF ReadNeed
  <2>1. CASE UsedNodes(head[r]) < n
    <3>1. Skip(r) /\ UNCHANGED new_head
      BY <1>4, <2>1 DEF ReadNeed
    <3>2. ASSUME NEW m \in published, m > k, claims[m].at = head[r], r \notin outrun
          PROVE  FALSE
      <4>1. m \in Claims /\ Filled(m) /\ m \in k + 1..Len(claims)
        BY <3>2 DEF OwnInv, Good, Ring, TokenInv, Claims
      <4>2. claims[m].n = n /\ n \in 1..EleCount
        BY <3>2, <4>1, ClaimIs DEF Filled
      <4>3. Way(head[r]) + n <= Way(tail_pos)
        BY <3>2, <4>1, <4>2 DEF Good, Ring, OrderInv
      <4>4. head[r] \in Positions /\ tail_pos \in Positions /\ head_pos \in Positions
        BY DEF TypeOK
      <4>5. /\ UsedNodes(head[r]) = Dist(head[r], tail_pos)
            /\ Way(head[r]) \in 0..EleCount /\ Way(tail_pos) \in 0..EleCount
            /\ Way(head[r]) <= Way(tail_pos) =>
                 Dist(head[r], tail_pos) = Way(tail_pos) - Way(head[r])
        BY <4>4, RoomIs, DistIs, DistFrom DEF Way
      <4> HIDE DEF n
      <4> QED
        BY <2>1, <4>2, <4>3, <4>5
    <3> QED
      BY <2>0, <3>1, <3>2, SkipGood
  <2>2. CASE ~(UsedNodes(head[r]) < n)
    <3>1. /\ new_head' = [new_head EXCEPT ![r] = Add(head[r], n)]
          /\ Go(r, "take") /\ UNCHANGED head
      BY <1>4, <2>2 DEF ReadNeed
    <3>2. new_head'[r] = Add(head[r], n) /\ \A q \in Readers \ {r} : new_head'[q] = new_head[q]
      BY <3>1 DEF TypeOK
    <3> QED
      BY <2>0, <3>1, <3>2, StayGood
  <2> QED
    BY <2>1, <2>2
<1>5. CASE AtTail(r) /\ ~(head[r] # old_head[r] /\ head_pos = old_head[r])
  <2>1. /\ Return(r) /\ UNCHANGED <<file, putLocals, claims, published, got, outrun>>
        /\ pc[r] = "look"
    BY <1>5 DEF AtTail, file
  <2> QED
    BY <2>1, ReturnGood DEF Return
<1>6. CASE Take(r) /\ ~CasHead(r)
  <2>1. /\ StartAt(r, head_pos) /\ UNCHANGED <<file, putLocals, claims, published, got, new_head>>
        /\ pc[r] = "take"
    BY <1>6 DEF Take, file
  <2> QED
    BY <2>1, StartGood
<1> QED
  BY <1>1, <1>2, <1>3, <1>4, <1>5, <1>6

-----------------------------------------------------------------------------
(* Steps of a writer that fills its nodes. *)

\* Where the nodes of a message in the ring are.
LEMMA RingClaim ==
  ASSUME TypeOK, NEW k \in Nat, OrderInv(k), NEW m \in Claims, m > k
  PROVE  /\ claims[m].at \in Positions /\ claims[m].n \in 1..EleCount
         /\ claims[m].at + claims[m].n <= EleCount
         /\ Way(claims[m].at) \in 0..EleCount /\ Way(tail_pos) \in 0..EleCount
         /\ Way(claims[m].at) + claims[m].n <= Way(tail_pos)
         /\ \A j \in Claims : j > m => Way(claims[m].at) + claims[m].n <= Way(claims[j].at)
         /\ \A i \in 0..claims[m].n - 1 :
              claims[m].at + i \in Positions /\ Way(claims[m].at + i) = Way(claims[m].at) + i
<1> DEFINE at == claims[m].at
           n == claims[m].n
<1>1. at \in Positions /\ n \in 1..EleCount /\ head_pos \in Positions /\ tail_pos \in Positions
  BY ClaimIs DEF TypeOK
<1>2. m \in k + 1..Len(claims) /\ \A j \in Claims : j > m => j \in m + 1..Len(claims)
  BY ClaimIs DEF Claims
<1>3. /\ at + n <= EleCount /\ Way(at) + n <= Way(tail_pos)
      /\ \A j \in Claims : j > m => Way(at) + n <= Way(claims[j].at)
  BY <1>2 DEF OrderInv
<1> HIDE DEF at, n
<1>4. Way(at) \in 0..EleCount /\ Way(tail_pos) \in 0..EleCount
  BY <1>1, DistIs DEF Way
<1>5. n \in Nat /\ EleCount \in Nat /\ at \in Int
  BY <1>1, SizesAssumption DEF Positions
<1>6. Dist(head_pos, at) + n <= EleCount
  BY <1>3, <1>4, <1>5 DEF Way
<1>7. \A i \in 0..n : at + i \in Positions /\ Dist(head_pos, at + i) = Dist(head_pos, at) + i
  BY <1>1, <1>3, <1>5, <1>6, DistNode
<1>8. \A i \in 0..n - 1 : at + i \in Positions /\ Way(at + i) = Way(at) + i
  BY <1>5, <1>7 DEF Way
<1> QED
  BY <1>1, <1>3, <1>4, <1>8 DEF at, n

\* Messages in the ring have no node in common.
LEMMA RingApart ==
  ASSUME TypeOK, NEW k \in Nat, OrderInv(k), NEW m \in Claims, NEW j \in Claims, m > k, j > k,
         m # j, NEW i \in 0..claims[j].n - 1
  PROVE  claims[j].at + i \notin Nodes(m)
<1> DEFINE atm == claims[m].at
           atj == claims[j].at
           nm == claims[m].n
           nj == claims[j].n
<1>1. /\ atm \in Int /\ nm \in Int /\ Way(atm) \in Int
      /\ j > m => Way(atm) + nm <= Way(atj)
      /\ \A l \in 0..nm - 1 : Way(atm + l) = Way(atm) + l
  BY RingClaim DEF Positions
<1>2. /\ atj \in Int /\ nj \in Int /\ Way(atj) \in Int
      /\ m > j => Way(atj) + nj <= Way(atm)
      /\ \A l \in 0..nj - 1 : Way(atj + l) = Way(atj) + l
  BY RingClaim DEF Positions
<1>3. j > m \/ m > j
  BY ClaimIs
<1> HIDE DEF atm, atj, nm, nj
<1> SUFFICES ASSUME atj + i \in atm..atm + nm - 1 PROVE FALSE
  BY DEF Nodes, atm, atj, nm
<1>i. i \in 0..nj - 1
  BY DEF nj
<1>4. PICK l \in 0..nm - 1 : atj + i = atm + l
  <2>1. atj + i - atm \in 0..nm - 1 /\ atj + i = atm + (atj + i - atm)
    BY <1>1, <1>2, <1>i
  <2> QED
    BY <2>1
<1>5. Way(atm) + l = Way(atj) + i
  BY <1>1, <1>2, <1>4, <1>i
<1> QED
  BY <1>1, <1>2, <1>3, <1>4, <1>5, <1>i

\* A token that a walking reader has found is the one of a message in the ring.
LEMMA HeadToken ==
  ASSUME TypeOK, NEW k \in Nat, Good(k), NEW r \in Readers, r \notin outrun,
         pc[r] \in {"need", "take"}
  PROVE  \E m \in published : m > k /\ claims[m].at = head[r]
<1>1. /\ head[r] \in Positions /\ Way(head[r]) < Way(tail_pos)
      /\ node[head[r]].start_token = "has_data"
      /\ Way(head[r]) \in Int /\ Way(tail_pos) \in Int
  BY WalkIs
<1>2. \A q \in Readers : head[r] \notin Held(q)
  BY <1>1 DEF Good, HeldInv, Held
<1> QED
  BY <1>1, <1>2 DEF Good, Ring, TokenInv

\* What such a step may do to the nodes.
LEMMA WriterNode ==
  ASSUME TypeOK, OwnInv, NEW k \in Nat, Good(k), NEW w \in Writers, Busy(w),
         NEW s \in {"skip", "fill", "token", "idle"}, Moves(w, s),
         UNCHANGED <<head_pos, tail_pos, getLocals, claims, got, outrun>>,
         \A v \in Writers \ {w} : /\ nr_nodes'[v] = nr_nodes[v] /\ idx'[v] = idx[v]
                                  /\ old_tail'[v] = old_tail[v] /\ new_tail'[v] = new_tail[v],
         NEW own, own = Own(w),
         published' = IF s = "idle" THEN published \cup {own} ELSE published,
         \A p \in Positions : Way(p) >= Way(tail_pos) => node'[p] = node[p],
         \A m \in Claims \ {own} : m > k =>
           /\ Filled(m) => Filled(m)'
           /\ node[claims[m].at].start_token = "has_data" =>
                node'[claims[m].at].start_token = "has_data",
         \A p \in Positions : node'[p].start_token = "has_data" =>
           node[p].start_token = "has_data" \/ (s = "idle" /\ p = claims[own].at),
         s = "idle" => node'[claims[own].at].start_token = "has_data",
         s \in {"token", "idle"} => Filled(own)',
         s = "skip" => /\ claims[own].at = 0 /\ Way(old_tail'[w]) < Way(0)
                       /\ \A j \in k + 1..own - 1 :
                            Way(claims[j].at) + claims[j].n <= Way(old_tail'[w])
  PROVE  Good(k)'
<1> USE Kinds
<1>0. /\ UNCHANGED <<head_pos, tail_pos, head, old_head, new_head, claims, got, outrun>>
      /\ Claims' = Claims
  BY DEF getLocals, Claims
<1>1. /\ pc'[w] = s /\ (Busy(w)' <=> s # "idle")
      /\ \A v \in Writers \ {w} : pc'[v] = pc[v] /\ (Busy(v)' <=> Busy(v))
      /\ \A r \in Readers : pc'[r] = pc[r] /\ Held(r)' = Held(r)
  BY <1>0 DEF Moves, Busy, Held
<1>o. /\ own \in Claims \ published /\ claims[own].by = w
      /\ \A m \in Claims \ published : claims[m].by = w => m = own
  BY OwnIs
<1>k. own > k
  BY <1>o DEF Good, Ring, WriteInv
<1>p. /\ published \subseteq Claims /\ published \subseteq published'
      /\ \A m \in published' : m \in published \/ (s = "idle" /\ m = own)
  BY DEF OwnInv
<1>2. RoomInv'
  <2>1. ASSUME NEW v \in Writers PROVE RoomOf(v)'
    <3>1. CASE v # w
      <4>1. RoomOf(v)
        BY DEF Good, RoomInv
      <4> QED
        BY <1>0, <1>1, <3>1, <4>1 DEF RoomOf, Way
    <3>2. CASE v = w
      BY <1>1, <3>2 DEF RoomOf
    <3> QED
      BY <3>1, <3>2
  <2> QED
    BY <2>1 DEF RoomInv
<1>3. HeldInv'
  BY <1>0, <1>1 DEF Good, HeldInv, Way
<1>4. OrderInv(k)'
  BY <1>0 DEF Good, Ring, OrderInv, Way
<1>6. WriteInv(k)'
  <2> SUFFICES ASSUME NEW m \in Claims \ published', NEW v \in Writers, claims[m].by = v, Busy(v)'
               PROVE  /\ m > k
                      /\ pc'[v] = "token" => Filled(m)'
                      /\ pc'[v] = "skip" =>
                           /\ claims[m].at = 0 /\ Way(old_tail'[v]) < Way(0)
                           /\ \A j \in k + 1..m - 1 :
                                Way(claims[j].at) + claims[j].n <= Way(old_tail'[v])
    BY <1>0, ClaimIs DEF WriteInv, Way
  <2>0. m \in Claims \ published
    BY <1>p
  <2>1. CASE v = w
    BY <1>1, <1>k, <1>o, <2>0, <2>1
  <2>2. CASE v # w
    <3>1. m # own /\ pc'[v] = pc[v] /\ Busy(v) /\ old_tail'[v] = old_tail[v]
      BY <1>1, <1>o, <2>2
    <3> QED
      BY <2>0, <3>1 DEF Good, Ring, WriteInv
  <2> QED
    BY <2>1, <2>2
<1>7. TokenInv(k)'
  <2>1. ASSUME NEW p \in Positions, node'[p].start_token = "has_data"
        PROVE  \/ \E r \in Readers : p \in Held(r)'
               \/ \E m \in published' : m > k /\ claims[m].at = p
    <3>1. CASE node[p].start_token = "has_data"
      BY <1>1, <1>p, <3>1 DEF Good, Ring, TokenInv
    <3>2. CASE s = "idle" /\ p = claims[own].at
      BY <1>k, <3>2
    <3> QED
      BY <2>1, <3>1, <3>2
  <2>2. ASSUME NEW m \in published', m > k
        PROVE  node'[claims[m].at].start_token = "has_data" /\ Filled(m)'
    <3>1. CASE m = own
      BY <1>o, <1>p, <3>1
    <3>2. CASE m # own
      <4>1. m \in published /\ m \in Claims \ {own}
        BY <1>p, <3>2
      <4>2. node[claims[m].at].start_token = "has_data" /\ Filled(m)
        BY <2>2, <4>1 DEF Good, Ring, TokenInv
      <4> QED
        BY <2>2, <4>1, <4>2
    <3> QED
      BY <3>1, <3>2
  <2> QED
    BY <1>0, <2>1, <2>2 DEF TokenInv
<1>8. \A m \in Claims : Live(m)' => Live(m)
  <2> SUFFICES ASSUME NEW m \in Claims, NEW v \in Writers, claims[m].by = v, Live(m)'
               PROVE  Live(m)
    BY ClaimIs
  <2> QED
    BY <1>0, <1>1, <1>o, <1>p DEF Live, Busy
<1>9. WalkInv(k)'
  <2> SUFFICES ASSUME NEW r \in Readers, r \notin outrun,
                      pc[r] \in {"look", "recheck", "need", "take"}
               PROVE  WalkOf(r, k)'
    BY <1>0, <1>1 DEF WalkInv, WalkOf
  <2>1. WalkOf(r, k)
    BY DEF Good, Ring, WalkInv
  <2>2. ASSUME pc[r] \in {"need", "take"}
        PROVE  node'[head[r]].start_token = "has_data" /\ node'[head[r]].need = node[head[r]].need
    <3>1. PICK m \in published : m > k /\ claims[m].at = head[r]
      BY <2>2, HeadToken
    <3>2. m \in Claims \ {own} /\ Filled(m) /\ node[claims[m].at].start_token = "has_data"
      BY <1>o, <1>p, <3>1 DEF Good, Ring, TokenInv
    <3>3. Filled(m)' /\ node'[claims[m].at].start_token = "has_data"
      BY <3>1, <3>2
    <3> QED
      BY <1>0, <3>1, <3>2, <3>3 DEF Filled
  <2> QED
    BY <1>0, <1>1, <1>8, <2>1, <2>2 DEF WalkOf, Way, Claims
<1>c. ASSUME NEW q \in Readers, pc[q] = "copy"
      PROVE  Taken(q)' = Taken(q) /\ Filled(Taken(q))'
  <2>0. PICK t : t = Taken(q)
    OBVIOUS
  <2>1. /\ t \in published /\ head[q] = claims[t].at /\ Filled(t) /\ Nodes(t) \subseteq Held(q)
    BY <1>c, <2>0 DEF Good, Ring, CopyInv, CopyOf
  <2>2. t \in Claims
    BY <1>p, <2>1
  <2>3. claims[t].at \in Positions /\ claims[t].n \in 1..EleCount
    BY <2>2, ClaimIs
  <2>4. \A p \in Held(q) : p \in Positions /\ node'[p] = node[p]
    <3>1. old_head[q] \in Positions /\ new_head[q] \in Positions
      BY DEF TypeOK
    <3>2. \A p \in Held(q) : Way(p) >= Way(tail_pos)
      BY <1>c DEF Good, HeldInv
    <3>3. \A p \in Held(q) : p \in Positions
      BY <1>c, <3>1, BetweenIs DEF Held
    <3> QED
      BY <3>2, <3>3
  <2>5. \A i \in 1..claims[t].n : claims[t].at + i - 1 \in Nodes(t)
    BY <2>3 DEF Nodes, Positions
  <2>6. claims[t].at \in Nodes(t)
    BY <2>3, SMTT(40) DEF Nodes, Positions
  <2>7. Taken(q)' = t
    BY <1>0, <2>0, <2>1, <2>4, <2>6 DEF Taken
  <2>8. Filled(t)'
    <3>1. node'[claims[t].at] = node[claims[t].at]
      BY <2>1, <2>4, <2>6
    <3>2. \A i \in 1..claims[t].n : node'[claims[t].at + i - 1] = node[claims[t].at + i - 1]
      BY <2>1, <2>4, <2>5
    <3> QED
      BY <1>0, <2>1, <3>1, <3>2 DEF Filled
  <2> QED
    BY <2>0, <2>7, <2>8 DEF Filled
<1>10. CopyInv(k)'
  <2>2. /\ \A q \in Readers : Returned(q)' = Returned(q)
        /\ \A m : Nodes(m)' = Nodes(m)
    BY <1>0 DEF Returned, Nodes
  <2> SUFFICES ASSUME NEW q \in Readers, pc'[q] = "copy" PROVE CopyOf(q, k)'
    BY DEF CopyInv, CopyOf
  <2>3. CopyOf(q, k) /\ pc[q] = "copy"
    BY <1>1 DEF Good, Ring, CopyInv
  <2>4. Taken(q)' = Taken(q) /\ Filled(Taken(q))'
    BY <1>c, <2>3
  <2>5. \A r \in Readers : pc'[r] = "copy" => Taken(r)' = Taken(r)
    BY <1>1, <1>c
  <2> QED
    BY <1>0, <1>1, <1>p, <2>2, <2>3, <2>4, <2>5 DEF CopyOf
<1>11. PastInv(k)'
  <2>1. \A q \in Readers : pc[q] = "copy" => pc'[q] = "copy" /\ Taken(q)' = Taken(q)
    BY <1>1, <1>c
  <2>2. \A q \in Readers : Returned(q)' = Returned(q)
    BY <1>0 DEF Returned
  <2>3. \A m \in published' : m <= k => m \in published
    <3>1. \A m \in published' : m <= k => m # own
      BY <1>k, <1>o, ClaimIs
    <3> QED
      BY <1>p, <3>1
  <2> QED
    BY <2>1, <2>2, <2>3 DEF Good, Ring, PastInv
<1> QED
  BY <1>0, <1>2, <1>3, <1>4, <1>6, <1>7, <1>9, <1>10, <1>11 DEF Good, Ring

\* The first node of another message in the ring is not one of a writer's own.
LEMMA MarkGood ==
  ASSUME TypeOK, OwnInv, NEW k \in Nat, Good(k), NEW w \in Writers, MarkSkipped(w)
  PROVE  Good(k)'
<1> USE Kinds
<1>0. /\ UNCHANGED <<head_pos, tail_pos, getLocals, claims, published, got, outrun>>
      /\ UNCHANGED <<nr_nodes, idx, new_tail>> /\ pc[w] = "skip" /\ Busy(w)
      /\ node' = [node EXCEPT ![old_tail[w]].start_token = "skipped"]
      /\ old_tail' = [old_tail EXCEPT ![w] = Add(@, 1)]
  BY DEF MarkSkipped, history, unmoved, Busy
<1>1. PICK own : own = Own(w)
  OBVIOUS
<1>2. PICK p \in Positions : p = old_tail[w]
  BY DEF TypeOK
<1>o. own \in Claims \ published /\ claims[own].by = w
  BY <1>0, <1>1, OwnIs
<1>3. /\ own > k /\ claims[own].at = 0 /\ Way(p) < Way(0)
      /\ \A j \in k + 1..own - 1 : Way(claims[j].at) + claims[j].n <= Way(p)
  BY <1>0, <1>2, <1>o DEF Good, Ring, WriteInv
<1>4. /\ old_tail'[w] = Add(p, 1) /\ \A v \in Writers \ {w} : old_tail'[v] = old_tail[v]
  BY <1>0, <1>2 DEF TypeOK
<1>5. node \in [Positions -> NodeType]
  BY DEF TypeOK, NodeType
<1>6. /\ node'[p].start_token = "skipped"
      /\ \A q \in Positions : q # p => node'[q] = node[q]
      /\ \A q \in Positions : /\ node'[q].need = node[q].need /\ node'[q].msg = node[q].msg
                              /\ node'[q].piece = node[q].piece
  BY <1>0, <1>2, <1>5, TokenIs
<1>h. head_pos \in Positions /\ 0 \in Positions /\ EleCount \in Nat
  BY SizesAssumption DEF TypeOK, Positions
<1>7. Way(p) \in 0..EleCount /\ Way(0) \in 0..EleCount /\ 0 \in Positions /\ EleCount \in Nat
  BY <1>h, DistIs DEF Way
<1>r. OrderInv(k)
  BY DEF Good, Ring
<1>8. Way(p) < Way(tail_pos) /\ Way(tail_pos) \in Int
  BY <1>3, <1>7, <1>o, <1>r, RingClaim
<1>9. ASSUME NEW m \in Claims \ {own}, m > k
      PROVE  /\ Filled(m) => Filled(m)'
             /\ node[claims[m].at].start_token = "has_data" =>
                  node'[claims[m].at].start_token = "has_data"
  <2>1. /\ claims[m].at \in Positions /\ claims[m].n \in 1..EleCount
        /\ Way(claims[m].at) \in 0..EleCount
        /\ \A i \in 0..claims[m].n - 1 : claims[m].at + i \in Positions
    BY <1>9, <1>r, RingClaim
  <2>2. claims[m].at # p
    <3>1. CASE m < own
      <4>1. m \in k + 1..own - 1
        BY <1>9, <1>o, <3>1, ClaimIs
      <4> QED
        BY <1>3, <1>7, <2>1, <4>1
    <3>2. CASE m > own
      <4>1. Way(claims[own].at) + claims[own].n <= Way(claims[m].at) /\ claims[own].n \in 1..EleCount
        BY <1>3, <1>o, <1>r, <3>2, RingClaim
      <4> QED
        BY <1>3, <1>7, <2>1, <4>1
    <3> QED
      BY <1>o, <3>1, <3>2, ClaimIs
  <2>3. \A i \in 1..claims[m].n : claims[m].at + i - 1 \in Positions
    <3> TAKE i \in 1..claims[m].n
    <3>1. i - 1 \in 0..claims[m].n - 1 /\ claims[m].at + (i - 1) = claims[m].at + i - 1
      BY <2>1 DEF Positions
    <3> QED
      BY <2>1, <3>1
  <2>4. node'[claims[m].at] = node[claims[m].at]
    BY <1>6, <2>1, <2>2
  <2>5. \A i \in 1..claims[m].n :
          /\ node'[claims[m].at + i - 1].msg = node[claims[m].at + i - 1].msg
          /\ node'[claims[m].at + i - 1].piece = node[claims[m].at + i - 1].piece
    BY <1>6, <2>3
  <2> QED
    BY <1>0, <2>4, <2>5, ZenonT(60) DEF Filled
<1>10. \A q \in Positions : Way(q) >= Way(tail_pos) => node'[q] = node[q]
  BY <1>6, <1>7, <1>8
<1>11. \A q \in Positions : node'[q].start_token = "has_data" => node[q].start_token = "has_data"
  BY <1>6
<1>12. PICK s \in {"skip", "fill"} :
         Moves(w, s) /\ (s = "skip" => Add(p, 1) # 0)
  <2>1. CASE Add(p, 1) = 0
    BY <1>2, <2>1, GoMoves DEF MarkSkipped
  <2>2. CASE Add(p, 1) # 0
    BY <1>0, <1>2, <2>2 DEF MarkSkipped, Moves
  <2> QED
    BY <2>1, <2>2
<1>13. s = "skip" => /\ claims[own].at = 0 /\ Way(old_tail'[w]) < Way(0)
                     /\ \A j \in k + 1..own - 1 :
                          Way(claims[j].at) + claims[j].n <= Way(old_tail'[w])
  <2> SUFFICES ASSUME s = "skip" PROVE /\ Way(old_tail'[w]) < Way(0)
                     /\ \A j \in k + 1..own - 1 :
                          Way(claims[j].at) + claims[j].n <= Way(old_tail'[w])
    BY <1>3
  <2>1. Way(Add(p, 1)) = Way(p) + 1 /\ Add(p, 1) \in Positions
    <3>1. Dist(head_pos, p) + 1 <= EleCount /\ 1 \in Nat
      BY <1>3, <1>7 DEF Way
    <3> QED
      BY <1>h, <3>1, DistAdd DEF Way
  <2>2. Way(Add(p, 1)) # Way(0)
    BY <1>h, <1>12, <2>1, DistFrom DEF Way
  <2>3. \A j \in k + 1..own - 1 : Way(claims[j].at) + claims[j].n <= Way(p) + 1
    <3> TAKE j \in k + 1..own - 1
    <3>1. j \in Claims /\ j > k
      BY <1>o, ClaimIs DEF Claims
    <3>2. Way(claims[j].at) \in 0..EleCount /\ claims[j].n \in 1..EleCount
      BY <1>r, <3>1, RingClaim
    <3> QED
      BY <1>3, <1>7, <3>2
  <2> QED
    BY <1>3, <1>4, <1>7, <2>1, <2>2, <2>3
<1>14. /\ s \notin {"token", "idle"} /\ s \in {"skip", "fill", "token", "idle"}
       /\ published' = IF s = "idle" THEN published \cup {own} ELSE published
  BY <1>0
<1>15. \A v \in Writers \ {w} : /\ nr_nodes'[v] = nr_nodes[v] /\ idx'[v] = idx[v]
                                /\ old_tail'[v] = old_tail[v] /\ new_tail'[v] = new_tail[v]
  BY <1>0, <1>4
<1>16. UNCHANGED <<head_pos, tail_pos, getLocals, claims, got, outrun>>
  BY <1>0
<1> QED
  BY <1>0, <1>1, <1>9, <1>10, <1>11, <1>12, <1>13, <1>14, <1>15, <1>16, WriterNode

LEMMA FillGood ==
  ASSUME TypeOK, OwnInv, NEW k \in Nat, Good(k), NEW w \in Writers, Fill(w)
  PROVE  Good(k)'
<1> USE Kinds
<1>1. PICK own : own = Own(w)
  OBVIOUS
<1>0. /\ UNCHANGED <<head_pos, tail_pos, getLocals, claims, published, got, outrun>>
      /\ UNCHANGED <<nr_nodes, idx, old_tail, new_tail>> /\ pc[w] = "fill" /\ Busy(w)
      /\ Go(w, "token")
      /\ node' = [p \in Positions |->
           IF p \notin idx[w]..idx[w] + nr_nodes[w] - 1 THEN node[p]
           ELSE [start_token |-> IF p = idx[w] THEN node[p].start_token ELSE "payload",
                 need |-> IF p = idx[w] THEN nr_nodes[w] ELSE node[p].need, msg |-> own,
                 piece |-> p - idx[w] + 1]]
  BY <1>1 DEF Fill, history, unmoved, putLocals, Busy
<1>o. /\ own \in Claims \ published /\ claims[own].by = w
      /\ idx[w] = claims[own].at /\ nr_nodes[w] = claims[own].n
  BY <1>0, <1>1, OwnIs
<1>k. own > k
  BY <1>0, <1>o DEF Good, Ring, WriteInv
<1>r. OrderInv(k)
  BY DEF Good, Ring
<1>2. \A p \in Positions \ Nodes(own) : node'[p] = node[p]
  BY <1>0, <1>o DEF Nodes
<1>3. \A p \in Nodes(own) \cap Positions :
        /\ node'[p].start_token = (IF p = claims[own].at THEN node[p].start_token ELSE "payload")
        /\ node'[p].need = (IF p = claims[own].at THEN claims[own].n ELSE node[p].need)
        /\ node'[p].msg = own /\ node'[p].piece = p - claims[own].at + 1
  BY <1>0, <1>o DEF Nodes
<1>4. /\ claims[own].at \in Positions /\ claims[own].n \in 1..EleCount
      /\ Way(claims[own].at) \in 0..EleCount /\ Way(tail_pos) \in 0..EleCount
      /\ Way(claims[own].at) + claims[own].n <= Way(tail_pos)
      /\ \A i \in 0..claims[own].n - 1 :
           claims[own].at + i \in Positions /\ Way(claims[own].at + i) = Way(claims[own].at) + i
  BY <1>k, <1>o, <1>r, RingClaim
<1>5. ASSUME NEW p \in Positions, p \in Nodes(own) PROVE Way(p) < Way(tail_pos)
  <2> DEFINE i == p - claims[own].at
  <2>1. i \in 0..claims[own].n - 1 /\ p = claims[own].at + i
    BY <1>4, <1>5 DEF Nodes, Positions
  <2>2. Way(p) = Way(claims[own].at) + i
    BY <1>4, <2>1
  <2> QED
    BY <1>4, <2>1, <2>2
<1>6. \A p \in Positions : Way(p) >= Way(tail_pos) => node'[p] = node[p]
  <2> SUFFICES ASSUME NEW p \in Positions, Way(p) >= Way(tail_pos), p \in Nodes(own) PROVE FALSE
    BY <1>2
  <2>1. Way(p) \in Int
    BY DistIs DEF Way, TypeOK
  <2> QED
    BY <1>4, <1>5, <2>1
<1>7. ASSUME NEW m \in Claims \ {own}, m > k
      PROVE  /\ Filled(m) => Filled(m)'
             /\ node[claims[m].at].start_token = "has_data" =>
                  node'[claims[m].at].start_token = "has_data"
  <2>1. /\ claims[m].at \in Positions /\ claims[m].n \in 1..EleCount
        /\ \A i \in 0..claims[m].n - 1 : claims[m].at + i \in Positions
    BY <1>7, <1>r, RingClaim
  <2>2. \A i \in 0..claims[m].n - 1 : claims[m].at + i \notin Nodes(own)
    BY <1>7, <1>k, <1>o, <1>r, RingApart
  <2>3. \A i \in 0..claims[m].n - 1 : node'[claims[m].at + i] = node[claims[m].at + i]
    BY <1>2, <2>1, <2>2
  <2>4. node'[claims[m].at] = node[claims[m].at]
    <3>1. 0 \in 0..claims[m].n - 1 /\ claims[m].at + 0 = claims[m].at
      BY <2>1 DEF Positions
    <3> QED
      BY <2>3, <3>1
  <2>5. \A i \in 1..claims[m].n : node'[claims[m].at + i - 1] = node[claims[m].at + i - 1]
    <3> TAKE i \in 1..claims[m].n
    <3>1. i - 1 \in 0..claims[m].n - 1 /\ claims[m].at + (i - 1) = claims[m].at + i - 1
      BY <2>1 DEF Positions
    <3> QED
      BY <2>3, <3>1
  <2>6. claims' = claims
    BY <1>0, SMTT(40)
  <2> QED
    BY <2>4, <2>5, <2>6 DEF Filled
<1>8. Filled(own)'
  <2>1. claims[own].at \in Nodes(own)
    BY <1>4 DEF Nodes, Positions
  <2>2. \A i \in 1..claims[own].n :
          /\ claims[own].at + i - 1 \in Nodes(own) /\ claims[own].at + i - 1 \in Positions
          /\ (claims[own].at + i - 1) - claims[own].at + 1 = i
    <3> TAKE i \in 1..claims[own].n
    <3>1. i - 1 \in 0..claims[own].n - 1 /\ claims[own].at + (i - 1) = claims[own].at + i - 1
      BY <1>4 DEF Positions
    <3> QED
      BY <1>4, <3>1 DEF Nodes, Positions
  <2>3. node'[claims[own].at].need = claims[own].n
    BY <1>3, <1>4, <2>1
  <2>4. \A i \in 1..claims[own].n :
          node'[claims[own].at + i - 1].msg = own /\ node'[claims[own].at + i - 1].piece = i
    BY <1>3, <2>2
  <2> QED
    BY <1>0, <2>3, <2>4 DEF Filled
<1>9. \A p \in Positions : node'[p].start_token = "has_data" => node[p].start_token = "has_data"
  BY <1>2, <1>3
<1>10. Moves(w, "token")
  BY <1>0, GoMoves
<1>11. published' = IF "token" = "idle" THEN published \cup {own} ELSE published
  BY <1>0
<1>12. \A v \in Writers \ {w} : /\ nr_nodes'[v] = nr_nodes[v] /\ idx'[v] = idx[v]
                                /\ old_tail'[v] = old_tail[v] /\ new_tail'[v] = new_tail[v]
  BY <1>0
<1>13. UNCHANGED <<head_pos, tail_pos, getLocals, claims, got, outrun>>
  BY <1>0
<1> QED
  BY <1>0, <1>1, <1>6, <1>7, <1>8, <1>9, <1>10, <1>11, <1>12, <1>13, WriterNode

LEMMA SetTokenGood ==
  ASSUME TypeOK, OwnInv, NEW k \in Nat, Good(k), NEW w \in Writers, SetToken(w)
  PROVE  Good(k)'
<1> USE Kinds
<1>1. PICK own : own = Own(w)
  OBVIOUS
<1>0. /\ UNCHANGED <<head_pos, tail_pos, getLocals, claims, got, outrun>>
      /\ pc[w] = "token" /\ Busy(w) /\ Go(w, "idle") /\ ForgetPut(w)
      /\ node' = [node EXCEPT ![idx[w]].start_token = "has_data"]
      /\ published' = published \cup {own}
  BY <1>1 DEF SetToken, Busy
<1>o. /\ own \in Claims \ published /\ claims[own].by = w /\ idx[w] = claims[own].at
  BY <1>0, <1>1, OwnIs
<1>k. own > k /\ Filled(own)
  BY <1>0, <1>o DEF Good, Ring, WriteInv
<1>r. OrderInv(k)
  BY DEF Good, Ring
<1>2. PICK at \in Positions : at = claims[own].at
  BY <1>o, ClaimIs
<1>3. node \in [Positions -> NodeType]
  BY SMTT(40) DEF TypeOK, NodeType
<1>4. /\ node'[at].start_token = "has_data"
      /\ \A q \in Positions : q # at => node'[q] = node[q]
      /\ \A q \in Positions : /\ node'[q].need = node[q].need /\ node'[q].msg = node[q].msg
                              /\ node'[q].piece = node[q].piece
  BY <1>0, <1>2, <1>3, <1>o, TokenIs
<1>5. \A p \in Positions : Way(p) >= Way(tail_pos) => node'[p] = node[p]
  <2>1. /\ Way(at) \in 0..EleCount /\ Way(tail_pos) \in 0..EleCount /\ claims[own].n \in 1..EleCount
        /\ Way(at) + claims[own].n <= Way(tail_pos)
    BY <1>2, <1>k, <1>o, <1>r, RingClaim
  <2>2. Way(at) < Way(tail_pos)
    BY <2>1
  <2> QED
    BY <1>4, <2>1, <2>2
<1>6. ASSUME NEW m \in Claims, m > k
      PROVE  /\ Filled(m) => Filled(m)'
             /\ node[claims[m].at].start_token = "has_data" =>
                  node'[claims[m].at].start_token = "has_data"
  <2>1. /\ claims[m].at \in Positions /\ claims[m].n \in 1..EleCount
        /\ \A i \in 0..claims[m].n - 1 : claims[m].at + i \in Positions
    BY <1>6, <1>r, RingClaim
  <2>2. \A i \in 1..claims[m].n : claims[m].at + i - 1 \in Positions
    <3> TAKE i \in 1..claims[m].n
    <3>1. i - 1 \in 0..claims[m].n - 1 /\ claims[m].at + (i - 1) = claims[m].at + i - 1
      BY <2>1 DEF Positions
    <3> QED
      BY <2>1, <3>1
  <2>3. \A i \in 1..claims[m].n :
          /\ node'[claims[m].at + i - 1].msg = node[claims[m].at + i - 1].msg
          /\ node'[claims[m].at + i - 1].piece = node[claims[m].at + i - 1].piece
    BY <1>4, <2>2
  <2>4. node'[claims[m].at].need = node[claims[m].at].need
    BY <1>4, <2>1
  <2> QED
    BY <1>0, <1>4, <2>1, <2>3, <2>4 DEF Filled
<1>7. \A p \in Positions : node'[p].start_token = "has_data" =>
        node[p].start_token = "has_data" \/ p = claims[own].at
  BY <1>2, <1>4
<1>8. Moves(w, "idle")
  BY <1>0, GoMoves
<1>9. \A v \in Writers \ {w} : /\ nr_nodes'[v] = nr_nodes[v] /\ idx'[v] = idx[v]
                               /\ old_tail'[v] = old_tail[v] /\ new_tail'[v] = new_tail[v]
  BY <1>0 DEF ForgetPut, TypeOK
<1>10. published' = IF "idle" = "idle" THEN published \cup {own} ELSE published
  BY <1>0
<1>11. node'[claims[own].at].start_token = "has_data" /\ Filled(own)'
  BY <1>2, <1>4, <1>6, <1>k, <1>o
<1>12. UNCHANGED <<head_pos, tail_pos, getLocals, claims, got, outrun>>
  BY <1>0
<1>13. \A m \in Claims \ {own} : m > k =>
         /\ Filled(m) => Filled(m)'
         /\ node[claims[m].at].start_token = "has_data" =>
              node'[claims[m].at].start_token = "has_data"
  BY <1>6
<1> QED
  BY <1>0, <1>1, <1>5, <1>7, <1>8, <1>9, <1>10, <1>11, <1>12, <1>13, WriterNode

-----------------------------------------------------------------------------
(* Steps of a reader that has claimed nodes. *)

\* Such a reader lets nodes go from the front.
LEMMA HeldShrinks ==
  ASSUME NEW a \in Positions, NEW b \in Positions, a # b
  PROVE  /\ a \in Between(a, b) /\ Add(a, 1) \in Positions
         /\ Between(Add(a, 1), b) = Between(a, b) \ {a}
<1>1. 1 \in Positions /\ EleCount \in Nat
  BY SizesAssumption DEF Positions
<1>2. Add(a, 1) \in Positions /\ Add(a, 1) = IF a + 1 <= EleCount THEN a + 1 ELSE a - EleCount
  BY <1>1, AddIs DEF Positions
<1>3. \A p \in Positions : Dist(Add(a, 1), p) < Dist(Add(a, 1), b) <=> Dist(a, p) < Dist(a, b) /\ p # a
  BY <1>1, <1>2 DEF Dist, Positions
<1>4. a \in Between(a, b)
  BY BetweenIs, DistIs
<1>5. \A p : p \in Between(Add(a, 1), b) <=> p \in Between(a, b) \ {a}
  BY <1>2, <1>3, BetweenIs
<1> QED
  BY <1>2, <1>4, <1>5

LEMMA HeldIs ==
  ASSUME TypeOK, NEW r \in Readers
  PROVE  Held(r) \subseteq Positions
BY BetweenIs DEF Held, TypeOK

\* A message that is in the ring or being copied keeps its nodes when tokens change.
LEMMA FilledKept ==
  ASSUME NEW m, claims[m].at \in Positions, claims[m].n \in 1..EleCount,
         claims[m].at + claims[m].n <= EleCount, claims' = claims, Filled(m),
         \A q \in Positions : /\ node'[q].need = node[q].need /\ node'[q].msg = node[q].msg
                              /\ node'[q].piece = node[q].piece
  PROVE  Filled(m)'
<1>1. \A i \in 1..claims[m].n : claims[m].at + i - 1 \in Positions
  BY SizesAssumption DEF Positions
<1>2. \A i \in 1..claims[m].n :
        /\ node'[claims[m].at + i - 1].msg = node[claims[m].at + i - 1].msg
        /\ node'[claims[m].at + i - 1].piece = node[claims[m].at + i - 1].piece
  BY <1>1
<1>3. node'[claims[m].at].need = node[claims[m].at].need
  OBVIOUS
<1> QED
  BY <1>2, <1>3 DEF Filled

LEMMA ResetGood ==
  ASSUME TypeOK, OwnInv, NEW k \in Nat, Good(k), NEW r \in Readers, ResetToken(r)
  PROVE  Good(k)'
<1> USE Kinds
<1>1. PICK p \in Positions : p = old_head[r]
  BY DEF TypeOK
<1>0. /\ UNCHANGED <<head_pos, tail_pos, putLocals, nr_nodes, idx, old_tail, new_tail>>
      /\ UNCHANGED <<claims, published, got, outrun, Claims>> /\ pc[r] = "reset"
      /\ node' = [node EXCEPT ![p] = Cleared(@)]
  BY <1>1 DEF ResetToken, history, unmoved, putLocals, Claims
<1>2. node \in [Positions -> NodeType]
  BY DEF TypeOK, NodeType
<1>3. /\ node'[p].start_token = "no_data"
      /\ \A q \in Positions : q # p => node'[q] = node[q]
      /\ \A q \in Positions : /\ node'[q].need = node[q].need /\ node'[q].msg = node[q].msg
                              /\ node'[q].piece = node[q].piece
  BY <1>0, <1>2, TokenIs DEF Cleared
<1>4. /\ \A q \in Readers \ {r} : /\ pc'[q] = pc[q] /\ head'[q] = head[q]
                                  /\ old_head'[q] = old_head[q] /\ new_head'[q] = new_head[q]
      /\ \A v \in Writers : pc'[v] = pc[v] /\ (Busy(v)' <=> Busy(v))
      /\ pc'[r] \in {"idle", "reset"}
  <2>1. CASE Add(old_head[r], 1) = new_head[r]
    <3>1. Return(r)
      BY <2>1 DEF ResetToken
    <3>2. Moves(r, "idle")
      BY <3>1, GoMoves DEF Return
    <3> QED
      BY <3>1, <3>2, ZenonT(60) DEF Return, ForgetGet, Moves, Busy, TypeOK
  <2>2. CASE Add(old_head[r], 1) # new_head[r]
    BY <1>0, <2>2 DEF ResetToken, Busy, TypeOK
  <2> QED
    BY <2>1, <2>2
<1>h. /\ \A q \in Readers : \A x \in Held(q) : Way(x) >= Way(tail_pos)
      /\ old_head[r] # new_head[r] /\ Held(r) = Between(old_head[r], new_head[r])
  BY <1>0 DEF Good, HeldInv, Held
<1>5. /\ p \in Held(r) /\ Held(r)' = Held(r) \ {p}
      /\ pc'[r] = "reset" => old_head'[r] # new_head'[r]
  <2> DEFINE b == new_head[r]
  <2>1. b \in Positions /\ Held(r) = Between(p, b) /\ p # b
    BY <1>1, <1>h DEF TypeOK
  <2>2. /\ p \in Between(p, b) /\ Add(p, 1) \in Positions
        /\ Between(Add(p, 1), b) = Between(p, b) \ {p}
    BY <2>1, HeldShrinks
  <2>3. CASE Add(p, 1) = b
    <3>1. Return(r)
      BY <1>1, <2>3 DEF ResetToken
    <3>2. Moves(r, "idle")
      BY <3>1, GoMoves DEF Return
    <3>3. Held(r)' = {}
      BY <3>2 DEF Held, Moves
    <3>4. Between(b, b) = {}
      <4>1. b \in Int
        BY <2>1 DEF Positions
      <4> HIDE DEF b
      <4> QED
        BY <4>1 DEF Between
    <3> QED
      BY <2>1, <2>2, <2>3, <3>2, <3>3, <3>4 DEF Moves
  <2>4. CASE Add(p, 1) # b
    <3>1. old_head'[r] = Add(p, 1) /\ pc' = pc /\ new_head' = new_head
      BY <1>1, <2>4 DEF ResetToken, TypeOK
    <3>2. Held(r)' = Between(Add(p, 1), b)
      BY <1>0, <3>1 DEF Held
    <3> QED
      BY <2>1, <2>2, <2>4, <3>1, <3>2
  <2> QED
    BY <2>3, <2>4
<1>6. \A q \in Readers \ {r} : Held(q)' = Held(q)
  BY <1>4 DEF Held
<1>7. Way(p) >= Way(tail_pos) /\ Way(p) \in Int /\ Way(tail_pos) \in Int
  BY <1>5, <1>h, DistIs DEF Way, TypeOK
<1>r. RoomInv'
  BY <1>0, <1>4 DEF Good, RoomInv, RoomOf, Way
<1>s. HeldInv'
  <2>1. \A q \in Readers : Held(q)' \subseteq Held(q)
    BY <1>5, <1>6
  <2>2. \A q \in Readers : pc'[q] \in {"copy", "reset"} => pc[q] \in {"copy", "reset"}
    BY <1>0, <1>4
  <2> SUFFICES ASSUME NEW q \in Readers, pc'[q] \in {"copy", "reset"}
               PROVE  /\ old_head'[q] # new_head'[q]
                      /\ \A x \in Held(q)' : Way(x) >= Way(tail_pos)
                      /\ \A u \in Readers \ {q} : Held(q)' \cap Held(u)' = {}
    BY <1>0 DEF HeldInv, Way
  <2>3. old_head'[q] # new_head'[q]
    BY <1>4, <1>5 DEF Good, HeldInv
  <2>4. \A u \in Readers \ {q} : Held(q) \cap Held(u) = {}
    BY <2>2 DEF Good, HeldInv
  <2> QED
    BY <1>h, <2>1, <2>3, <2>4
<1>o. OrderInv(k)
  BY DEF Good, Ring
<1>8. OrderInv(k)'
  BY <1>0 DEF Good, Ring, OrderInv, Way
<1>9. ASSUME NEW m \in Claims, m > k
      PROVE  /\ Filled(m) => Filled(m)'
             /\ node'[claims[m].at] = node[claims[m].at]
  <2>1. /\ claims[m].at \in Positions /\ claims[m].n \in 1..EleCount
        /\ claims[m].at + claims[m].n <= EleCount
        /\ Way(claims[m].at) + claims[m].n <= Way(tail_pos) /\ Way(claims[m].at) \in 0..EleCount
    BY <1>9, <1>o, RingClaim
  <2>2. claims[m].at # p
    BY <1>7, <2>1
  <2>3. Filled(m) => Filled(m)'
    BY <1>0, <1>3, <2>1, FilledKept
  <2> QED
    BY <1>3, <2>1, <2>2, <2>3
<1>10. WriteInv(k)'
  <2> SUFFICES ASSUME NEW m \in Claims \ published, NEW v \in Writers, claims[m].by = v, Busy(v)'
               PROVE  /\ m > k
                      /\ pc'[v] = "token" => Filled(m)'
                      /\ pc'[v] = "skip" =>
                           /\ claims[m].at = 0 /\ Way(old_tail'[v]) < Way(0)
                           /\ \A j \in k + 1..m - 1 :
                                Way(claims[j].at) + claims[j].n <= Way(old_tail'[v])
    BY <1>0, ClaimIs DEF WriteInv, Way
  <2>1. pc'[v] = pc[v] /\ Busy(v) /\ old_tail'[v] = old_tail[v]
    BY <1>0, <1>4
  <2> QED
    BY <1>9, <2>1 DEF Good, Ring, WriteInv
<1>11. TokenInv(k)'
  <2>1. ASSUME NEW q \in Positions, node'[q].start_token = "has_data"
        PROVE  \/ \E u \in Readers : q \in Held(u)'
               \/ \E m \in published : m > k /\ claims[m].at = q
    <3>1. q # p /\ node[q].start_token = "has_data"
      BY <1>3, <2>1
    <3> QED
      BY <1>5, <1>6, <3>1 DEF Good, Ring, TokenInv
  <2>2. \A m \in published : m > k =>
          node'[claims[m].at].start_token = "has_data" /\ Filled(m)'
    BY <1>9 DEF Good, Ring, TokenInv, OwnInv
  <2> QED
    BY <1>0, <2>1, <2>2 DEF TokenInv
<1>12. WalkInv(k)'
  <2> SUFFICES ASSUME NEW q \in Readers \ {r}, q \notin outrun,
                      pc[q] \in {"look", "recheck", "need", "take"}
               PROVE  WalkOf(q, k)'
    BY <1>0, <1>4 DEF WalkInv, WalkOf
  <2>1. WalkOf(q, k)
    BY DEF Good, Ring, WalkInv
  <2>2. ASSUME pc[q] \in {"need", "take"} PROVE node'[head[q]] = node[head[q]]
    <3>1. PICK m \in published : m > k /\ claims[m].at = head[q]
      BY <2>2, HeadToken
    <3> QED
      BY <1>9, <3>1 DEF OwnInv
  <2>3. \A m \in Claims : Live(m)' => Live(m)
    <3> SUFFICES ASSUME NEW m \in Claims, NEW v \in Writers, claims[m].by = v, Live(m)'
                 PROVE  Live(m)
      BY ClaimIs
    <3> QED
      BY <1>0, <1>4 DEF Live, Busy
  <2> QED
    BY <1>0, <1>4, <2>1, <2>2, <2>3 DEF WalkOf, Way, Claims
<1>c. ASSUME NEW q \in Readers, pc'[q] = "copy"
      PROVE  /\ pc[q] = "copy" /\ q # r /\ Taken(q)' = Taken(q) /\ Filled(Taken(q))'
             /\ head'[q] = head[q] /\ new_head'[q] = new_head[q] /\ Held(q)' = Held(q)
  <2>1. /\ pc[q] = "copy" /\ q # r /\ head'[q] = head[q] /\ new_head'[q] = new_head[q]
        /\ Held(q)' = Held(q)
    BY <1>4, <1>6, <1>c
  <2>2. PICK t : t = Taken(q)
    OBVIOUS
  <2>3. /\ t \in published /\ head[q] = claims[t].at /\ Filled(t)
        /\ new_head[q] = head[q] + claims[t].n /\ new_head[q] <= EleCount
    BY <2>1, <2>2 DEF Good, Ring, CopyInv, CopyOf
  <2>4. t \in Claims
    BY <2>3 DEF OwnInv
  <2>5. claims[t].at \in Positions /\ claims[t].n \in 1..EleCount
    BY <2>4, ClaimIs
  <2>6. Filled(t)'
    BY <1>0, <1>3, <2>3, <2>5, FilledKept, SMTT(40)
  <2>7. Taken(q)' = t
    BY <1>3, <2>1, <2>2, <2>3, <2>5 DEF Taken
  <2> QED
    BY <2>1, <2>2, <2>6, <2>7 DEF Filled
<1>13. CopyInv(k)'
  <2>2. /\ \A q \in Readers : Returned(q)' = Returned(q)
        /\ \A m : Nodes(m)' = Nodes(m)
    BY <1>0 DEF Returned, Nodes
  <2> SUFFICES ASSUME NEW q \in Readers, pc'[q] = "copy" PROVE CopyOf(q, k)'
    BY DEF CopyInv, CopyOf
  <2>3. CopyOf(q, k)
    BY DEF Good, Ring, CopyInv
  <2>4. /\ pc[q] = "copy" /\ Taken(q)' = Taken(q) /\ Filled(Taken(q))'
        /\ head'[q] = head[q] /\ new_head'[q] = new_head[q] /\ Held(q)' = Held(q)
    BY <1>c
  <2>5. \A u \in Readers : pc'[u] = "copy" => pc[u] = "copy" /\ Taken(u)' = Taken(u)
    BY <1>c
  <2>6. claims' = claims /\ published' = published
    BY <1>0
  <2> QED
    BY <2>2, <2>3, <2>4, <2>5, <2>6 DEF CopyOf
<1>14. PastInv(k)'
  <2>1. \A q \in Readers : pc[q] = "copy" => pc'[q] = "copy" /\ Taken(q)' = Taken(q)
    <3> SUFFICES ASSUME NEW q \in Readers, pc[q] = "copy"
                 PROVE  pc'[q] = "copy" /\ Taken(q)' = Taken(q)
      OBVIOUS
    <3>1. pc'[q] = "copy"
      BY <1>0, <1>4
    <3> QED
      BY <1>c, <3>1
  <2>2. \A q \in Readers : Returned(q)' = Returned(q)
    BY <1>0 DEF Returned
  <2>3. published' = published
    BY <1>0
  <2> QED
    BY <2>1, <2>2, <2>3 DEF Good, Ring, PastInv
<1> QED
  BY <1>0, <1>r, <1>s, <1>8, <1>10, <1>11, <1>12, <1>13, <1>14 DEF Good, Ring

\* A reader copies what it has claimed: the bytes of its message.
LEMMA CopyIs ==
  ASSUME TypeOK, OwnInv, NEW k \in Nat, Good(k), Sane, NEW r \in Readers, Copy(r),
         NEW t, t = Taken(r)
  PROVE  /\ t \in published /\ t \in 1..k /\ claims[t].n \in 1..EleCount
         /\ got' = [got EXCEPT ![r] = Append(@, Bytes(t))]
         /\ \A j \in Returned(r) : j < t
         /\ \A q \in Readers : t \notin Returned(q)
<1>0. pc[r] = "copy"
  BY DEF Copy
<1>1. /\ t \in published /\ t <= k /\ head[r] = claims[t].at /\ Filled(t)
      /\ new_head[r] = head[r] + claims[t].n /\ new_head[r] <= EleCount
      /\ \A j \in Returned(r) : j < t
      /\ \A q \in Readers : t \notin Returned(q)
  BY <1>0 DEF Good, Ring, CopyInv, CopyOf
<1>2. t \in Claims
  BY <1>1 DEF OwnInv
<1>3. t \in 1..k
  BY <1>1, <1>2, ClaimIs
<1> DEFINE at == claims[t].at
           n == claims[t].n
<1>4. at \in Positions /\ n \in 1..EleCount
  BY <1>2, ClaimIs
<1>5. at + n <= EleCount /\ new_head[r] = at + n /\ head[r] = at
  BY <1>1
<1>6. /\ node[at].need = n
      /\ \A i \in 1..n : node[at + i - 1].msg = t /\ node[at + i - 1].piece = i
  BY <1>1 DEF Filled
<1> DEFINE c == (new_head[r] + EleCount + 1 - head[r]) % (EleCount + 1)
           read == [i \in 1..c |-> LET x == node[Add(head[r], i - 1)] IN <<x.msg, x.piece>>]
<1>7. got' = [got EXCEPT ![r] = Append(@, read)]
  BY DEF Copy, Sane
<1> HIDE DEF at, n
<1>8. c = n
  <2>1. new_head[r] + EleCount + 1 - head[r] = n + EleCount + 1
    BY <1>4, <1>5, SizesAssumption DEF Positions
  <2>2. n + EleCount + 1 \in 0..2 * EleCount + 1
    BY <1>4, SizesAssumption
  <2>3. (n + EleCount + 1) % (EleCount + 1) = n
    <3> DEFINE s == n + EleCount + 1
    <3>1. s \in 0..2 * EleCount + 1 /\ ~(s <= EleCount) /\ s - EleCount - 1 = n
      BY <1>4, <2>2, SizesAssumption
    <3> HIDE DEF s
    <3>2. s % (EleCount + 1) = s - EleCount - 1
      BY <3>1, ModIs
    <3> QED
      BY <3>1, <3>2 DEF s
  <2> QED
    BY <2>1, <2>3
<1>9. ASSUME NEW i \in 1..n PROVE node[Add(head[r], i - 1)].msg = t /\ node[Add(head[r], i - 1)].piece = i
  <2>1. i - 1 \in Positions /\ at + (i - 1) <= EleCount /\ at + (i - 1) = at + i - 1
    BY <1>4, <1>5, SizesAssumption DEF Positions
  <2>2. Add(head[r], i - 1) = at + i - 1
    BY <1>4, <1>5, <2>1, AddIs
  <2> QED
    BY <1>6, <2>2
<1>10. read = Bytes(t)
  <2>1. Bytes(t) = [i \in 1..n |-> <<t, i>>]
    BY DEF Bytes, n
  <2>2. read = [i \in 1..n |-> <<t, i>>]
    BY <1>8, <1>9
  <2> QED
    BY <2>1, <2>2
<1> HIDE DEF read
<1> QED
  BY <1>1, <1>3, <1>4, <1>7, <1>10 DEF n

\* What has been returned, before and after.
LEMMA ReturnedIs ==
  ASSUME NEW r \in Readers, NEW t, claims[t].n \in 1..EleCount,
         got[r] \in Seq(Seq(Nat \X Nat)), got'[r] = Append(got[r], Bytes(t))
  PROVE  Returned(r)' = Returned(r) \cup {t}
<1>1. /\ Len(got'[r]) = Len(got[r]) + 1 /\ Len(got[r]) \in Nat
      /\ got'[r][Len(got[r]) + 1] = Bytes(t)
      /\ \A i \in 1..Len(got[r]) : got'[r][i] = got[r][i]
  OBVIOUS
<1>2. Bytes(t)[1][1] = t
  BY SizesAssumption DEF Bytes
<1> DEFINE n == Len(got[r])
<1>3. /\ Returned(r) = {got[r][i][1][1] : i \in 1..n}
      /\ Returned(r)' = {got'[r][i][1][1] : i \in 1..n + 1}
  BY <1>1 DEF Returned
<1>4. \A i \in 1..n + 1 : i \in 1..n \/ i = n + 1
  BY <1>1
<1>5. n + 1 \in 1..n + 1 /\ \A i \in 1..n : i \in 1..n + 1
  BY <1>1
<1>6. got'[r][n + 1][1][1] = t /\ \A i \in 1..n : got'[r][i][1][1] = got[r][i][1][1]
  BY <1>1, <1>2
<1> HIDE DEF n
<1>7. Returned(r)' \subseteq Returned(r) \cup {t}
  BY <1>3, <1>4, <1>6, ZenonT(60)
<1>8. Returned(r) \cup {t} \subseteq Returned(r)'
  BY <1>3, <1>5, <1>6, ZenonT(60)
<1> QED
  BY <1>7, <1>8

LEMMA CopyGood ==
  ASSUME TypeOK, OwnInv, GotType, NEW k \in Nat, Good(k), Sane, NEW r \in Readers, Copy(r)
  PROVE  Good(k)'
<1> USE Kinds
<1>1. PICK t : t = Taken(r)
  OBVIOUS
<1>2. /\ t \in published /\ t \in 1..k /\ claims[t].n \in 1..EleCount
      /\ got' = [got EXCEPT ![r] = Append(@, Bytes(t))]
      /\ \A j \in Returned(r) : j < t
      /\ \A q \in Readers : t \notin Returned(q)
  BY <1>1, CopyIs
<1>0. /\ UNCHANGED <<file, putLocals, getLocals, claims, published, outrun>>
      /\ UNCHANGED <<head_pos, tail_pos, node, nr_nodes, idx, old_tail, new_tail, Claims>>
      /\ UNCHANGED <<head, old_head, new_head>> /\ pc[r] = "copy"
  BY DEF Copy, file, putLocals, getLocals, Claims
<1>3. Moves(r, "reset")
  BY GoMoves DEF Copy
<1>4. /\ pc'[r] = "reset" /\ Held(r)' = Held(r)
      /\ \A q \in Readers : Held(q)' = Held(q) /\ (q # r => pc'[q] = pc[q])
      /\ \A v \in Writers : pc'[v] = pc[v] /\ (Busy(v)' <=> Busy(v))
  BY <1>0, <1>3 DEF Moves, Busy, Held
<1>5. Returned(r)' = Returned(r) \cup {t} /\ \A q \in Readers \ {r} : Returned(q)' = Returned(q)
  <2>1. got[r] \in Seq(Seq(Nat \X Nat)) /\ got'[r] = Append(got[r], Bytes(t))
    BY <1>2 DEF GotType
  <2>2. Returned(r)' = Returned(r) \cup {t}
    BY <1>2, <2>1, ReturnedIs
  <2>3. \A q \in Readers \ {r} : got'[q] = got[q]
    BY <1>2 DEF GotType
  <2>4. \A q \in Readers \ {r} : Returned(q)' = Returned(q)
    BY <2>3 DEF Returned
  <2> QED
    BY <2>2, <2>4
<1>6. \A m : Filled(m)' <=> Filled(m)
  BY <1>0 DEF Filled
<1>7. RoomInv'
  BY <1>0, <1>4 DEF Good, RoomInv, RoomOf, Way
<1>8. HeldInv'
  <2>1. \A q \in Readers : pc'[q] \in {"copy", "reset"} => pc[q] \in {"copy", "reset"}
    BY <1>0, <1>4
  <2> QED
    BY <1>0, <1>4, <2>1 DEF Good, HeldInv, Way
<1>9. OrderInv(k)'
  BY <1>0 DEF Good, Ring, OrderInv, Way
<1>10. WriteInv(k)'
  <2> SUFFICES ASSUME NEW m \in Claims \ published, NEW v \in Writers, claims[m].by = v, Busy(v)'
               PROVE  /\ m > k
                      /\ pc'[v] = "token" => Filled(m)'
                      /\ pc'[v] = "skip" =>
                           /\ claims[m].at = 0 /\ Way(old_tail'[v]) < Way(0)
                           /\ \A j \in k + 1..m - 1 :
                                Way(claims[j].at) + claims[j].n <= Way(old_tail'[v])
    BY <1>0, ClaimIs DEF WriteInv, Way
  <2>1. pc'[v] = pc[v] /\ Busy(v) /\ old_tail'[v] = old_tail[v]
    BY <1>0, <1>4
  <2> QED
    BY <1>6, <2>1 DEF Good, Ring, WriteInv
<1>11. TokenInv(k)'
  BY <1>0, <1>4, <1>6 DEF Good, Ring, TokenInv
<1>12. WalkInv(k)'
  <2>1. \A m \in Claims : Live(m)' => Live(m)
    <3> SUFFICES ASSUME NEW m \in Claims, NEW v \in Writers, claims[m].by = v, Live(m)'
                 PROVE  Live(m)
      BY ClaimIs
    <3> QED
      BY <1>0, <1>4 DEF Live, Busy
  <2> SUFFICES ASSUME NEW q \in Readers \ {r} PROVE WalkOf(q, k)'
    BY <1>4 DEF WalkInv, WalkOf
  <2>2. WalkOf(q, k)
    BY DEF Good, Ring, WalkInv
  <2> QED
    BY <1>0, <1>4, <2>1, <2>2 DEF WalkOf, Way, Claims
<1>13. \A q \in Readers : Taken(q)' = Taken(q)
  BY <1>0 DEF Taken
<1>14. CopyInv(k)'
  <2> SUFFICES ASSUME NEW q \in Readers \ {r}, pc[q] = "copy" PROVE CopyOf(q, k)'
    BY <1>4 DEF CopyInv, CopyOf
  <2>1. CopyOf(q, k) /\ Taken(q) # t
    BY <1>0, <1>1 DEF Good, Ring, CopyInv, CopyOf
  <2>2. \A m : Nodes(m)' = Nodes(m)
    BY <1>0 DEF Nodes
  <2>3. \A u \in Readers : pc'[u] = "copy" => pc[u] = "copy"
    BY <1>4
  <2> QED
    BY <1>0, <1>4, <1>5, <1>6, <1>13, <2>1, <2>2, <2>3 DEF CopyOf
<1>15. PastInv(k)'
  <2>1. \A q \in Readers : Returned(q)' \subseteq 1..k
    BY <1>2, <1>5 DEF Good, Ring, PastInv
  <2>2. ASSUME NEW m \in published, m <= k
        PROVE  \E q \in Readers : m \in Returned(q)' \/ (pc'[q] = "copy" /\ Taken(q)' = m)
    <3>1. PICK q \in Readers : m \in Returned(q) \/ (pc[q] = "copy" /\ Taken(q) = m)
      BY <2>2 DEF Good, Ring, PastInv
    <3>2. CASE m \in Returned(q)
      BY <1>5, <3>2
    <3>3. CASE pc[q] = "copy" /\ Taken(q) = m /\ q = r
      BY <1>1, <1>5, <3>3
    <3>4. CASE pc[q] = "copy" /\ Taken(q) = m /\ q # r
      BY <1>4, <1>13, <3>4
    <3> QED
      BY <3>1, <3>2, <3>3, <3>4
  <2>3. published' = published
    BY <1>0
  <2> QED
    BY <2>1, <2>2, <2>3 DEF PastInv
<1> QED
  BY <1>0, <1>7, <1>8, <1>9, <1>10, <1>11, <1>12, <1>14, <1>15 DEF Good, Ring

-----------------------------------------------------------------------------
(* The two steps that move a position. *)

\* Nodes behind tail_pos that nobody holds stay in front of what readers hold.
LEMMA ClaimGood ==
  ASSUME TypeOK, OwnInv, NEW k \in Nat, Good(k), NEW w \in Writers, ClaimNodes(w), CasTail(w),
         blame' = {}
  PROVE  Good(k)'
<1> USE Kinds
<1> DEFINE taken == Between(old_tail[w], new_tail[w])
<1>0. /\ pc[w] = "claim" /\ tail_pos = old_tail[w] /\ tail_pos' = new_tail[w]
      /\ Go(w, IF idx[w] = 0 /\ old_tail[w] # 0 THEN "skip" ELSE "fill")
      /\ outrun' = (outrun \cup {v \in Writers : pc[v] = "claim"}) \ {w}
      /\ claims' = Append(claims, Claim(idx[w], nr_nodes[w], w))
      /\ UNCHANGED <<head_pos, node, putLocals, getLocals, published, got>>
  BY DEF ClaimNodes, CasTail
<1>u. UNCHANGED <<nr_nodes, idx, old_tail, new_tail, head, old_head, new_head>>
  BY <1>0 DEF putLocals, getLocals
<1>b. w \notin outrun /\ \A r \in Readers : taken \cap Held(r) = {}
  BY <1>0 DEF ClaimNodes, CasTail
<1>1. /\ idx[w] \in Positions /\ tail_pos \in Positions /\ head_pos \in Positions
      /\ new_tail[w] \in Positions /\ nr_nodes[w] \in 0..EleCount /\ 0 \in Positions
      /\ EleCount \in Nat
  BY SizesAssumption DEF TypeOK, Positions
<1> DEFINE at == idx[w]
           n == nr_nodes[w]
           new == new_tail[w]
           last == Len(claims) + 1
<1>2. /\ n >= 1 /\ at + n = new /\ Dist(tail_pos, at) + n = Dist(tail_pos, new)
      /\ Way(tail_pos) + Dist(tail_pos, new) <= EleCount
      /\ at = tail_pos \/ at = 0
  BY <1>0, <1>b DEF Good, RoomInv, RoomOf
<1>3. \A a, b \in Positions : Dist(a, b) \in 0..EleCount /\ (Dist(a, b) = 0 <=> a = b)
  BY DistIs
<1>4. Way(new) = Way(tail_pos) + Dist(tail_pos, new) /\ Way(new) \in 0..EleCount
  BY <1>1, <1>2, <1>3, DistJoin DEF Way
<1>5. Way(at) = Way(tail_pos) + Dist(tail_pos, at) /\ Way(at) + n = Way(new)
  <2>1. Dist(head_pos, tail_pos) + Dist(tail_pos, at) <= EleCount
    BY <1>1, <1>2, <1>3 DEF Way
  <2>2. Way(at) = Way(tail_pos) + Dist(tail_pos, at)
    BY <1>1, <2>1, DistJoin DEF Way
  <2> QED
    BY <1>1, <1>2, <1>3, <1>4, <2>2 DEF Way
<1>6. Way(tail_pos) \in 0..EleCount /\ Way(at) \in 0..EleCount /\ Way(tail_pos) <= Way(new)
      /\ Way(tail_pos) <= Way(at)
  BY <1>1, <1>3, <1>4, <1>5 DEF Way
<1>7. /\ Claims' = Claims \cup {last} /\ last \notin Claims /\ Len(claims) \in Nat
      /\ Len(claims') = last
      /\ \A m \in Claims : claims'[m] = claims[m]
      /\ claims'[last] = Claim(at, n, w)
  BY <1>0, ClaimAppended
<1>8. claims'[last].by = w /\ claims'[last].at = at /\ claims'[last].n = n
  BY <1>7 DEF Claim
<1>9. PICK s \in {"skip", "fill"} : Moves(w, s) /\ (s = "skip" => at = 0 /\ tail_pos # 0)
  BY <1>0, GoMoves
<1>10. /\ pc'[w] = s /\ Busy(w)' /\ ~Busy(w)
       /\ \A v \in Writers \ {w} : pc'[v] = pc[v] /\ (Busy(v)' <=> Busy(v))
       /\ \A r \in Readers : pc'[r] = pc[r] /\ Held(r)' = Held(r) /\ (r \in outrun' <=> r \in outrun)
  BY <1>0, <1>9, <1>u DEF Moves, Busy, Held
<1>11. published \subseteq Claims /\ published' = published /\ last \notin published
       /\ head_pos' = head_pos /\ node' = node /\ tail_pos' = new /\ got' = got
  BY <1>0, <1>7 DEF OwnInv
<1>k. k \in 0..Len(claims) /\ OrderInv(k)
  BY DEF Good, Ring
<1>h. ASSUME NEW r \in Readers, NEW p \in Held(r), pc[r] \in {"copy", "reset"}
      PROVE  Way(p) >= Way(new)
  <2>1. p \in Positions /\ Way(p) >= Way(tail_pos) /\ p \notin taken
    BY <1>b, <1>h, HeldIs DEF Good, HeldInv
  <2>2. ~(Dist(tail_pos, p) < Dist(tail_pos, new))
    BY <1>0, <1>1, <2>1, BetweenIs
  <2>3. Dist(tail_pos, p) = Way(p) - Way(tail_pos)
    BY <1>1, <2>1, DistFrom DEF Way
  <2>4. Way(p) \in 0..EleCount /\ Dist(tail_pos, new) \in 0..EleCount
    BY <1>1, <1>3, <2>1 DEF Way
  <2> HIDE DEF new, taken
  <2> QED
    BY <1>4, <1>6, <2>1, <2>2, <2>3, <2>4
<1> HIDE DEF at, n, new, last, taken
<1>r. RoomInv'
  <2> SUFFICES ASSUME NEW v \in Writers, pc'[v] = "claim", v \notin outrun' PROVE FALSE
    BY DEF RoomInv, RoomOf
  <2>1. v # w /\ pc[v] = "claim"
    BY <1>10
  <2> QED
    BY <1>0, <2>1
<1>s. HeldInv'
  <2> SUFFICES ASSUME NEW r \in Readers, pc[r] \in {"copy", "reset"}
               PROVE  /\ old_head[r] # new_head[r]
                      /\ \A p \in Held(r) : Way(p) >= Way(new)
                      /\ \A q \in Readers \ {r} : Held(r) \cap Held(q) = {}
    BY <1>u, <1>10, <1>11 DEF HeldInv, Way
  <2> QED
    BY <1>h DEF Good, HeldInv
<1>c. \A m \in Claims : m > k =>
        /\ claims[m].at + claims[m].n <= EleCount
        /\ Way(claims[m].at) + claims[m].n <= Way(tail_pos)
        /\ Way(claims[m].at) \in 0..EleCount /\ claims[m].n \in 1..EleCount
        /\ \A j \in Claims : j > m => Way(claims[m].at) + claims[m].n <= Way(claims[j].at)
  BY <1>k, RingClaim
<1>12. OrderInv(k)'
  <2> SUFFICES ASSUME NEW m \in k + 1..last
               PROVE  /\ claims'[m].at + claims'[m].n <= EleCount
                      /\ Way(claims'[m].at) + claims'[m].n <= Way(new)
                      /\ \A j \in m + 1..last : Way(claims'[m].at) + claims'[m].n <= Way(claims'[j].at)
    BY <1>7, <1>11 DEF OrderInv, Way
  <2>1. CASE m = last
    <3>1. at + n <= EleCount
      BY <1>1, <1>2 DEF Positions, new
    <3>2. \A j \in m + 1..last : FALSE
      BY <1>7, <2>1 DEF last
    <3> QED
      BY <1>4, <1>5, <1>8, <2>1, <3>1, <3>2
  <2>2. CASE m # last
    <3>1. m \in Claims /\ m > k
      BY <1>7, <2>2 DEF Claims, last
    <3>2. Way(claims[m].at) + claims[m].n <= Way(tail_pos) /\ Way(claims[m].at) \in 0..EleCount
          /\ claims[m].at + claims[m].n <= EleCount /\ claims[m].n \in 1..EleCount
      BY <1>c, <3>1
    <3>3. ASSUME NEW j \in m + 1..last
          PROVE  Way(claims[m].at) + claims[m].n <= Way(claims'[j].at)
      <4>1. CASE j = last
        BY <1>6, <1>8, <3>2, <4>1
      <4>2. CASE j # last
        <5>1. j \in Claims /\ j > m
          BY <1>7, <3>1, <4>2 DEF Claims, last
        <5> QED
          BY <1>7, <1>c, <3>1, <5>1
      <4> QED
        BY <4>1, <4>2
    <3>4. claims'[m] = claims[m]
      BY <1>7, <3>1
    <3> QED
      BY <1>6, <1>4, <3>2, <3>3, <3>4
  <2> QED
    BY <2>1, <2>2
<1>13. \A m \in Claims : Filled(m)' <=> Filled(m)
  BY <1>7, <1>11 DEF Filled
<1>14. WriteInv(k)'
  <2> SUFFICES ASSUME NEW m \in Claims' \ published, NEW v \in Writers, claims'[m].by = v, Busy(v)'
               PROVE  /\ m > k
                      /\ pc'[v] = "token" => Filled(m)'
                      /\ pc'[v] = "skip" =>
                           /\ claims'[m].at = 0 /\ Way(old_tail[v]) < Way(0)
                           /\ \A j \in k + 1..m - 1 :
                                Way(claims'[j].at) + claims'[j].n <= Way(old_tail[v])
    <3>1. \A m \in Claims' : claims'[m].by \in Writers
      BY <1>7, <1>8, ClaimIs
    <3> QED
      BY <1>11, <1>u, <3>1 DEF WriteInv, Way
  <2>1. CASE m = last
    <3>1. v = w /\ m > k
      BY <1>7, <1>8, <1>k, <2>1 DEF last
    <3>2. pc'[w] # "token"
      BY <1>10
    <3>3. ASSUME s = "skip"
          PROVE  /\ at = 0 /\ Way(tail_pos) < Way(0)
                 /\ \A j \in k + 1..m - 1 : Way(claims'[j].at) + claims'[j].n <= Way(tail_pos)
      <4>1. at = 0 /\ Dist(tail_pos, at) > 0
        BY <1>1, <1>3, <1>9, <3>3
      <4>2. Way(tail_pos) < Way(0)
        BY <1>1, <1>3, <1>5, <1>6, <4>1
      <4>3. \A j \in k + 1..m - 1 : j \in Claims /\ j > k
        BY <1>7, <2>1 DEF Claims, last
      <4> QED
        BY <1>7, <1>c, <4>1, <4>2, <4>3
    <3> QED
      BY <1>0, <1>8, <1>10, <2>1, <3>1, <3>2, <3>3
  <2>2. CASE m # last
    <3>1. m \in Claims \ published /\ claims'[m] = claims[m]
      BY <1>7, <2>2
    <3>2. v # w
      BY <1>0, <1>10, <3>1 DEF OwnInv
    <3>3. Busy(v) /\ pc'[v] = pc[v]
      BY <1>10, <3>2
    <3>4. /\ m > k
          /\ pc[v] = "token" => Filled(m)
          /\ pc[v] = "skip" =>
               /\ claims[m].at = 0 /\ Way(old_tail[v]) < Way(0)
               /\ \A j \in k + 1..m - 1 :
                    Way(claims[j].at) + claims[j].n <= Way(old_tail[v])
      BY <3>1, <3>3 DEF Good, Ring, WriteInv
    <3>5. \A j \in k + 1..m - 1 : claims'[j] = claims[j]
      <4>1. \A j \in k + 1..m - 1 : j \in Claims
        BY <3>1, ClaimIs DEF Claims
      <4> QED
        BY <1>7, <4>1
    <3> QED
      BY <1>13, <3>1, <3>3, <3>4, <3>5
  <2> QED
    BY <2>1, <2>2
<1>15. TokenInv(k)'
  <2>1. \A m \in published : m \in Claims /\ claims'[m] = claims[m]
    BY <1>7, <1>11
  <2> QED
    BY <1>10, <1>11, <1>13, <2>1 DEF Good, Ring, TokenInv
<1>16. WalkInv(k)'
  <2> SUFFICES ASSUME NEW r \in Readers, r \notin outrun,
                      pc[r] \in {"look", "recheck", "need", "take"}
               PROVE  WalkOf(r, k)'
    BY <1>10 DEF WalkInv, WalkOf
  <2>1. /\ old_head[r] = head_pos /\ head[r] \in Positions
        /\ Way(head[r]) \in 0..EleCount
        /\ Way(head[r]) <= Way(tail_pos)
        /\ pc[r] # "look" => Way(head[r]) < Way(tail_pos)
        /\ \A m \in k + 1..Len(claims) : Live(m) => Way(head[r]) <= Way(claims[m].at)
        /\ pc[r] \in {"need", "take"} => node[head[r]].start_token = "has_data"
        /\ pc[r] = "take" => new_head[r] = Add(head[r], node[head[r]].need)
    BY WalkIs
  <2>2. ASSUME NEW m \in k + 1..last, Live(m)' PROVE Way(head[r]) <= Way(claims'[m].at)
    <3>1. CASE m = last
      BY <1>6, <1>8, <2>1, <3>1
    <3>2. CASE m # last
      <4>1. m \in Claims /\ m \in k + 1..Len(claims) /\ claims'[m] = claims[m]
        BY <1>7, <3>2 DEF Claims, last
      <4>2. PICK v \in Writers : claims[m].by = v
        BY <4>1, ClaimIs
      <4>3. m \in published \/ Busy(v)'
        BY <1>11, <2>2, <4>1, <4>2 DEF Live, Busy
      <4>4. Live(m)
        <5>1. CASE m \in published
          BY <5>1 DEF Live
        <5>2. CASE m \notin published
          <6>1. v # w
            BY <1>0, <1>10, <4>1, <4>2, <5>2 DEF OwnInv
          <6> QED
            BY <1>10, <4>2, <4>3, <5>2, <6>1 DEF Live
        <5> QED
          BY <5>1, <5>2
      <4> QED
        BY <2>1, <4>1, <4>4
    <3> QED
      BY <3>1, <3>2
  <2>3. Way(head[r]) <= Way(new) /\ (pc[r] # "look" => Way(head[r]) < Way(new))
    BY <1>4, <1>6, <2>1
  <2> QED
    BY <1>7, <1>10, <1>11, <1>u, <2>1, <2>2, <2>3 DEF WalkOf, Way
<1>17. \A r \in Readers : Taken(r)' = Taken(r) /\ Returned(r)' = Returned(r)
  BY <1>11, <1>u DEF Taken, Returned
<1>18. CopyInv(k)'
  <2> SUFFICES ASSUME NEW r \in Readers, pc[r] = "copy" PROVE CopyOf(r, k)'
    BY <1>10 DEF CopyInv, CopyOf
  <2>0. PICK t : t = Taken(r)
    OBVIOUS
  <2>1. CopyOf(r, k) /\ t \in Claims
    BY <1>11, <2>0 DEF Good, Ring, CopyInv, CopyOf
  <2>2. Nodes(t)' = Nodes(t) /\ (Filled(t)' <=> Filled(t)) /\ claims'[t] = claims[t]
    BY <1>7, <1>13, <2>1 DEF Nodes
  <2>3. Taken(r)' = t /\ \A q \in Readers : Taken(q)' = Taken(q) /\ pc'[q] = pc[q]
    BY <1>10, <1>17, <2>0
  <2> QED
    BY <1>10, <1>11, <1>17, <1>u, <2>0, <2>1, <2>2, <2>3 DEF CopyOf
<1>19. PastInv(k)'
  BY <1>10, <1>11, <1>17 DEF Good, Ring, PastInv
<1>20. k \in 0..Len(claims')
  BY <1>7, <1>k DEF last
<1> QED
  BY <1>r, <1>s, <1>12, <1>14, <1>15, <1>16, <1>18, <1>19, <1>20 DEF Good, Ring

\* Distances from head_pos when it has moved.
LEMMA WayMoves ==
  ASSUME TypeOK, NEW p \in Positions, head_pos' = p, NEW x \in Positions
  PROVE  /\ Way(x) \in 0..EleCount /\ Way(p) \in 0..EleCount /\ Dist(p, x) \in 0..EleCount
         /\ Way(p) <= Way(x) => Dist(p, x) = Way(x) - Way(p)
         /\ Way(x) < Way(p) => Dist(p, x) = Way(x) + EleCount + 1 - Way(p)
<1>1. head_pos \in Positions
  BY DEF TypeOK
<1>2. /\ Dist(head_pos, x) \in 0..EleCount /\ Dist(head_pos, p) \in 0..EleCount
      /\ Dist(p, x) \in 0..EleCount
  BY <1>1, DistIs
<1>3. /\ Dist(head_pos, p) <= Dist(head_pos, x) => Dist(p, x) = Dist(head_pos, x) - Dist(head_pos, p)
      /\ Dist(head_pos, x) < Dist(head_pos, p) =>
           Dist(p, x) = Dist(head_pos, x) + EleCount + 1 - Dist(head_pos, p)
  BY <1>1, DistFrom
<1> QED
  BY <1>2, <1>3 DEF Way

\* A reader moves head_pos to p, and messages up to number l are behind it.
LEMMA HeadMoves ==
  ASSUME TypeOK, OwnInv, NEW k \in Nat, Good(k), NEW r \in Readers, pc[r] \in {"look", "take"},
         NEW s \in {"copy", "reset"}, Moves(r, s), NEW p \in Positions, head_pos' = p,
         old_head[r] = head_pos, Way(p) > 0, Way(p) <= Way(tail_pos),
         UNCHANGED <<tail_pos, node, putLocals, old_head, head, claims, published, got>>,
         new_head'[r] = p, \A q \in Readers \ {r} : new_head'[q] = new_head[q],
         outrun' = (outrun \cup {q \in Readers : pc[q] \notin {"idle", "copy", "reset"}}) \ {r},
         NEW l \in 0..Len(claims), l >= k,
         \A j \in Claims : j > l => Way(p) <= Way(claims[j].at),
         \A j \in Claims : j > k /\ j <= l /\ Live(j) => j = l /\ s = "copy",
         \A v \in Writers : pc[v] = "skip" => Way(p) <= Way(old_tail[v]),
         s = "copy" => /\ l > k /\ l \in published /\ claims[l].at = head[r]
                       /\ Way(claims[l].at) + claims[l].n = Way(p)
                       /\ p = claims[l].at + claims[l].n
  PROVE  Good(l)'
<1> USE Kinds
<1>u. /\ UNCHANGED <<nr_nodes, idx, old_tail, new_tail, tail_pos, node, old_head, head>>
      /\ UNCHANGED <<claims, published, got, Claims>>
  BY DEF putLocals, Claims
<1>k. k \in 0..Len(claims) /\ OrderInv(k) /\ Len(claims) \in Nat
  BY DEF Good, Ring, TypeOK
<1>0. /\ pc'[r] = s /\ Held(r) = {} /\ Held(r)' = Between(head_pos, p)
      /\ \A q \in Readers \ {r} : pc'[q] = pc[q] /\ Held(q)' = Held(q)
      /\ \A v \in Writers : /\ pc'[v] = pc[v] /\ (Busy(v)' <=> Busy(v))
                            /\ (v \in outrun' <=> v \in outrun)
  BY <1>u DEF Moves, Busy, Held
<1>1. \A x : Way(x)' = Dist(p, x)
  BY DEF Way
<1>2. \A x \in Positions :
        /\ Way(x) \in 0..EleCount /\ Way(p) \in 0..EleCount /\ Dist(p, x) \in 0..EleCount
        /\ Way(p) <= Way(x) => Dist(p, x) = Way(x) - Way(p)
        /\ Way(x) < Way(p) => Dist(p, x) = Way(x) + EleCount + 1 - Way(p)
  BY WayMoves
<1>3. /\ tail_pos \in Positions /\ head_pos \in Positions
      /\ Dist(p, tail_pos) = Way(tail_pos) - Way(p)
  BY <1>2 DEF TypeOK
<1>f. \A m : Filled(m)' <=> Filled(m)
  BY <1>u DEF Filled
<1>4. RoomInv'
  <2> SUFFICES ASSUME NEW v \in Writers, pc[v] = "claim", v \notin outrun PROVE RoomOf(v)'
    BY <1>0 DEF RoomInv, RoomOf
  <2>1. RoomOf(v) /\ new_tail[v] \in Positions
    BY DEF Good, RoomInv, TypeOK
  <2>2. Way(tail_pos) + Dist(tail_pos, new_tail[v]) <= EleCount
    BY <2>1 DEF RoomOf
  <2>3. Dist(tail_pos, new_tail[v]) \in 0..EleCount /\ EleCount \in Nat
    BY <1>3, <2>1, DistIs, SizesAssumption
  <2>4. Dist(p, tail_pos) + Dist(tail_pos, new_tail[v]) <= EleCount
    BY <1>2, <1>3, <2>2, <2>3, SMTT(40)
  <2> QED
    BY <1>0, <1>u, <2>1, <2>4 DEF RoomOf, Way
<1>h. \A q \in Readers \ {r} : \A x \in Held(q) :
        x \in Positions /\ Way(x) >= Way(tail_pos) /\ pc[q] \in {"copy", "reset"}
  BY HeldIs DEF Good, HeldInv, Held
<1>b. \A x : x \in Held(r)' <=> x \in Positions /\ Way(x) < Way(p)
  BY <1>0, <1>3, BetweenIs DEF Way
<1>5. HeldInv'
  <2>1. ASSUME NEW q \in Readers, pc'[q] \in {"copy", "reset"}
        PROVE  \A x \in Held(q)' : Dist(p, x) >= Dist(p, tail_pos)
    <3> SUFFICES ASSUME NEW x \in Held(q)' PROVE Dist(p, x) >= Dist(p, tail_pos)
      OBVIOUS
    <3>1. CASE q = r
      <4>1. x \in Positions /\ Way(x) < Way(p)
        BY <1>b, <3>1
      <4>2. Dist(p, x) = Way(x) + EleCount + 1 - Way(p)
        BY <1>2, <4>1
      <4>3. Way(x) \in 0..EleCount /\ Way(p) \in 0..EleCount /\ Way(tail_pos) \in 0..EleCount
        BY <1>2, <1>3, <4>1
      <4> QED
        BY <1>3, <4>2, <4>3, SizesAssumption
    <3>2. CASE q # r
      <4>1. x \in Positions /\ Way(x) >= Way(tail_pos)
        BY <1>0, <1>h, <3>2
      <4>2. Dist(p, x) = Way(x) - Way(p)
        BY <1>2, <1>3, <4>1
      <4>3. Way(x) \in Int /\ Way(p) \in Int /\ Way(tail_pos) \in Int
        BY <1>2, <1>3, <4>1
      <4> QED
        BY <1>3, <4>1, <4>2, <4>3
    <3> QED
      BY <3>1, <3>2
  <2>2. ASSUME NEW q \in Readers, pc'[q] \in {"copy", "reset"}
        PROVE  old_head'[q] # new_head'[q]
    <3>1. CASE q = r
      <4>1. p # head_pos
        BY <1>3, DistIs DEF Way
      <4> QED
        BY <1>u, <3>1, <4>1
    <3>2. CASE q # r
      BY <1>0, <1>u, <2>2, <3>2 DEF Good, HeldInv
    <3> QED
      BY <3>1, <3>2
  <2>3. ASSUME NEW q \in Readers, NEW v \in Readers \ {q} PROVE Held(q)' \cap Held(v)' = {}
    <3>1. \A u \in Readers \ {r} : Held(u)' \cap Held(r)' = {}
      <4> SUFFICES ASSUME NEW u \in Readers \ {r}, NEW x \in Held(u)', x \in Held(r)' PROVE FALSE
        OBVIOUS
      <4>1. x \in Positions /\ Way(x) >= Way(tail_pos) /\ Way(x) < Way(p)
        BY <1>0, <1>b, <1>h
      <4> QED
        BY <1>2, <1>3, <4>1
    <3>2. CASE q = r \/ v = r
      BY <3>1, <3>2
    <3>3. CASE q # r /\ v # r
      BY <1>0, <1>h, <3>3 DEF Good, HeldInv
    <3> QED
      BY <3>2, <3>3
  <2> QED
    BY <1>1, <1>u, <2>1, <2>2, <2>3 DEF HeldInv, Way
<1>c. \A m \in Claims : m > k =>
        /\ claims[m].at \in Positions /\ claims[m].n \in 1..EleCount
        /\ claims[m].at + claims[m].n <= EleCount
        /\ Way(claims[m].at) + claims[m].n <= Way(tail_pos)
        /\ Way(claims[m].at) \in 0..EleCount
        /\ \A j \in Claims : j > m => Way(claims[m].at) + claims[m].n <= Way(claims[j].at)
        /\ \A i \in 0..claims[m].n - 1 :
             claims[m].at + i \in Positions /\ Way(claims[m].at + i) = Way(claims[m].at) + i
  BY <1>k, RingClaim
<1>m. \A m \in Claims : m > l => /\ Dist(p, claims[m].at) = Way(claims[m].at) - Way(p) /\ m > k
                                 /\ claims[m].at \in Positions
  BY <1>2, <1>c, <1>k, ClaimIs
<1>6. OrderInv(l)'
  <2> SUFFICES ASSUME NEW m \in l + 1..Len(claims)
               PROVE  /\ claims[m].at + claims[m].n <= EleCount
                      /\ Dist(p, claims[m].at) + claims[m].n <= Dist(p, tail_pos)
                      /\ \A j \in m + 1..Len(claims) :
                           Dist(p, claims[m].at) + claims[m].n <= Dist(p, claims[j].at)
    BY <1>1, <1>u DEF OrderInv, Way
  <2>1. m \in Claims /\ m > l /\ m > k
    BY <1>k DEF Claims
  <2>2. /\ Dist(p, claims[m].at) = Way(claims[m].at) - Way(p)
        /\ claims[m].at + claims[m].n <= EleCount /\ claims[m].n \in 1..EleCount
        /\ Way(claims[m].at) + claims[m].n <= Way(tail_pos) /\ Way(claims[m].at) \in 0..EleCount
    BY <1>c, <1>m, <2>1
  <2>3. ASSUME NEW j \in m + 1..Len(claims)
        PROVE  Dist(p, claims[m].at) + claims[m].n <= Dist(p, claims[j].at)
    <3>1. j \in Claims /\ j > m /\ j > l
      BY <2>1, <1>k DEF Claims
    <3>2. /\ Dist(p, claims[j].at) = Way(claims[j].at) - Way(p) /\ claims[j].at \in Positions
          /\ Way(claims[m].at) + claims[m].n <= Way(claims[j].at)
      BY <1>c, <1>m, <2>1, <3>1
    <3> QED
      BY <1>2, <2>2, <3>2, SMTT(40)
  <2> QED
    BY <1>2, <1>3, <2>2, <2>3, SMTT(40)
<1>7. WriteInv(l)'
  <2> SUFFICES ASSUME NEW m \in Claims \ published, NEW v \in Writers, claims[m].by = v, Busy(v)
               PROVE  /\ m > l
                      /\ pc[v] = "token" => Filled(m)
                      /\ pc[v] = "skip" =>
                           /\ claims[m].at = 0 /\ Dist(p, old_tail[v]) < Dist(p, 0)
                           /\ \A j \in l + 1..m - 1 :
                                Dist(p, claims[j].at) + claims[j].n <= Dist(p, old_tail[v])
    BY <1>0, <1>f, <1>u, ClaimIs DEF WriteInv, Way
  <2>1. /\ m > k
        /\ pc[v] = "token" => Filled(m)
        /\ pc[v] = "skip" =>
             /\ claims[m].at = 0 /\ Way(old_tail[v]) < Way(0)
             /\ \A j \in k + 1..m - 1 :
                  Way(claims[j].at) + claims[j].n <= Way(old_tail[v])
    BY DEF Good, Ring, WriteInv
  <2>2. m > l
    <3>1. Live(m)
      BY DEF Live
    <3>2. m # l \/ s # "copy"
      OBVIOUS
    <3> QED
      BY <2>1, <3>1, <3>2, ClaimIs
  <2>3. ASSUME pc[v] = "skip"
        PROVE  /\ claims[m].at = 0 /\ Dist(p, old_tail[v]) < Dist(p, 0)
               /\ \A j \in l + 1..m - 1 :
                    Dist(p, claims[j].at) + claims[j].n <= Dist(p, old_tail[v])
    <3>1. old_tail[v] \in Positions /\ 0 \in Positions /\ Way(p) <= Way(old_tail[v])
      BY <2>3, SizesAssumption DEF TypeOK, Positions
    <3>2. /\ Dist(p, old_tail[v]) = Way(old_tail[v]) - Way(p)
          /\ Way(old_tail[v]) < Way(0) /\ Dist(p, 0) = Way(0) - Way(p)
      BY <1>2, <2>1, <2>3, <3>1
    <3>3. ASSUME NEW j \in l + 1..m - 1
          PROVE  Dist(p, claims[j].at) + claims[j].n <= Dist(p, old_tail[v])
      <4>1. j \in Claims /\ j > l /\ j \in k + 1..m - 1
        BY <1>k, ClaimIs DEF Claims
      <4>2. /\ Dist(p, claims[j].at) = Way(claims[j].at) - Way(p)
            /\ claims[j].n \in 1..EleCount /\ Way(claims[j].at) \in 0..EleCount
            /\ Way(claims[j].at) + claims[j].n <= Way(old_tail[v])
        BY <1>c, <1>m, <2>1, <2>3, <4>1
      <4>3. Way(old_tail[v]) \in Int /\ Way(p) \in Int /\ claims[j].n \in Int
        BY <1>2, <3>1, <4>2, SMTT(40)
      <4> QED
        BY <3>2, <4>2, <4>3, SMTT(40)
    <3>4. Dist(p, old_tail[v]) < Dist(p, 0)
      <4>1. Way(old_tail[v]) \in 0..EleCount /\ Way(0) \in 0..EleCount /\ Way(p) \in 0..EleCount
        BY <1>2, <3>1
      <4> QED
        BY <3>2, <4>1
    <3> QED
      BY <2>1, <2>3, <3>3, <3>4
  <2> QED
    BY <2>1, <2>2, <2>3
<1>8. TokenInv(l)'
  <2>1. ASSUME NEW x \in Positions, node[x].start_token = "has_data"
        PROVE  \/ \E q \in Readers : x \in Held(q)'
               \/ \E m \in published : m > l /\ claims[m].at = x
    <3>1. \/ \E q \in Readers : x \in Held(q)
          \/ \E m \in published : m > k /\ claims[m].at = x
      BY <2>1 DEF Good, Ring, TokenInv
    <3>2. ASSUME NEW q \in Readers, x \in Held(q) PROVE x \in Held(q)'
      BY <1>0, <3>2
    <3>3. ASSUME NEW m \in published, m > k, claims[m].at = x, ~(m > l) PROVE x \in Held(r)'
      <4>1. m \in Claims /\ Live(m)
        BY DEF OwnInv, Live
      <4>2. m = l /\ s = "copy"
        BY <3>3, <4>1, ClaimIs
      <4>3. Way(x) + claims[l].n = Way(p) /\ claims[l].n \in 1..EleCount /\ Way(x) \in 0..EleCount
        BY <1>c, <3>3, <4>1, <4>2
      <4>4. Way(x) < Way(p)
        BY <1>2, <4>3
      <4> QED
        BY <1>b, <4>4
    <3> QED
      BY <3>1, <3>2, <3>3
  <2>2. ASSUME NEW m \in published, m > l
        PROVE  node[claims[m].at].start_token = "has_data" /\ Filled(m)
    <3>1. m > k
      BY <1>m, <2>2 DEF OwnInv
    <3> QED
      BY <3>1 DEF Good, Ring, TokenInv
  <2> QED
    BY <1>f, <1>u, <2>1, <2>2 DEF TokenInv
<1>9. WalkInv(l)'
  <2> SUFFICES ASSUME NEW q \in Readers, q \notin outrun',
                      pc'[q] \in {"look", "recheck", "need", "take"}
               PROVE  FALSE
    BY DEF WalkInv, WalkOf
  <2>1. q # r /\ pc[q] \in {"look", "recheck", "need", "take"}
    BY <1>0
  <2> QED
    BY <2>1
<1>t. \A q \in Readers : Taken(q)' = Taken(q) /\ Returned(q)' = Returned(q)
  BY <1>u DEF Taken, Returned
<1>a. \A q \in Readers : Returned(q) \subseteq 1..k
  BY DEF Good, Ring, PastInv
<1>o. ASSUME NEW q \in Readers \ {r}, pc[q] = "copy" PROVE Taken(q) <= k /\ Taken(q) \in Claims
  BY <1>o DEF Good, Ring, CopyInv, CopyOf, OwnInv
<1>l. ASSUME s = "copy"
      PROVE  Taken(r) = l /\ l \in Claims /\ Filled(l)
  <2>1. l \in Claims /\ Filled(l)
    BY <1>l DEF Good, Ring, TokenInv, OwnInv
  <2>2. claims[l].n \in 1..EleCount /\ claims[l].at \in Positions
    BY <2>1, ClaimIs
  <2>3. 1 \in 1..claims[l].n /\ claims[l].at + 1 - 1 = claims[l].at
    BY <2>2 DEF Positions
  <2>4. node[claims[l].at].msg = l
    BY <2>1, <2>3 DEF Filled
  <2> QED
    BY <1>l, <2>1, <2>4 DEF Taken
<1>10. CopyInv(l)'
  <2>1. ASSUME NEW q \in Readers \ {r}, pc[q] = "copy" PROVE CopyOf(q, l)'
    <3>1. CopyOf(q, k) /\ Taken(q) <= k /\ Taken(q) \in Claims
      BY <1>o, <2>1 DEF Good, Ring, CopyInv
    <3>2. Taken(q) <= l /\ (s = "copy" => Taken(q) # Taken(r))
      BY <1>l, <3>1, ClaimIs
    <3>3. \A m : Nodes(m)' = Nodes(m)
      BY <1>u DEF Nodes
    <3>4. PICK t : t = Taken(q)
      OBVIOUS
    <3>5. Taken(q)' = t /\ (Filled(t)' <=> Filled(t)) /\ Nodes(t)' = Nodes(t) /\ head'[q] = head[q]
      BY <1>f, <1>t, <1>u, <3>3, <3>4
    <3>6. \A u \in Readers : pc'[u] = "copy" => pc[u] = "copy" \/ (u = r /\ s = "copy")
      BY <1>0
    <3> QED
      BY <1>0, <1>t, <1>u, <2>1, <3>1, <3>2, <3>4, <3>5, <3>6 DEF CopyOf
  <2>2. ASSUME s = "copy" PROVE CopyOf(r, l)'
    <3>1. Taken(r)' = l /\ l \in Claims /\ Filled(l)'
      BY <1>f, <1>l, <1>t, <2>2
    <3>2. /\ claims[l].at \in Positions /\ claims[l].n \in 1..EleCount
          /\ claims[l].at + claims[l].n <= EleCount /\ Way(claims[l].at) \in 0..EleCount
          /\ \A i \in 0..claims[l].n - 1 :
               claims[l].at + i \in Positions /\ Way(claims[l].at + i) = Way(claims[l].at) + i
      BY <1>c, <2>2, <3>1
    <3>3. Nodes(l)' \subseteq Held(r)'
      <4> SUFFICES ASSUME NEW x \in claims[l].at..claims[l].at + claims[l].n - 1
                   PROVE  x \in Positions /\ Way(x) < Way(p)
        BY <1>b, <1>u DEF Nodes
      <4> DEFINE i == x - claims[l].at
      <4>0. claims[l].at \in Int /\ claims[l].n \in Int
        BY <3>2 DEF Positions
      <4>1. i \in 0..claims[l].n - 1 /\ claims[l].at + i = x
        BY <4>0, SMTT(40)
      <4>2. x \in Positions /\ Way(x) = Way(claims[l].at) + i
        BY <3>2, <4>1
      <4> QED
        BY <1>2, <2>2, <3>2, <4>1, <4>2, SMTT(40)
    <3>4. /\ \A j \in Returned(r) : j < l
          /\ \A q \in Readers : l \notin Returned(q)
      <4>1. \A q \in Readers : \A j \in Returned(q) : j < l
        BY <1>a, <2>2
      <4> QED
        BY <4>1
    <3>5. \A q \in Readers \ {r} : pc'[q] = "copy" => Taken(q)' # l
      <4> SUFFICES ASSUME NEW q \in Readers \ {r}, pc[q] = "copy" PROVE Taken(q) # l
        BY <1>0, <1>t
      <4> QED
        BY <1>o, <2>2, ClaimIs
    <3>6. /\ head'[r] = claims[l].at /\ new_head'[r] = head[r] + claims[l].n
          /\ new_head'[r] <= EleCount
      BY <1>u, <2>2, <3>2
    <3>7. l \in published' /\ l <= l
      BY <1>u, <2>2
    <3> QED
      BY <1>t, <1>u, <3>1, <3>3, <3>4, <3>5, <3>6, <3>7 DEF CopyOf
  <2>3. \A q \in Readers \ {r} : pc'[q] = pc[q]
    BY <1>0
  <2> QED
    BY <1>0, <2>1, <2>2, <2>3 DEF CopyInv, CopyOf
<1>11. PastInv(l)'
  <2>1. \A q \in Readers : Returned(q)' \subseteq 1..l
    BY <1>a, <1>t
  <2>2. ASSUME NEW m \in published, m <= l
        PROVE  \E q \in Readers : m \in Returned(q)' \/ (pc'[q] = "copy" /\ Taken(q)' = m)
    <3>1. m \in Claims /\ Live(m)
      BY DEF OwnInv, Live
    <3>2. CASE m <= k
      <4>1. PICK q \in Readers : m \in Returned(q) \/ (pc[q] = "copy" /\ Taken(q) = m)
        BY <3>2 DEF Good, Ring, PastInv
      <4>2. pc[q] = "copy" => pc'[q] = "copy"
        BY <1>0
      <4> QED
        BY <1>t, <4>1, <4>2
    <3>3. CASE m > k
      <4>1. m = l /\ s = "copy"
        BY <2>2, <3>1, <3>3
      <4> QED
        BY <1>0, <1>l, <1>t, <4>1
    <3> QED
      BY <3>1, <3>2, <3>3, ClaimIs
  <2> QED
    BY <1>u, <2>1, <2>2 DEF PastInv
<1> QED
  BY <1>u, <1>4, <1>5, <1>6, <1>7, <1>8, <1>9, <1>10, <1>11 DEF Good, Ring

LEMMA TakeGood ==
  ASSUME TypeOK, OwnInv, NEW k \in Nat, Good(k), NEW r \in Readers, Take(r), CasHead(r),
         blame' = {}
  PROVE  \E l \in 0..Len(claims') : Good(l)'
<1> USE Kinds
<1>1. PICK p \in Positions : p = new_head[r]
  BY DEF TypeOK
<1>0. /\ pc[r] = "take" /\ head_pos = old_head[r] /\ Go(r, "copy") /\ head_pos' = p
      /\ outrun' = (outrun \cup {q \in Readers : pc[q] \notin {"idle", "copy", "reset"}}) \ {r}
      /\ r \notin outrun
      /\ UNCHANGED <<old_head, head, tail_pos, node, putLocals, rw_conflict, new_head,
                     claims, published, got>>
  BY <1>1 DEF Take, CasHead, MoveHead
<1>2. /\ head[r] \in Positions /\ Way(head[r]) \in 0..EleCount /\ Way(tail_pos) \in 0..EleCount
      /\ \A j \in k + 1..Len(claims) : Live(j) => Way(head[r]) <= Way(claims[j].at)
      /\ new_head[r] = Add(head[r], node[head[r]].need)
  BY <1>0, WalkIs
<1>3. PICK m \in published : m > k /\ claims[m].at = head[r]
  BY <1>0, HeadToken
<1>4. m \in Claims /\ Filled(m) /\ Len(claims) \in Nat
  BY <1>3 DEF Good, Ring, TokenInv, OwnInv, TypeOK
<1>k. OrderInv(k)
  BY DEF Good, Ring
<1> DEFINE at == claims[m].at
           n == claims[m].n
<1>5. /\ at \in Positions /\ n \in 1..EleCount /\ at + n <= EleCount
      /\ Way(at) \in 0..EleCount
      /\ Way(at) + n <= Way(tail_pos)
      /\ \A j \in Claims : j > m => Way(at) + n <= Way(claims[j].at)
  BY <1>3, <1>4, <1>k, RingClaim
<1>6. at = head[r] /\ node[head[r]].need = n
  BY <1>3, <1>4 DEF Filled
<1> HIDE DEF at, n
<1>7. p = at + n /\ Way(p) = Way(at) + n
  <2>1. Dist(head_pos, at) + n <= EleCount /\ n \in Nat /\ head_pos \in Positions
    <3>1. head_pos \in Positions /\ EleCount \in Nat
      BY SizesAssumption DEF TypeOK
    <3>2. Way(at) + n <= EleCount
      BY <1>2, <1>5, <3>1
    <3> QED
      BY <1>5, <3>1, <3>2 DEF Way
  <2>2. Add(at, n) = at + n /\ Dist(head_pos, Add(at, n)) = Dist(head_pos, at) + n
    BY <1>5, <2>1, DistAdd
  <2> QED
    BY <1>1, <1>2, <1>6, <2>2 DEF Way
<1>8. Way(p) > 0 /\ Way(p) <= Way(tail_pos)
  BY <1>5, <1>7
<1>9. \A j \in Claims : j > m => Way(p) <= Way(claims[j].at)
  BY <1>5, <1>7
<1>10. ASSUME NEW j \in Claims, j > k, j <= m, Live(j) PROVE j = m
  <2> SUFFICES ASSUME j < m PROVE FALSE
    BY <1>4, <1>10, ClaimIs
  <2>1. /\ Way(claims[j].at) + claims[j].n <= Way(claims[m].at) /\ claims[j].n \in 1..EleCount
        /\ Way(claims[j].at) \in 0..EleCount
    BY <1>4, <1>10, <1>k, RingClaim
  <2>2. j \in k + 1..Len(claims)
    BY <1>10 DEF Claims
  <2>3. Way(head[r]) <= Way(claims[j].at)
    BY <1>2, <1>10, <2>2
  <2> QED
    BY <1>2, <1>3, <2>1, <2>3
<1>11. ASSUME NEW v \in Writers, pc[v] = "skip" PROVE Way(p) <= Way(old_tail[v])
  <2>1. PICK j \in Claims \ published : claims[j].by = v
    BY <1>11 DEF OwnInv, Busy
  <2>2. j > k /\ \A i \in k + 1..j - 1 : Way(claims[i].at) + claims[i].n <= Way(old_tail[v])
    BY <1>11, <2>1 DEF Good, Ring, WriteInv, Busy
  <2>3. Live(j)
    BY <1>11, <2>1 DEF Live, Busy
  <2>4. j # m /\ j > m
    BY <1>4, <1>10, <2>1, <2>2, <2>3, ClaimIs
  <2>5. m \in k + 1..j - 1
    BY <1>3, <1>4, <2>4, ClaimIs
  <2> QED
    BY <1>7, <2>2, <2>5 DEF at, n
<1>12. Moves(r, "copy")
  BY <1>0, GoMoves
<1>13. m \in 0..Len(claims) /\ m >= k
  BY <1>3, <1>4 DEF Claims
<1>14. /\ m > k /\ m \in published /\ claims[m].at = head[r]
       /\ Way(claims[m].at) + claims[m].n = Way(p) /\ p = claims[m].at + claims[m].n
  BY <1>3, <1>7 DEF at, n
<1>15. UNCHANGED <<tail_pos, node, putLocals, old_head, head, claims, published, got>>
       /\ new_head'[r] = p /\ \A q \in Readers \ {r} : new_head'[q] = new_head[q]
  BY <1>0, <1>1
<1>16. Good(m)'
  BY <1>0, <1>8, <1>9, <1>10, <1>11, <1>12, <1>13, <1>14, <1>15, HeadMoves
<1> QED
  BY <1>0, <1>13, <1>16

\* Between head_pos and tail_pos nothing was left that mq_get must not miss.
LEMMA TailGood ==
  ASSUME TypeOK, OwnInv, NEW k \in Nat, Good(k), NEW r \in Readers, AtTail(r),
         head[r] # old_head[r], head_pos = old_head[r], blame' = {}
  PROVE  \E l \in 0..Len(claims') : Good(l)'
<1> USE Kinds
<1>1. PICK p \in Positions : p = head[r]
  BY DEF TypeOK
<1>0. /\ pc[r] = "look" /\ p = tail_pos /\ Go(r, "reset") /\ head_pos' = p
      /\ outrun' = (outrun \cup {q \in Readers : pc[q] \notin {"idle", "copy", "reset"}}) \ {r}
      /\ r \notin outrun
      /\ new_head' = [new_head EXCEPT ![r] = p]
      /\ UNCHANGED <<old_head, head, tail_pos, node, putLocals, rw_conflict,
                     claims, published, got>>
  BY <1>1 DEF AtTail, MoveHead
<1>2. /\ Way(tail_pos) \in 0..EleCount
      /\ \A j \in k + 1..Len(claims) : Live(j) => Way(head[r]) <= Way(claims[j].at)
  BY <1>0, WalkIs
<1>3. head_pos \in Positions /\ tail_pos \in Positions /\ Len(claims) \in Nat
      /\ k \in 0..Len(claims) /\ OrderInv(k)
  BY DEF TypeOK, Good, Ring
<1>4. Way(p) > 0 /\ Way(p) <= Way(tail_pos)
  <2>1. Dist(head_pos, p) # 0
    BY <1>1, <1>3, DistIs
  <2> QED
    BY <1>0, <1>2, <2>1 DEF Way
<1>5. ASSUME NEW j \in Claims, j > k, Live(j) PROVE FALSE
  <2>1. /\ Way(claims[j].at) + claims[j].n <= Way(tail_pos) /\ claims[j].n \in 1..EleCount
        /\ Way(claims[j].at) \in 0..EleCount
    BY <1>3, <1>5, RingClaim
  <2>2. j \in k + 1..Len(claims)
    BY <1>3, <1>5 DEF Claims
  <2>3. Way(tail_pos) <= Way(claims[j].at)
    BY <1>0, <1>1, <1>2, <1>5, <2>2
  <2> QED
    BY <1>2, <2>1, <2>3
<1>6. ASSUME NEW v \in Writers, pc[v] = "skip" PROVE FALSE
  <2>1. PICK j \in Claims \ published : claims[j].by = v
    BY <1>6 DEF OwnInv, Busy
  <2>2. j > k /\ Live(j)
    BY <1>6, <2>1 DEF Good, Ring, WriteInv, Busy, Live
  <2> QED
    BY <1>5, <2>1, <2>2
<1>7. PICK l \in 0..Len(claims) : l = Len(claims) /\ l >= k
  BY <1>3
<1>8. \A j \in Claims : ~(j > l)
  BY <1>3, <1>7 DEF Claims
<1>9. Moves(r, "reset")
  BY <1>0, GoMoves
<1>10. new_head'[r] = p /\ \A q \in Readers \ {r} : new_head'[q] = new_head[q]
  BY <1>0 DEF TypeOK
<1>11. old_head[r] = head_pos
  OBVIOUS
<1>12. UNCHANGED <<tail_pos, node, putLocals, old_head, head, claims, published, got>>
  BY <1>0
<1>13. /\ \A j \in Claims : j > l => Way(p) <= Way(claims[j].at)
       /\ \A j \in Claims : j > k /\ j <= l /\ Live(j) => j = l /\ "reset" = "copy"
       /\ \A v \in Writers : pc[v] = "skip" => Way(p) <= Way(old_tail[v])
  BY <1>5, <1>6, <1>8
<1>14. Good(l)'
  BY <1>0, <1>4, <1>7, <1>9, <1>10, <1>11, <1>12, <1>13, HeadMoves
<1> QED
  BY <1>0, <1>14

-----------------------------------------------------------------------------
(* The whole program. *)

\* An accident is never forgotten.
LEMMA BlameStays ==
  ASSUME Next
  PROVE  blame \subseteq blame'
<1>1. ASSUME NEW w \in Writers, Put(w) \/ Die(w) PROVE blame \subseteq blame'
  BY <1>1 DEF Put, Die, Look, ClaimNodes, MarkSkipped, Fill, SetToken, history, unmoved
<1>2. ASSUME NEW r \in Readers, Read(r) PROVE blame \subseteq blame'
  BY <1>2 DEF Read, Get, AtTail, AtNode, Recheck, ReadNeed, Take, Copy, ResetToken, MoveHead,
              Skip, history, unmoved
<1> QED
  BY <1>1, <1>2 DEF Next

LEMMA GoodStep ==
  ASSUME TypeOK, OwnInv, GotType, NEW k \in Nat, Good(k), Sane, Next, blame' = {}
  PROVE  \E l \in 0..Len(claims') : Good(l)'
<1>0. ASSUME Good(k)' PROVE \E l \in 0..Len(claims') : Good(l)'
  <2>1. k \in 0..Len(claims')
    BY <1>0 DEF Good, Ring
  <2> QED
    BY <1>0, <2>1
<1>1. ASSUME NEW w \in Writers, Put(w) PROVE Good(k)'
  <2>1. CASE ClaimNodes(w)
    BY <2>1, ClaimGood, ClaimFailsGood
  <2> QED
    BY <1>1, <2>1, LookGood, MarkGood, FillGood, SetTokenGood DEF Put
<1>2. ASSUME NEW w \in Writers, Die(w) PROVE Good(k)'
  BY <1>2, DieGood
<1>3. ASSUME NEW r \in Readers, Read(r) PROVE \E l \in 0..Len(claims') : Good(l)'
  <2>1. CASE Take(r) /\ CasHead(r)
    BY <2>1, TakeGood
  <2>2. CASE AtTail(r) /\ head[r] # old_head[r] /\ head_pos = old_head[r]
    BY <2>2, TailGood
  <2>3. CASE Copy(r)
    BY <1>0, <2>3, CopyGood
  <2>4. CASE ResetToken(r)
    BY <1>0, <2>4, ResetGood
  <2>5. CASE \/ Get(r) \/ AtNode(r) \/ Recheck(r) \/ ReadNeed(r)
             \/ AtTail(r) /\ ~(head[r] # old_head[r] /\ head_pos = old_head[r])
             \/ Take(r) /\ ~CasHead(r)
    BY <1>0, <2>5, WalkGood
  <2> QED
    BY <1>3, <2>1, <2>2, <2>3, <2>4, <2>5 DEF Read
<1> QED
  BY <1>0, <1>1, <1>2, <1>3 DEF Next

\* What has been returned was published, and stays so.
LEMMA GotKept ==
  ASSUME TypeOK, OwnInv, GotType, Whole, InOrder, got' = got,
         published \subseteq published', \A m \in Claims : claims'[m] = claims[m]
  PROVE  GotType' /\ Whole' /\ InOrder'
<1>1. \A m \in published : Bytes(m)' = Bytes(m)
  BY DEF OwnInv, Bytes
<1>2. Whole'
  <2> SUFFICES ASSUME NEW r \in Readers, NEW i \in 1..Len(got[r])
               PROVE  \E m \in published' : got[r][i] = Bytes(m)'
    BY DEF Whole
  <2>1. PICK m \in published : got[r][i] = Bytes(m)
    BY DEF Whole
  <2> QED
    BY <1>1, <2>1
<1>3. \A r \in Readers : Returned(r)' = Returned(r)
  BY DEF Returned
<1>4. InOrder'
  BY <1>3 DEF InOrder
<1>5. GotType'
  BY DEF GotType
<1> QED
  BY <1>2, <1>4, <1>5

LEMMA GotCopied ==
  ASSUME TypeOK, OwnInv, GotType, Whole, InOrder, NEW r \in Readers, NEW t \in published,
         claims[t].n \in 1..EleCount, UNCHANGED <<claims, published>>,
         got' = [got EXCEPT ![r] = Append(@, Bytes(t))],
         \A j \in Returned(r) : j < t, \A q \in Readers : t \notin Returned(q)
  PROVE  GotType' /\ Whole' /\ InOrder'
<1> DEFINE n == Len(got[r])
<1>1. t \in Nat /\ EleCount \in Nat
  BY ClaimIs, SizesAssumption DEF OwnInv
<1>2. Bytes(t) \in Seq(Nat \X Nat) /\ Bytes(t)[1][1] = t
  <2>1. PICK c : c = claims[t].n
    OBVIOUS
  <2>2. Bytes(t) = [i \in 1..c |-> <<t, i>>] /\ c \in Nat /\ 1 \in 1..c
    BY <1>1, <2>1 DEF Bytes
  <2>3. \A i \in 1..c : <<t, i>> \in Nat \X Nat
    BY <1>1
  <2> QED
    BY <2>2, <2>3
<1>3. /\ got'[r] = Append(got[r], Bytes(t)) /\ got[r] \in Seq(Seq(Nat \X Nat))
      /\ \A q \in Readers \ {r} : got'[q] = got[q]
  BY DEF GotType
<1>4. /\ Len(got'[r]) = n + 1 /\ n \in Nat /\ got'[r][n + 1] = Bytes(t)
      /\ \A i \in 1..n : got'[r][i] = got[r][i]
  BY <1>3
<1>5. GotType'
  BY <1>2, <1>3 DEF GotType
<1>6. \A m : Bytes(m)' = Bytes(m)
  BY DEF Bytes
<1>7. Whole'
  <2> SUFFICES ASSUME NEW q \in Readers, NEW i \in 1..Len(got'[q])
               PROVE  \E m \in published : got'[q][i] = Bytes(m)
    BY <1>6 DEF Whole
  <2>1. CASE q = r /\ i = n + 1
    BY <1>4, <2>1
  <2>2. CASE q = r /\ i # n + 1
    <3>1. i \in 1..n
      BY <1>4, <2>2
    <3> QED
      BY <1>4, <2>2, <3>1 DEF Whole
  <2>3. CASE q # r
    BY <1>3, <2>3 DEF Whole
  <2> QED
    BY <2>1, <2>2, <2>3
<1>8. Returned(r)' = Returned(r) \cup {t} /\ \A q \in Readers \ {r} : Returned(q)' = Returned(q)
  <2>1. Returned(r)' = Returned(r) \cup {t}
    BY <1>3, ReturnedIs
  <2>2. \A q \in Readers \ {r} : Returned(q)' = Returned(q)
    BY <1>3 DEF Returned
  <2> QED
    BY <2>1, <2>2
<1>9. InOrder'
  <2>1. ASSUME NEW q \in Readers, NEW i \in 1..Len(got'[q]), NEW j \in 1..Len(got'[q]), i < j
        PROVE  got'[q][i][1][1] < got'[q][j][1][1]
    <3>1. CASE q # r
      BY <1>3, <2>1, <3>1 DEF InOrder
    <3>2. CASE q = r /\ j # n + 1
      <4>1. i \in 1..n /\ j \in 1..n
        BY <1>4, <2>1, <3>2
      <4>2. got[r][i][1][1] < got[r][j][1][1]
        BY <2>1, <4>1 DEF InOrder
      <4> QED
        BY <1>4, <3>2, <4>1, <4>2
    <3>3. CASE q = r /\ j = n + 1
      <4>1. i \in 1..n
        BY <1>4, <2>1, <3>3
      <4>2. got[r][i][1][1] \in Returned(r)
        BY <4>1 DEF Returned
      <4>3. got[r][i][1][1] < t
        BY <4>2
      <4> QED
        BY <1>2, <1>4, <3>3, <4>1, <4>3
    <3> QED
      BY <3>1, <3>2, <3>3
  <2>2. ASSUME NEW q \in Readers, NEW u \in Readers \ {q}
        PROVE  Returned(q)' \cap Returned(u)' = {}
    <3>1. Returned(q) \cap Returned(u) = {}
      BY DEF InOrder
    <3> QED
      BY <1>8, <3>1
  <2> QED
    BY <2>1, <2>2 DEF InOrder
<1> QED
  BY <1>5, <1>7, <1>9

LEMMA GotStep ==
  ASSUME IInv, Next
  PROVE  GotType' /\ Whole' /\ InOrder'
<1>0. TypeOK /\ OwnInv /\ GotType /\ Whole /\ InOrder
  BY DEF IInv
<1>1. CASE \E r \in Readers : Copy(r) /\ Sane
  <2>1. PICK r \in Readers : Copy(r) /\ Sane
    BY <1>1
  <2>2. PICK k \in 0..Len(claims) : Good(k)
    BY <2>1 DEF IInv
  <2>3. k \in Nat
    BY <1>0 DEF TypeOK
  <2>4. PICK t : t = Taken(r)
    OBVIOUS
  <2>5. /\ t \in published /\ claims[t].n \in 1..EleCount
        /\ got' = [got EXCEPT ![r] = Append(@, Bytes(t))]
        /\ \A j \in Returned(r) : j < t
        /\ \A q \in Readers : t \notin Returned(q)
    BY <1>0, <2>1, <2>2, <2>3, <2>4, CopyIs
  <2>6. UNCHANGED <<claims, published>>
    BY <2>1 DEF Copy
  <2> QED
    BY <1>0, <2>5, <2>6, GotCopied
<1>2. CASE ~(\E r \in Readers : Copy(r) /\ Sane)
  <2>1. ASSUME NEW w \in Writers, Put(w) \/ Die(w)
        PROVE  /\ got' = got /\ published \subseteq published'
               /\ \A m \in Claims : claims'[m] = claims[m]
    <3>1. got' = got /\ published \subseteq published'
      BY <2>1 DEF Put, Die, Look, ClaimNodes, MarkSkipped, Fill, SetToken, history, unmoved
    <3>2. \/ claims' = claims
          \/ claims' = Append(claims, Claim(idx[w], nr_nodes[w], w))
      BY <2>1 DEF Put, Die, Look, ClaimNodes, MarkSkipped, Fill, SetToken, history, unmoved
    <3>3. \A m \in Claims : claims'[m] = claims[m]
      BY <1>0, <3>2, ClaimAppended
    <3> QED
      BY <3>1, <3>3
  <2>2. ASSUME NEW r \in Readers, Read(r)
        PROVE  got' = got /\ UNCHANGED <<claims, published>>
    BY <1>2, <2>2 DEF Read, Get, AtTail, AtNode, Recheck, ReadNeed, Take, Copy, ResetToken,
                      history, unmoved, Sane
  <2>3. /\ got' = got /\ published \subseteq published'
        /\ \A m \in Claims : claims'[m] = claims[m]
    BY <2>1, <2>2 DEF Next
  <2> QED
    BY <1>0, <2>3, GotKept
<1> QED
  BY <1>1, <1>2

LEMMA InitInv == Init => IInv
<1> SUFFICES ASSUME Init PROVE IInv
  OBVIOUS
<1> USE Kinds
<1>0. 0 \in Positions /\ EleCount \in Nat /\ EleCount >= 1 /\ MaxMsgs \in Nat /\ MaxDeaths \in Nat
      /\ SQ_MAX_CONFLICT_TRIES \in Nat
  BY SizesAssumption DEF Positions
<1>1. /\ claims = <<>> /\ Len(claims) = 0 /\ Claims = {} /\ published = {}
      /\ \A r \in Readers : got[r] = <<>> /\ Len(got[r]) = 0 /\ Returned(r) = {}
  BY DEF Init, Claims, Returned
<1>2. TypeOK
  <2>1. node \in [Positions -> NodeType]
    <3>1. Unused \in NodeType
      BY <1>0 DEF Unused, NodeType
    <3> QED
      BY <3>1 DEF Init
  <2>2. claims \in Seq([at : Positions, n : 1..EleCount, by : Writers])
    BY <1>1
  <2> QED
    BY <1>0, <1>1, <2>1, <2>2 DEF Init, TypeOK, NodeType
<1>3. \A p \in Procs : pc[p] = "idle"
  BY DEF Init
<1>4. OwnInv
  BY <1>1, <1>3 DEF OwnInv, Busy
<1>5. GotType
  BY DEF Init, GotType
<1>6. Whole /\ InOrder
  BY <1>1 DEF Whole, InOrder
<1>7. RoomInv /\ HeldInv
  BY <1>3 DEF RoomInv, RoomOf, HeldInv
<1>8. Ring(0)
  <2>1. OrderInv(0)
    BY <1>1 DEF OrderInv
  <2>2. WriteInv(0)
    BY <1>1 DEF WriteInv
  <2>3. TokenInv(0)
    BY <1>1 DEF TokenInv, Init, Unused
  <2>4. WalkInv(0) /\ CopyInv(0)
    BY <1>3 DEF WalkInv, WalkOf, CopyInv, CopyOf
  <2>5. PastInv(0)
    BY <1>1 DEF PastInv
  <2> QED
    BY <1>1, <2>1, <2>2, <2>3, <2>4, <2>5 DEF Ring
<1> QED
  BY <1>1, <1>2, <1>4, <1>5, <1>6, <1>7, <1>8 DEF IInv, Good

LEMMA NextInv == IInv /\ [Next]_vars => IInv'
<1> SUFFICES ASSUME IInv, [Next]_vars PROVE IInv'
  OBVIOUS
<1>0. TypeOK /\ OwnInv /\ GotType /\ Whole /\ InOrder
  BY DEF IInv
<1>1. CASE Next
  <2>1. TypeOK' /\ OwnInv'
    BY <1>0, <1>1, TypeWriters, TypeReaders, OwnWriters, OwnReaders DEF Next
  <2>2. GotType' /\ Whole' /\ InOrder'
    BY <1>1, GotStep
  <2>3. ASSUME Sane' PROVE \E l \in 0..Len(claims') : Good(l)'
    <3>1. blame' = {} /\ Sane
      BY <1>1, <2>3, BlameStays DEF Sane
    <3>2. PICK k \in 0..Len(claims) : Good(k)
      BY <3>1 DEF IInv
    <3>3. k \in Nat
      BY <1>0 DEF TypeOK
    <3> QED
      BY <1>0, <1>1, <3>1, <3>2, <3>3, GoodStep
  <2> QED
    BY <2>1, <2>2, <2>3 DEF IInv
<1>2. CASE UNCHANGED vars
  <2> USE DEF vars, file, putLocals, getLocals, history, unmoved
  <2>1. TypeOK'
    BY <1>0, <1>2 DEF TypeOK
  <2>2. OwnInv' /\ GotType'
    BY <1>0, <1>2 DEF OwnInv, GotType, Busy, Claims
  <2>u. /\ UNCHANGED <<claims, published, got, pc, node, head, new_head>>
        /\ \A r \in Readers : /\ Returned(r)' = Returned(r) /\ Taken(r)' = Taken(r)
                              /\ Held(r)' = Held(r)
        /\ \A m : Filled(m)' <=> Filled(m)
        /\ \A m : Nodes(m)' = Nodes(m)
    BY <1>2 DEF Returned, Taken, Held, Filled, Nodes
  <2>3. Whole' /\ InOrder'
    <3>1. \A m \in Claims : claims'[m] = claims[m]
      BY <1>2
    <3> QED
      BY <1>0, <2>u, <3>1, GotKept
  <2>4. ASSUME NEW k, Good(k) PROVE Good(k)'
    <3>1. RoomInv' /\ HeldInv'
      BY <1>2, <2>4 DEF Good, RoomInv, RoomOf, HeldInv, Held, Way
    <3>2. OrderInv(k)' /\ WriteInv(k)'
      BY <1>2, <2>4 DEF Good, Ring, OrderInv, WriteInv, Way, Busy, Filled, Claims
    <3>3. TokenInv(k)' /\ WalkInv(k)'
      BY <1>2, <2>4 DEF Good, Ring, TokenInv, WalkInv, WalkOf, Way, Busy, Filled, Live, Held
    <3>4. CopyInv(k)' /\ PastInv(k)'
      <4>1. PastInv(k)'
        BY <2>4, <2>u DEF Good, Ring, PastInv
      <4>2. ASSUME NEW r \in Readers, pc[r] = "copy" PROVE CopyOf(r, k)'
        <5>1. PICK t : t = Taken(r)
          OBVIOUS
        <5>2. CopyOf(r, k)
          BY <2>4 DEF Good, Ring, CopyInv
        <5>3. Taken(r)' = t /\ (Filled(t)' <=> Filled(t)) /\ Nodes(t)' = Nodes(t)
          BY <2>u, <5>1
        <5> QED
          BY <2>u, <4>2, <5>1, <5>2, <5>3 DEF CopyOf
      <4>3. CopyInv(k)'
        BY <2>u, <4>2 DEF CopyInv, CopyOf
      <4> QED
        BY <4>1, <4>3
    <3> QED
      BY <1>2, <2>4, <3>1, <3>2, <3>3, <3>4 DEF Good, Ring
  <2>5. Sane' => \E k \in 0..Len(claims') : Good(k)'
    BY <1>2, <2>4 DEF IInv, Sane
  <2> QED
    BY <2>1, <2>2, <2>3, <2>5 DEF IInv
<1> QED
  BY <1>1, <1>2

LEMMA Invariant == Spec => []IInv
<1>1. Init => IInv
  BY InitInv
<1>2. IInv /\ [Next]_vars => IInv'
  BY NextInv
<1> QED
  BY <1>1, <1>2, PTL DEF Spec

\* A published message has been returned, is being copied, or is where it was put.
LEMMA KeptHolds == IInv => Kept
<1> SUFFICES ASSUME IInv, Sane, NEW m \in published
             PROVE  \/ \E r \in Readers :
                         \/ m \in Returned(r)
                         \/ pc[r] = "copy" /\ head[r] = claims[m].at
                    \/ /\ Nodes(m) \subseteq Between(head_pos, tail_pos)
                       /\ node[claims[m].at].start_token = "has_data"
                       /\ node[claims[m].at].need = claims[m].n
                       /\ \A p \in Nodes(m) : node[p].msg = m
  BY DEF Kept
<1>0. TypeOK /\ OwnInv /\ m \in Claims
  BY DEF IInv, OwnInv
<1>1. PICK k \in 0..Len(claims) : Good(k)
  BY DEF IInv
<1>2. k \in Nat /\ OrderInv(k) /\ head_pos \in Positions /\ tail_pos \in Positions
  BY <1>0, <1>1 DEF TypeOK, Good, Ring
<1>3. CASE m <= k
  <2>1. PICK r \in Readers : m \in Returned(r) \/ (pc[r] = "copy" /\ Taken(r) = m)
    BY <1>1, <1>3 DEF Good, Ring, PastInv
  <2>2. pc[r] = "copy" /\ Taken(r) = m => head[r] = claims[m].at
    BY <1>1 DEF Good, Ring, CopyInv, CopyOf
  <2> QED
    BY <2>1, <2>2
<1>4. CASE m > k
  <2>1. /\ claims[m].at \in Positions /\ claims[m].n \in 1..EleCount
        /\ Way(claims[m].at) \in 0..EleCount /\ Way(tail_pos) \in 0..EleCount
        /\ Way(claims[m].at) + claims[m].n <= Way(tail_pos)
        /\ \A i \in 0..claims[m].n - 1 :
             claims[m].at + i \in Positions /\ Way(claims[m].at + i) = Way(claims[m].at) + i
    BY <1>0, <1>2, <1>4, RingClaim
  <2>2. node[claims[m].at].start_token = "has_data" /\ Filled(m)
    BY <1>1, <1>4 DEF Good, Ring, TokenInv
  <2>3. ASSUME NEW p \in Nodes(m)
        PROVE  p \in Between(head_pos, tail_pos) /\ node[p].msg = m
    <3>0. claims[m].at \in Int /\ claims[m].n \in Int
      BY <2>1 DEF Positions
    <3>1. PICK i \in 0..claims[m].n - 1 : p = claims[m].at + i
      <4>1. p - claims[m].at \in 0..claims[m].n - 1 /\ p = claims[m].at + (p - claims[m].at)
        BY <3>0, SMTT(40) DEF Nodes
      <4> QED
        BY <4>1
    <3>2. p \in Positions /\ Way(p) < Way(tail_pos)
      BY <2>1, <3>0, <3>1, SMTT(40)
    <3>3. p \in Between(head_pos, tail_pos)
      BY <1>2, <3>2, BetweenIs DEF Way
    <3>4. i + 1 \in 1..claims[m].n /\ claims[m].at + (i + 1) - 1 = p
      BY <3>0, <3>1
    <3>5. node[p].msg = m
      BY <2>2, <3>4 DEF Filled
    <3> QED
      BY <3>3, <3>5
  <2> QED
    BY <2>2, <2>3 DEF Filled
<1> QED
  BY <1>0, <1>2, <1>3, <1>4, ClaimIs

LEMMA NoStaleTokenHolds == IInv => NoStaleToken
<1> SUFFICES ASSUME IInv, Sane, NEW p \in Positions \ Between(head_pos, tail_pos),
                    node[p].start_token = "has_data"
             PROVE  \E r \in Readers : p \in Held(r)
  BY DEF NoStaleToken
<1>0. TypeOK /\ OwnInv
  BY DEF IInv
<1>1. PICK k \in 0..Len(claims) : Good(k)
  BY DEF IInv
<1>2. k \in Nat /\ OrderInv(k) /\ head_pos \in Positions /\ tail_pos \in Positions
  BY <1>0, <1>1 DEF TypeOK, Good, Ring
<1>3. ASSUME NEW m \in published, m > k, claims[m].at = p PROVE FALSE
  <2>1. /\ claims[m].n \in 1..EleCount
        /\ Way(p) \in 0..EleCount /\ Way(tail_pos) \in 0..EleCount
        /\ Way(p) + claims[m].n <= Way(tail_pos)
    BY <1>0, <1>2, <1>3, RingClaim DEF OwnInv
  <2>2. Way(p) < Way(tail_pos)
    BY <2>1
  <2> QED
    BY <1>2, <2>2, BetweenIs DEF Way
<1> QED
  BY <1>1, <1>3 DEF Good, Ring, TokenInv

LEMMA ExclusiveHolds == IInv => Exclusive
<1> SUFFICES ASSUME IInv, Sane, NEW w \in Writers, Busy(w)
             PROVE  /\ Nodes(Own(w)) \subseteq Between(head_pos, tail_pos)
                    /\ \A v \in Writers \ {w} : Busy(v) => Nodes(Own(w)) \cap Nodes(Own(v)) = {}
                    /\ \A r \in Readers : Nodes(Own(w)) \cap Held(r) = {}
  BY DEF Exclusive
<1>0. TypeOK /\ OwnInv
  BY DEF IInv
<1>1. PICK k \in 0..Len(claims) : Good(k)
  BY DEF IInv
<1>2. k \in Nat /\ OrderInv(k) /\ head_pos \in Positions /\ tail_pos \in Positions
  BY <1>0, <1>1 DEF TypeOK, Good, Ring
<1>o. ASSUME NEW v \in Writers, Busy(v)
      PROVE  Own(v) \in Claims /\ Own(v) > k /\ claims[Own(v)].by = v
  BY <1>0, <1>1, <1>o, OwnIs DEF Good, Ring, WriteInv
<1>3. PICK m \in Claims : m = Own(w) /\ m > k /\ claims[m].by = w
  BY <1>o
<1>4. /\ claims[m].at \in Positions /\ claims[m].n \in 1..EleCount
      /\ Way(claims[m].at) \in 0..EleCount /\ Way(tail_pos) \in 0..EleCount
      /\ Way(claims[m].at) + claims[m].n <= Way(tail_pos)
      /\ \A i \in 0..claims[m].n - 1 :
           claims[m].at + i \in Positions /\ Way(claims[m].at + i) = Way(claims[m].at) + i
  BY <1>0, <1>2, <1>3, RingClaim
<1>5. claims[m].at \in Int /\ claims[m].n \in Int
  BY <1>4 DEF Positions
<1>6. \A p \in Nodes(m) : \E i \in 0..claims[m].n - 1 : p = claims[m].at + i
  <2> TAKE p \in Nodes(m)
  <2>1. p - claims[m].at \in 0..claims[m].n - 1 /\ p = claims[m].at + (p - claims[m].at)
    BY <1>5, SMTT(40) DEF Nodes
  <2> QED
    BY <2>1
<1>7. \A p \in Nodes(m) : p \in Positions /\ Way(p) < Way(tail_pos) /\ Way(p) \in Int
  <2> TAKE p \in Nodes(m)
  <2>1. PICK i \in 0..claims[m].n - 1 : p = claims[m].at + i
    BY <1>6
  <2> QED
    BY <1>4, <1>5, <2>1, SMTT(40)
<1>8. Nodes(m) \subseteq Between(head_pos, tail_pos)
  BY <1>2, <1>7, BetweenIs DEF Way
<1>9. ASSUME NEW v \in Writers \ {w}, Busy(v) PROVE Nodes(m) \cap Nodes(Own(v)) = {}
  <2>1. PICK j \in Claims : j = Own(v) /\ j > k /\ claims[j].by = v
    BY <1>9, <1>o
  <2>2. m # j
    BY <1>3, <2>1
  <2>3. \A i \in 0..claims[m].n - 1 : claims[m].at + i \notin Nodes(j)
    BY <1>0, <1>2, <1>3, <2>1, <2>2, RingApart
  <2> QED
    BY <1>6, <2>1, <2>3
<1>10. ASSUME NEW r \in Readers PROVE Nodes(m) \cap Held(r) = {}
  <2> SUFFICES ASSUME NEW p \in Nodes(m), p \in Held(r) PROVE FALSE
    OBVIOUS
  <2>1. Way(p) >= Way(tail_pos)
    BY <1>1 DEF Good, HeldInv, Held
  <2> QED
    BY <1>4, <1>7, <2>1
<1> QED
  BY <1>3, <1>8, <1>9, <1>10

-----------------------------------------------------------------------------
(* The theorems. *)

\* Types: positions stay in the ring, the retry counter of mq_get in its bound, and
\* every claim has a node and a length that fit the ring.
THEOREM TypeCorrect == Spec => []TypeOK
<1>1. IInv => TypeOK
  BY DEF IInv
<1> QED
  BY <1>1, Invariant, PTL

\* What mq_get returns, up to the first accident, is all of one message that was put into
\* the queue with its own length, with any number of readers and writers.
THEOREM WholeReturned == Spec => []Whole
<1>1. IInv => Whole
  BY DEF IInv
<1> QED
  BY <1>1, Invariant, PTL

\* Messages come once, to one reader, and to each reader in the order in which the
\* writers got their nodes.
THEOREM OrderReturned == Spec => []InOrder
<1>1. IInv => InOrder
  BY DEF IInv
<1> QED
  BY <1>1, Invariant, PTL

\* Until an accident the ring keeps every message that was put into it until mq_get
\* returns it, shows no token that was read before, and gives each node to one process.
THEOREM RingKept == Spec => []RingHolds
<1>1. IInv => RingHolds
  BY KeptHolds, NoStaleTokenHolds, ExclusiveHolds DEF RingHolds
<1> QED
  BY <1>1, Invariant, PTL
=============================================================================
