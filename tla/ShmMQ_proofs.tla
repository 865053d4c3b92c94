---------------------------- MODULE ShmMQ_proofs ----------------------------
(***************************************************************************)
(* The shared-memory queue, for every size of the block, any number of     *)
(* workers, messages and deaths.                                           *)
(*                                                                         *)
(* Memory safety holds whichever processes are killed when: no position    *)
(* outside the block is read or written, although *tail_ itself may be out *)
(* of range after the proxy has cleared the queue under a worker's hands.  *)
(*                                                                         *)
(* As long as the proxy lives nothing clears the queue, and it holds what  *)
(* it ought to: messages come out whole, once, and in the order in which   *)
(* they were sent; msg_count is right until the first death; and the queue *)
(* implements a FIFO channel if it is only producers that die.             *)
(***************************************************************************)
EXTENDS ShmMQ, SequenceTheorems, FiniteSetTheorems, WellFoundedInduction, TLAPS

\* A consumer that read a length too short for a message copies nothing.
ShortCopiesNothing ==
  \A c \in Consumers :
    pc[c] \in {"free", "check_end"} /\ rec[c] = TooShort => buf[c] = <<>>

IInv == TypeOK /\ InBounds /\ ShortCopiesNothing

\* The kinds of cells are told apart by their records.
LEMMA CellTypes ==
  /\ Zero \in Cells /\ Safe \in Cells
  /\ \A m \in Messages : [kind |-> "head", msg |-> m] \in Cells
  /\ \A m \in Messages, i \in 0..BlockSize : [kind |-> "data", msg |-> m, at |-> i] \in Cells
BY DEF Cells

\* Sizes of messages are natural numbers, and every cell of a message that
\* fits into the block is a cell.
LEMMA TotalNat ==
  ASSUME NEW m \in Messages
  PROVE  /\ m.len \in Nat /\ Total(m) \in Nat /\ Total(m) >= 3
         /\ DataLen(m) \in Nat /\ DataLen(m) = Total(m) - 2
<1>1. m.len \in DataLens \cup {0}
  BY DEF Messages
<1>2. DataLens \cup {0} \subseteq Nat
  BY SizesAssumption
<1>3. m.len \in Nat
  BY <1>1, <1>2, Zenon
<1> QED
  BY <1>3 DEF Total, DataLen, C_HEAD_SIZE, C_SAFE_AREA_LEN

LEMMA ReadNat ==
  ASSUME NEW m \in Messages \cup {TooShort}
  PROVE  /\ Total(m) \in Nat /\ Total(m) >= 2
         /\ DataLen(m) \in Nat /\ DataLen(m) = Total(m) - 2
<1>1. CASE m \in Messages
  BY <1>1, TotalNat
<1>2. CASE m = TooShort
  BY <1>2 DEF TooShort, Total, DataLen, C_HEAD_SIZE, C_SAFE_AREA_LEN
<1> QED
  BY <1>1, <1>2

LEMMA RecordCellType ==
  ASSUME NEW m \in Messages, Total(m) <= BlockSize, NEW i \in 0..Total(m) - 1
  PROVE  RecordCell(m, i) \in Cells
<1>1. i \in 0..BlockSize
  BY TotalNat, SizesAssumption
<1>2. CASE i = 0 \/ i = Total(m) - 1
  BY <1>2, CellTypes DEF RecordCell
<1>3. CASE i = 1 /\ ~(i = 0 \/ i = Total(m) - 1)
  BY <1>3, CellTypes DEF RecordCell
<1>4. CASE i # 1 /\ ~(i = 0 \/ i = Total(m) - 1)
  BY <1>1, <1>4, CellTypes DEF RecordCell
<1> QED
  BY <1>2, <1>3, <1>4

\* A step along the ring from a valid position by at most its size is valid.
LEMMA StepValid ==
  ASSUME NEW pos \in 0..BlockSize, NEW n \in 0..BlockSize
  PROVE  Step(pos, n) \in 0..BlockSize
BY SizesAssumption DEF Step

\* What is used or free between valid positions is no larger than the block.
LEMMA LensBounded ==
  ASSUME NEW hd \in 0..BlockSize, NEW tl \in 0..BlockSize
  PROVE  UsedLen(hd, tl) <= BlockSize /\ FreeLen(hd, tl) <= BlockSize
         /\ UsedLen(hd, tl) \in Int /\ FreeLen(hd, tl) \in Int
BY SizesAssumption DEF UsedLen, FreeLen

\* Values that pass do_check are positions of the ring.
LEMMA ValidRange ==
  ASSUME NEW hd \in 0..UIntSize - 1, NEW tl \in 0..UIntSize - 1, Valid(hd, tl)
  PROVE  hd \in 0..BlockSize /\ tl \in 0..BlockSize
BY SizesAssumption DEF Valid

LEMMA UIntRange ==
  ASSUME NEW n \in Int
  PROVE  UInt(n) \in 0..UIntSize - 1
BY SizesAssumption DEF UInt

\* Every index into the block is one of its cells.
LEMMA ModRange ==
  ASSUME NEW n \in Int
  PROVE  n % BlockSize \in 0..BlockSize - 1
BY SizesAssumption

LEMMA InitInv == Init => IInv
<1> SUFFICES ASSUME Init PROVE IInv
  OBVIOUS
<1>1. TypeOK
  <2>1. Nothing \in Messages
    <3>1. 0 \in 0..MaxMsgs
      BY SizesAssumption
    <3> QED
      BY <3>1, Zenon DEF Nothing, Messages
  <2>2. rec \in [Procs -> Messages \cup {TooShort}] /\ \A p \in Producers : rec[p] \in Messages
    BY <2>1 DEF Init, Procs
  <2>3. block \in [0..BlockSize - 1 -> Cells]
    BY CellTypes DEF Init
  <2>4. pc \in [Procs -> Steps]
    BY DEF Init, Steps
  <2>5. buf \in [Consumers -> Seq(Cells)] /\ got \in Seq(Messages)
    BY DEF Init
  <2>6. h \in [Procs -> 0..UIntSize - 1] /\ t \in [Procs -> 0..UIntSize - 1]
    BY SizesAssumption DEF Init
  <2>7. head \in 0..UIntSize - 1 /\ tail \in 0..UIntSize - 1 /\ count \in Int
    BY SizesAssumption DEF Init
  <2>f. fifo \in BOOLEAN
    BY Zenon DEF Init
  <2>8. made \in 0..MaxMsgs /\ deaths \in 0..MaxDeaths
    BY SizesAssumption DEF Init
  <2>9. pid \in Procs \cup {None, Dead} /\ plock \in Producers \cup {None} /\ clock \in Consumers \cup {None}
    BY DEF Init
  <2> QED
    BY <2>2, <2>3, <2>4, <2>5, <2>6, <2>7, <2>f, <2>8, <2>9 DEF TypeOK
<1>2. InBounds
  BY DEF Init, InBounds, Procs
<1>3. ShortCopiesNothing
  BY DEF Init, ShortCopiesNothing
<1> QED
  BY <1>1, <1>2, <1>3 DEF IInv

\* Leaving the queue, and rejecting values that are out of range, release locks
\* only and go on with a step that assumes nothing.
LEMMA LeaveType ==
  ASSUME TypeOK, NEW p \in Procs, Leave(p)
  PROVE  /\ plock' \in Producers \cup {None} /\ clock' \in Consumers \cup {None}
         /\ pc' \in [Procs -> Steps]
         /\ pc'[p] \in {"idle", "waiting"}
         /\ \A q \in Procs \ {p} : pc'[q] = pc[q]
BY DEF TypeOK, Leave, Release, Go, Rest, Steps

LEMMA RejectType ==
  ASSUME TypeOK, NEW p \in Procs, Reject(p)
  PROVE  /\ plock' \in Producers \cup {None} /\ clock' \in Consumers \cup {None}
         /\ pc' \in [Procs -> Steps]
         /\ pc'[p] \in {"idle", "waiting", "clear_pid"}
         /\ \A q \in Procs \ {p} : pc'[q] = pc[q]
<1>1. CASE pid \in {None, Dead}
  BY <1>1 DEF TypeOK, Reject, Go, Steps, locks
<1>2. CASE pid \notin {None, Dead}
  BY <1>2, LeaveType DEF Reject
<1> QED
  BY <1>1, <1>2

\* Steps that assume nothing about a process's positions.
Careless == {"idle", "head", "tail", "count", "notify", "awake", "waiting", "lock",
             "check_end", "recheck", "clear_pid", "clear_head", "clear_tail",
             "clear_done", "clear_count", "dead"}

\* A step of p that leaves the positions and the message of every process
\* alone, after which p assumes nothing, keeps all positions within the block.
LEMMA CarelessStep ==
  ASSUME InBounds, NEW p \in Procs,
         pc'[p] \in Careless, \A q \in Procs \ {p} : pc'[q] = pc[q],
         \A q \in Procs \ {p} : h'[q] = h[q] /\ t'[q] = t[q] /\ rec'[q] = rec[q]
  PROVE  InBounds'
BY DEF InBounds, Careless, Procs

LEMMA BothSteps ==
  ASSUME IInv, NEW p \in Procs, LoadHead(p) \/ Clear(p) \/ Die(p) \/ Start(p)
  PROVE  TypeOK' /\ InBounds'
<1> USE DEF IInv
<1>1. CASE LoadHead(p)
  <2>1. TypeOK'
    BY <1>1 DEF TypeOK, LoadHead, Go, Steps, shm, locks, bounded
  <2>2. InBounds'
    BY <1>1, CarelessStep DEF TypeOK, LoadHead, Go, Careless
  <2> QED
    BY <2>1, <2>2
<1>2. CASE Clear(p)
  <2>1. /\ head' \in {head, 0} /\ tail' \in {tail, 0} /\ pid' \in {pid, p, None}
        /\ count' \in {count, 0} /\ UNCHANGED <<block, fifo, locals, got, bounded>>
    BY <1>2 DEF Clear
  <2>2. /\ plock' \in Producers \cup {None} /\ clock' \in Consumers \cup {None}
        /\ pc' \in [Procs -> Steps] /\ pc'[p] \in Careless
        /\ \A q \in Procs \ {p} : pc'[q] = pc[q]
    <3>1. CASE pc[p] = "clear_count"
      BY <1>2, <3>1, LeaveType DEF Clear, Careless
    <3>2. CASE pc[p] # "clear_count"
      BY <1>2, <3>2 DEF Clear, TypeOK, Go, Steps, Careless, locks
    <3> QED
      BY <3>1, <3>2
  <2>3. TypeOK'
    BY <2>1, <2>2, SizesAssumption, SMTT(40) DEF TypeOK, locals, bounded
  <2>4. InBounds'
    BY <2>1, <2>2, CarelessStep DEF locals
  <2> QED
    BY <2>3, <2>4
<1>3. CASE Die(p)
  <2>1. TypeOK'
    BY <1>3, SizesAssumption DEF TypeOK, Die, Release, Go, Steps, locals
  <2>2. InBounds'
    BY <1>3, CarelessStep DEF TypeOK, Die, Go, Careless, locals
  <2> QED
    BY <2>1, <2>2
<1>4. CASE Start(p)
  <2>1. pc' \in [Procs -> Steps] /\ pc'[p] \in Careless /\ \A q \in Procs \ {p} : pc'[q] = pc[q]
    BY <1>4 DEF TypeOK, Start, Go, Steps, Careless
  <2>2. TypeOK'
    BY <1>4, <2>1 DEF TypeOK, Start, locals, locks, bounded
  <2>3. InBounds'
    BY <1>4, <2>1, CarelessStep DEF Start, locals
  <2> QED
    BY <2>2, <2>3
<1> QED
  BY <1>1, <1>2, <1>3, <1>4

LEMMA ProducerSteps ==
  ASSUME IInv, NEW p \in Producers, Produce(p) \/ Enqueue(p)
  PROVE  TypeOK' /\ InBounds'
<1> USE DEF IInv
<1>p. p \in Procs /\ p \notin Consumers
  BY ProcsAssumption DEF Procs
<1>m. /\ rec[p] \in Messages
      /\ h[p] \in 0..UIntSize - 1 /\ t[p] \in 0..UIntSize - 1
  BY <1>p DEF TypeOK
<1>1. CASE Produce(p)
  <2>1. /\ pc' \in [Procs -> Steps] /\ pc'[p] \in Careless
        /\ \A q \in Procs \ {p} : pc'[q] = pc[q]
    BY <1>1, <1>p DEF TypeOK, Produce, Go, Steps, Careless
  <2>2. made' \in 0..MaxMsgs
    BY <1>1, SizesAssumption DEF TypeOK, Produce
  <2>3. PICK len \in DataLens : rec' = [rec EXCEPT ![p] = [flow |-> made + 1, len |-> len]]
    BY <1>1 DEF Produce
  <2>4. [flow |-> made + 1, len |-> len] \in Messages
    <3>1. made + 1 \in 0..MaxMsgs
      BY <1>1, SizesAssumption DEF TypeOK, Produce
    <3> QED
      BY <3>1, Zenon DEF Messages
  <2>r. rec' \in [Procs -> Messages \cup {TooShort}] /\ \A q \in Producers : rec'[q] \in Messages
    BY <1>p, <2>3, <2>4 DEF TypeOK, Procs
  <2>l. plock' \in Producers \cup {None}
    BY <1>1 DEF TypeOK, Produce
  <2>5. TypeOK'
    BY <1>1, <2>1, <2>2, <2>r, <2>l DEF TypeOK, Produce, shm
  <2>6. InBounds'
    BY <1>1, <1>p, <2>1, <2>3, CarelessStep DEF TypeOK, Produce
  <2> QED
    BY <2>5, <2>6
<1>2. CASE LoadHead(p)
  BY <1>2, <1>p, BothSteps
<1>3. CASE LoadTailToWrite(p)
  <2>1. /\ plock' \in Producers \cup {None} /\ clock' \in Consumers \cup {None}
        /\ pc' \in [Procs -> Steps]
        /\ \A q \in Procs \ {p} : pc'[q] = pc[q]
        /\ \/ pc'[p] \in Careless
           \/ pc'[p] = "write_head" /\ Valid(h[p], tail) /\ ~IsFull(p, tail)
    <3>1. CASE ~Valid(h[p], tail)
      BY <1>3, <1>p, <3>1, RejectType DEF LoadTailToWrite, Careless
    <3>2. CASE Valid(h[p], tail) /\ IsFull(p, tail)
      BY <1>3, <1>p, <3>2, LeaveType DEF LoadTailToWrite, Careless
    <3>3. CASE Valid(h[p], tail) /\ ~IsFull(p, tail)
      BY <1>3, <1>p, <3>3 DEF LoadTailToWrite, TypeOK, Go, Steps, locks
    <3> QED
      BY <3>1, <3>2, <3>3
  <2>2. t' = [t EXCEPT ![p] = tail] /\ UNCHANGED <<shm, fifo, h, rec, buf, got, bounded>>
    BY <1>3 DEF LoadTailToWrite
  <2>3. TypeOK'
    BY <2>1, <2>2, <1>p DEF TypeOK, shm, bounded
  <2>4. InBounds'
    <3>1. CASE pc'[p] \in Careless
      BY <3>1, <2>1, <2>2, <1>p, CarelessStep DEF TypeOK
    <3>2. CASE pc'[p] = "write_head" /\ Valid(h[p], tail) /\ ~IsFull(p, tail)
      <4>1. h[p] \in 0..BlockSize /\ tail \in 0..BlockSize
        BY <3>2, <1>m, ValidRange DEF TypeOK
      <4>2. Total(rec[p]) <= BlockSize
        BY <3>2, <4>1, <1>m, LensBounded, TotalNat, SizesAssumption DEF IsFull
      <4>3. t'[p] = tail /\ rec'[p] = rec[p] /\ \A q \in Procs \ {p} : t'[q] = t[q]
        BY <2>2, <1>p DEF TypeOK
      <4>4. \A q \in Producers : pc'[q] \in {"write_head", "write_data", "publish"} =>
              t'[q] <= BlockSize /\ Total(rec'[q]) <= BlockSize
        BY <4>1, <4>2, <4>3, <2>1, <2>2 DEF InBounds, Procs
      <4> QED
        BY <4>3, <4>4, <1>p, <2>1, <2>2 DEF InBounds, Procs
    <3> QED
      BY <3>1, <3>2, <2>1
  <2> QED
    BY <2>3, <2>4
<1>4. ASSUME pc[p] \in {"write_head", "write_data"},
             NEW which \in SUBSET (0..Total(rec[p]) - 1), block' = Copied(p, which)
      PROVE  block' \in [0..BlockSize - 1 -> Cells]
  <2>1. Total(rec[p]) <= BlockSize
    BY <1>4 DEF InBounds
  <2>2. ASSUME NEW i \in 0..BlockSize - 1, \E k \in which : i = (t[p] + k) % BlockSize
        PROVE  RecordCell(rec[p], CHOOSE k \in which : i = (t[p] + k) % BlockSize) \in Cells
    <3> DEFINE k == CHOOSE k \in which : i = (t[p] + k) % BlockSize
    <3>1. k \in which
      BY <2>2
    <3>2. k \in 0..Total(rec[p]) - 1
      BY <3>1
    <3> HIDE DEF k
    <3>3. RecordCell(rec[p], k) \in Cells
      BY <3>2, <2>1, <1>m, RecordCellType
    <3> QED
      BY <3>3 DEF k
  <2>3. DOMAIN block = 0..BlockSize - 1 /\ \A i \in 0..BlockSize - 1 : block[i] \in Cells
    BY DEF TypeOK
  <2> QED
    BY <1>4, <2>2, <2>3 DEF Copied
<1>5. CASE WriteHead(p)
  <2>1. {0, 1} \in SUBSET (0..Total(rec[p]) - 1)
    BY <1>m, TotalNat
  <2>2. block' \in [0..BlockSize - 1 -> Cells]
    BY <1>4, <1>5, <2>1 DEF WriteHead
  <2>3. TypeOK'
    BY <1>5, <2>2 DEF TypeOK, WriteHead, Go, Steps, locks, locals, bounded
  <2>4. InBounds'
    BY <1>5, <1>p DEF TypeOK, InBounds, WriteHead, Go, locals
  <2> QED
    BY <2>3, <2>4
<1>6. CASE WriteData(p)
  <2>1. 2..Total(rec[p]) - 1 \in SUBSET (0..Total(rec[p]) - 1)
    BY <1>m, TotalNat
  <2>2. block' \in [0..BlockSize - 1 -> Cells]
    BY <1>4, <1>6, <2>1 DEF WriteData
  <2>3. TypeOK'
    BY <1>6, <2>2 DEF TypeOK, WriteData, Go, Steps, locks, locals, bounded
  <2>4. InBounds'
    BY <1>6, <1>p, SMTT(40) DEF TypeOK, InBounds, WriteData, Go, locals
  <2> QED
    BY <2>3, <2>4
<1>7. CASE Publish(p)
  <2>1. t[p] \in 0..BlockSize /\ Total(rec[p]) <= BlockSize
    BY <1>7, <1>m DEF InBounds, Publish
  <2>2. Total(rec[p]) \in Nat /\ Total(rec[p]) >= 3
    BY <1>m, TotalNat
  <2>3. NewTail(p) \in 0..UIntSize - 1
    <3>t. tail \in Int
      BY DEF TypeOK
    <3>u. UInt(tail + Total(rec[p])) \in 0..UIntSize - 1
      BY <3>t, <2>2, UIntRange
    <3>v. UInt(tail + (Total(rec[p]) - BlockSize)) \in 0..UIntSize - 1
      BY <3>t, <2>2, UIntRange, SizesAssumption
    <3>1. CASE BlockSize - t[p] >= Total(rec[p])
      BY <3>1, <3>u, <2>1, <2>2, SizesAssumption DEF NewTail
    <3>2. CASE BlockSize - t[p] < Total(rec[p]) /\ BlockSize - t[p] >= C_HEAD_SIZE + C_SAFE_AREA_LEN
      BY <3>2, <3>v, <2>1, <2>2, SizesAssumption DEF NewTail, C_HEAD_SIZE, C_SAFE_AREA_LEN
    <3>3. CASE BlockSize - t[p] < Total(rec[p]) /\ ~(BlockSize - t[p] >= C_HEAD_SIZE + C_SAFE_AREA_LEN)
      BY <3>3, <2>1, <2>2, SizesAssumption DEF NewTail, C_HEAD_SIZE, C_SAFE_AREA_LEN
    <3> QED
      BY <3>1, <3>2, <3>3, <2>1, <2>2, SizesAssumption
  <2>4. TypeOK'
    BY <1>7, <2>3 DEF TypeOK, Publish, Go, Steps, locks, locals, bounded
  <2>5. InBounds'
    BY <1>7, <1>p, CarelessStep DEF TypeOK, Publish, Go, Careless, locals
  <2> QED
    BY <2>4, <2>5
<1>8. CASE Count(p)
  <2>1. /\ plock' \in Producers \cup {None} /\ clock' \in Consumers \cup {None}
        /\ pc' \in [Procs -> Steps] /\ pc'[p] \in Careless
        /\ \A q \in Procs \ {p} : pc'[q] = pc[q]
    <3>1. CASE count' = 1
      BY <1>8, <3>1, <1>p DEF Count, TypeOK, Go, Steps, Careless, locks
    <3>2. CASE count' # 1
      BY <1>8, <3>2, <1>p, LeaveType DEF Count, Careless
    <3> QED
      BY <3>1, <3>2
  <2>2. TypeOK'
    BY <1>8, <2>1 DEF TypeOK, Count, locals, bounded
  <2>3. InBounds'
    BY <1>8, <1>p, <2>1, CarelessStep DEF Count, locals
  <2> QED
    BY <2>2, <2>3
<1>9. CASE Notify(p)
  <2>1. /\ plock' \in Producers \cup {None} /\ clock' \in Consumers \cup {None}
        /\ pc' \in [Procs -> Steps] /\ pc'[p] \in Careless
        /\ \A q \in Procs \ {p} : pc'[q] = pc[q]
    BY <1>9, <1>p, LeaveType DEF Notify, Careless
  <2>2. TypeOK'
    BY <1>9, <2>1 DEF TypeOK, Notify, shm, locals, bounded
  <2>3. InBounds'
    BY <1>9, <1>p, <2>1, CarelessStep DEF Notify, locals
  <2> QED
    BY <2>2, <2>3
<1> QED
  BY <1>1, <1>2, <1>3, <1>5, <1>6, <1>7, <1>8, <1>9 DEF Enqueue

LEMMA ConsumerSteps ==
  ASSUME IInv, NEW c \in Consumers, Dequeue(c)
  PROVE  TypeOK' /\ InBounds'
<1> USE DEF IInv
<1>c. c \in Procs /\ c \notin Producers
  BY ProcsAssumption DEF Procs
<1>m. /\ rec[c] \in Messages \cup {TooShort}
      /\ h[c] \in 0..UIntSize - 1 /\ t[c] \in 0..UIntSize - 1
  BY <1>c DEF TypeOK
<1>b. BlockSize \in Nat /\ \A i \in 0..BlockSize - 1 : block[i] \in Cells
  BY SizesAssumption DEF TypeOK
<1>1. CASE Poll(c) \/ Lock(c) \/ Wake(c)
  <2>1. /\ clock' \in {clock, c} /\ fifo' \in {fifo, FALSE}
        /\ UNCHANGED <<shm, plock, locals, got, bounded>>
        /\ pc' \in [Procs -> Steps] /\ pc'[c] \in Careless
        /\ \A q \in Procs \ {c} : pc'[q] = pc[q]
    <3>1. CASE Poll(c)
      <4>1. \E step \in {"head", "waiting", "lock"} : pc' = [pc EXCEPT ![c] = step]
        BY <3>1 DEF Poll, Go
      <4> QED
        BY <4>1, <3>1, <1>c DEF Poll, TypeOK, Steps, Careless, locks
    <3>2. CASE Lock(c)
      BY <3>2, <1>c DEF Lock, Go, TypeOK, Steps, Careless
    <3>3. CASE Wake(c)
      BY <3>3, <1>c DEF Wake, Go, TypeOK, Steps, Careless, locks
    <3> QED
      BY <1>1, <3>1, <3>2, <3>3
  <2>2. TypeOK'
    BY <2>1 DEF TypeOK, shm, locals, bounded
  <2>3. InBounds'
    BY <1>c, <2>1, CarelessStep DEF locals
  <2> QED
    BY <2>2, <2>3
<1>2. CASE LoadHead(c)
  BY <1>2, <1>c, BothSteps
<1>3. CASE LoadTailToRead(c)
  <2>1. /\ plock' \in Producers \cup {None} /\ clock' \in Consumers \cup {None}
        /\ pc' \in [Procs -> Steps]
        /\ \A q \in Procs \ {c} : pc'[q] = pc[q]
        /\ \/ pc'[c] \in Careless
           \/ pc'[c] = "discount" /\ Valid(h[c], tail)
    <3>1. CASE ~Valid(h[c], tail)
      BY <1>3, <1>c, <3>1, RejectType DEF LoadTailToRead, Careless
    <3>2. CASE Valid(h[c], tail) /\ IsEmpty(c, tail)
      BY <1>3, <1>c, <3>2, LeaveType DEF LoadTailToRead, Careless
    <3>3. CASE Valid(h[c], tail) /\ ~IsEmpty(c, tail)
      BY <1>3, <1>c, <3>3 DEF LoadTailToRead, TypeOK, Go, Steps, locks
    <3> QED
      BY <3>1, <3>2, <3>3
  <2>2. t' = [t EXCEPT ![c] = tail] /\ UNCHANGED <<shm, fifo, h, rec, buf, got, bounded>>
    BY <1>3 DEF LoadTailToRead
  <2>3. TypeOK'
    BY <2>1, <2>2, <1>c DEF TypeOK, shm, bounded
  <2>4. InBounds'
    <3>1. CASE pc'[c] \in Careless
      BY <3>1, <2>1, <2>2, <1>c, CarelessStep DEF TypeOK
    <3>2. CASE pc'[c] = "discount" /\ Valid(h[c], tail)
      <4>1. h[c] \in 0..BlockSize /\ tail \in 0..BlockSize
        BY <3>2, <1>m, ValidRange DEF TypeOK
      <4>2. t'[c] = tail /\ \A q \in Procs \ {c} : t'[q] = t[q]
        BY <2>2, <1>c DEF TypeOK
      <4>3. h'[c] <= BlockSize /\ t'[c] <= BlockSize
        BY <4>1, <4>2, <2>2
      <4> QED
        BY <4>2, <4>3, <3>2, <1>c, <2>1, <2>2 DEF InBounds, Procs
    <3> QED
      BY <3>1, <3>2, <2>1
  <2> QED
    BY <2>3, <2>4
<1>4. CASE Discount(c)
  <2>1. TypeOK'
    <3>1. count' \in Int
      <4>1. count \in Int /\ count' = count - 1
        BY <1>4, Zenon DEF TypeOK, Discount
      <4> QED
        BY <4>1
    <3>2. pc' \in [Procs -> Steps]
      BY <1>4 DEF TypeOK, Discount, Go, Steps
    <3> QED
      BY <1>4, <3>1, <3>2 DEF TypeOK, Discount, locks, locals, bounded
  <2>2. InBounds'
    BY <1>4, <1>c DEF TypeOK, InBounds, Discount, Go, locals
  <2> QED
    BY <2>1, <2>2
<1>5. CASE ReadHead(c)
  <2>1. h[c] \in 0..BlockSize /\ t[c] \in 0..BlockSize
    BY <1>5, <1>m, SizesAssumption DEF InBounds, ReadHead
  <2>2. PICK m \in ReadAs(block[(h[c] + 1) % BlockSize]) :
          Total(m) <= UsedLen(h[c], t[c]) /\ rec' = [rec EXCEPT ![c] = m]
    BY <1>5 DEF ReadHead
  <2>3. m \in Messages \cup {TooShort}
    <3>1. (h[c] + 1) % BlockSize \in 0..BlockSize - 1
      BY <2>1, ModRange
    <3>2. block[(h[c] + 1) % BlockSize] \in Cells
      BY <3>1, <1>b
    <3> QED
      BY <2>2, <3>2 DEF ReadAs, Cells, Zero, Safe
  <2>4. Total(m) <= BlockSize /\ BlockSize >= 2 /\ DataLen(m) <= BlockSize
    BY <2>1, <2>2, <2>3, <1>b, LensBounded, ReadNat
  <2>5. Step(h[c], C_SAFE_AREA_LEN + C_HEAD_SIZE) \in 0..BlockSize
    BY <2>1, <2>4, <1>b, StepValid DEF C_SAFE_AREA_LEN, C_HEAD_SIZE
  <2>6. /\ h' = [h EXCEPT ![c] = Step(h[c], C_SAFE_AREA_LEN + C_HEAD_SIZE)]
        /\ pc' = [pc EXCEPT ![c] = "copy"]
        /\ UNCHANGED <<shm, fifo, locks, t, buf, got, bounded>>
    BY <1>5 DEF ReadHead, Go
  <2>7. Step(h[c], C_SAFE_AREA_LEN + C_HEAD_SIZE) \in 0..UIntSize - 1
    BY <2>5, SizesAssumption
  <2>8. TypeOK'
    <3>p. \A p \in Producers : rec'[p] \in Messages
      BY <2>2, <1>c DEF TypeOK, Procs
    <3>1. rec' \in [Procs -> Messages \cup {TooShort}] /\ h' \in [Procs -> 0..UIntSize - 1] /\ pc' \in [Procs -> Steps]
      BY <2>2, <2>3, <2>6, <2>7 DEF TypeOK, Steps
    <3> QED
      BY <3>p, <3>1, <2>6 DEF TypeOK, shm, locks, bounded
  <2>9. InBounds'
    <3>1. pc'[c] = "copy" /\ h'[c] <= BlockSize /\ DataLen(rec'[c]) <= BlockSize
      BY <2>2, <2>4, <2>5, <2>6, <1>c DEF TypeOK
    <3>2. \A q \in Procs \ {c} : pc'[q] = pc[q] /\ h'[q] = h[q] /\ rec'[q] = rec[q]
      BY <2>2, <2>6 DEF TypeOK
    <3> QED
      BY <3>1, <3>2, <2>6, <1>c DEF InBounds, Procs
  <2> QED
    BY <2>8, <2>9
<1>6. CASE ReadBadHead(c)
  <2>1. pc' = [pc EXCEPT ![c] = "recheck"] /\ UNCHANGED <<shm, fifo, locks, locals, got, bounded>>
    BY <1>6 DEF ReadBadHead, Go
  <2>2. TypeOK'
    BY <2>1 DEF TypeOK, Steps, shm, locks, locals, bounded
  <2>3. InBounds'
    BY <2>1, <1>c, CarelessStep DEF TypeOK, Careless, locals
  <2> QED
    BY <2>2, <2>3
<1>7. CASE CopyOut(c)
  <2>1. DataLen(rec[c]) \in Nat
    BY <1>m, ReadNat
  <2>2. \A i \in 1..DataLen(rec[c]) : block[(h[c] + i - 1) % BlockSize] \in Cells
    <3> TAKE i \in 1..DataLen(rec[c])
    <3>1. (h[c] + i - 1) % BlockSize \in 0..BlockSize - 1
      BY <1>m, ModRange
    <3> QED
      BY <3>1, <1>b
  <2>3. [i \in 1..DataLen(rec[c]) |-> block[(h[c] + i - 1) % BlockSize]] \in Seq(Cells)
    BY <2>1, <2>2
  <2>4. TypeOK'
    BY <1>7, <2>3 DEF TypeOK, CopyOut, Go, Steps, shm, locks, bounded
  <2>5. InBounds'
    BY <1>7, <1>c, SMTT(40) DEF TypeOK, InBounds, CopyOut, Go
  <2> QED
    BY <2>4, <2>5
<1>8. CASE Free(c)
  <2>1. h[c] \in 0..BlockSize /\ DataLen(rec[c]) \in 0..BlockSize
    BY <1>8, <1>m, <1>b, ReadNat DEF InBounds, Free
  <2>s. Step(h[c], DataLen(rec[c])) \in 0..BlockSize
    BY <2>1, StepValid
  <2>2. head' \in 0..UIntSize - 1
    BY <1>8, <2>s, SizesAssumption DEF Free
  <2>3. TypeOK'
    BY <1>8, <2>2 DEF TypeOK, Free, Go, Steps, locks, locals, bounded
  <2>4. InBounds'
    BY <1>8, <1>c, CarelessStep DEF TypeOK, Free, Go, Careless, locals
  <2> QED
    BY <2>3, <2>4
<1>9. CASE CheckEnd(c)
  <2>1. /\ plock' \in Producers \cup {None} /\ clock' \in Consumers \cup {None}
        /\ pc' \in [Procs -> Steps] /\ pc'[c] \in Careless
        /\ \A q \in Procs \ {c} : pc'[q] = pc[q]
    BY <1>9, <1>c DEF CheckEnd, Release, Go, TypeOK, Steps, Careless, locks
  <2>2. got' \in Seq(Messages)
    <3>1. got \in Seq(Messages)
      BY DEF TypeOK
    <3>2. rec[c] \in Messages
      BY <1>9, <1>m DEF ShortCopiesNothing, CheckEnd
    <3>3. got' = got \/ got' = Append(got, rec[c])
      BY <1>9 DEF CheckEnd
    <3> QED
      BY <3>1, <3>2, <3>3
  <2>3. TypeOK'
    BY <1>9, <2>1, <2>2 DEF TypeOK, CheckEnd, shm, locals, bounded
  <2>4. InBounds'
    BY <1>9, <1>c, <2>1, CarelessStep DEF CheckEnd, locals
  <2> QED
    BY <2>3, <2>4
<1>10. CASE Recheck(c)
  <2>1. /\ plock' \in Producers \cup {None} /\ clock' \in Consumers \cup {None}
        /\ pc' \in [Procs -> Steps] /\ pc'[c] \in Careless
        /\ \A q \in Procs \ {c} : pc'[q] = pc[q]
    <3>1. CASE Valid(head, tail)
      BY <1>10, <3>1, <1>c DEF Recheck, TypeOK, Go, Steps, Careless, locks
    <3>2. CASE ~Valid(head, tail)
      BY <1>10, <3>2, <1>c, RejectType DEF Recheck, Careless
    <3> QED
      BY <3>1, <3>2
  <2>2. TypeOK'
    BY <1>10, <2>1 DEF TypeOK, Recheck, shm, locals, bounded
  <2>3. InBounds'
    BY <1>10, <1>c, <2>1, CarelessStep DEF Recheck, locals
  <2> QED
    BY <2>2, <2>3
<1>11. CASE LookOutside(c)
  <2>1. /\ plock' \in Producers \cup {None} /\ clock' \in Consumers \cup {None}
        /\ pc' \in [Procs -> Steps] /\ pc'[c] \in Careless
        /\ \A q \in Procs \ {c} : pc'[q] = pc[q]
    BY <1>11, <1>c DEF LookOutside, Release, Go, TypeOK, Steps, Careless, locks
  <2>2. TypeOK'
    BY <1>11, <2>1 DEF TypeOK, LookOutside, shm, locals, bounded
  <2>3. InBounds'
    BY <1>11, <1>c, <2>1, CarelessStep DEF LookOutside, locals
  <2> QED
    BY <2>2, <2>3
<1> QED
  BY <1>1, <1>2, <1>3, <1>4, <1>5, <1>6, <1>7, <1>8, <1>9, <1>10, <1>11 DEF Dequeue

\* Only CopyOut takes a consumer to "free", and only Free to "check_end".
LEMMA ShortSteps ==
  ASSUME IInv, Next
  PROVE  ShortCopiesNothing'
<1> USE DEF IInv
<1>t. /\ DOMAIN pc = Procs /\ Consumers \subseteq Procs
      /\ DOMAIN rec = Procs /\ DOMAIN buf = Consumers
  BY DEF TypeOK, Procs
<1>1. ASSUME NEW p \in Procs, NEW step \in Steps \ {"free", "check_end"},
             pc' = [pc EXCEPT ![p] = step], buf' = buf,
             \A q \in Procs \ {p} : rec'[q] = rec[q]
      PROVE  ShortCopiesNothing'
  BY <1>1, <1>t DEF ShortCopiesNothing
<1>r. ASSUME NEW p \in Procs, Leave(p) \/ Reject(p)
      PROVE  \E step \in Steps \ {"free", "check_end"} : pc' = [pc EXCEPT ![p] = step]
  BY <1>r DEF Leave, Reject, Go, Rest, Steps
<1>2. ASSUME NEW p \in Procs, LoadHead(p) \/ Clear(p) \/ Die(p) \/ Start(p)
      PROVE  ShortCopiesNothing'
  <2>1. \E step \in Steps \ {"free", "check_end"} : pc' = [pc EXCEPT ![p] = step]
    BY <1>2, <1>r DEF LoadHead, Clear, Die, Start, Go, Steps
  <2>2. buf' = buf /\ rec' = rec
    BY <1>2 DEF LoadHead, Clear, Die, Start, locals
  <2> QED
    BY <2>1, <2>2, <1>1
<1>3. ASSUME NEW p \in Producers, Produce(p) \/ Enqueue(p)
      PROVE  ShortCopiesNothing'
  <2>p. p \in Procs
    BY DEF Procs
  <2>1. CASE LoadHead(p)
    BY <2>1, <2>p, <1>2
  <2>2. CASE Produce(p) \/ WriteHead(p) \/ WriteData(p) \/ Publish(p)
    <3>1. \E step \in Steps \ {"free", "check_end"} : pc' = [pc EXCEPT ![p] = step]
      BY <2>2 DEF Produce, WriteHead, WriteData, Publish, Go, Steps
    <3>2. buf' = buf /\ \A q \in Procs \ {p} : rec'[q] = rec[q]
      BY <2>2, <1>t DEF Produce, WriteHead, WriteData, Publish, locals
    <3> QED
      BY <3>1, <3>2, <2>p, <1>1
  <2>3. CASE LoadTailToWrite(p) \/ Count(p) \/ Notify(p)
    <3>1. \E step \in Steps \ {"free", "check_end"} : pc' = [pc EXCEPT ![p] = step]
      BY <2>3, <2>p, <1>r DEF LoadTailToWrite, Count, Notify, Go, Steps
    <3>2. buf' = buf /\ rec' = rec
      BY <2>3 DEF LoadTailToWrite, Count, Notify, locals
    <3> QED
      BY <3>1, <3>2, <2>p, <1>1
  <2> QED
    BY <1>3, <2>1, <2>2, <2>3 DEF Enqueue
<1>4. ASSUME NEW c \in Consumers, Dequeue(c)
      PROVE  ShortCopiesNothing'
  <2>c. c \in Procs
    BY DEF Procs
  <2>1. CASE LoadHead(c)
    BY <2>1, <2>c, <1>2
  <2>2. CASE CopyOut(c)
    <3>1. \A q \in Consumers \ {c} : buf'[q] = buf[q] /\ pc'[q] = pc[q]
      BY <2>2, <1>t DEF CopyOut, Go
    <3>2. rec' = rec
      BY <2>2 DEF CopyOut
    <3>3. rec[c] = TooShort => buf'[c] = <<>>
      <4> SUFFICES ASSUME rec[c] = TooShort PROVE buf'[c] = <<>>
        OBVIOUS
      <4>1. DataLen(rec[c]) = 0
        BY DEF DataLen, Total, TooShort, C_HEAD_SIZE, C_SAFE_AREA_LEN
      <4>2. buf'[c] = [i \in 1..0 |-> block[(h[c] + i - 1) % BlockSize]]
        BY <4>1, <2>2, <1>t DEF CopyOut
      <4> QED
        BY <4>2
    <3> QED
      BY <3>1, <3>2, <3>3 DEF ShortCopiesNothing
  <2>3. CASE Free(c)
    BY <2>3, <1>t DEF Free, Go, locals, ShortCopiesNothing
  <2>4. CASE Poll(c) \/ Lock(c) \/ LoadTailToRead(c) \/ Discount(c) \/ ReadBadHead(c)
               \/ LookOutside(c) \/ Recheck(c) \/ Wake(c) \/ CheckEnd(c)
    <3>1. \E step \in Steps \ {"free", "check_end"} : pc' = [pc EXCEPT ![c] = step]
      <4>1. CASE LoadTailToRead(c) \/ Recheck(c)
        BY <4>1, <2>c, <1>r DEF LoadTailToRead, Recheck, Go, Steps
      <4>2. CASE Poll(c)
        <5>1. \E step \in {"head", "waiting", "lock"} : pc' = [pc EXCEPT ![c] = step]
          BY <4>2 DEF Poll, Go
        <5> QED
          BY <5>1 DEF Steps
      <4>3. CASE Lock(c) \/ Discount(c) \/ ReadBadHead(c) \/ LookOutside(c) \/ Wake(c) \/ CheckEnd(c)
        BY <4>3 DEF Lock, Discount, ReadBadHead, LookOutside, Wake, CheckEnd, Go, Steps
      <4> QED
        BY <2>4, <4>1, <4>2, <4>3
    <3>2. buf' = buf /\ rec' = rec
      BY <2>4 DEF Poll, Lock, LoadTailToRead, Discount, ReadBadHead, LookOutside, Recheck,
                  Wake, CheckEnd, locals
    <3> QED
      BY <3>1, <3>2, <2>c, <1>1
  <2>5. CASE ReadHead(c)
    <3>1. pc' = [pc EXCEPT ![c] = "copy"] /\ "copy" \in Steps \ {"free", "check_end"}
      BY <2>5 DEF ReadHead, Go, Steps
    <3>2. buf' = buf /\ \A q \in Procs \ {c} : rec'[q] = rec[q]
      BY <2>5, <1>t DEF ReadHead
    <3> QED
      BY <3>1, <3>2, <2>c, <1>1
  <2> QED
    BY <1>4, <2>1, <2>2, <2>3, <2>4, <2>5 DEF Dequeue
<1> QED
  BY <1>2, <1>3, <1>4 DEF Next

LEMMA NextInv == IInv /\ [Next]_vars => IInv'
<1> SUFFICES ASSUME IInv, [Next]_vars PROVE IInv'
  OBVIOUS
<1>1. CASE Next
  <2>1. TypeOK' /\ InBounds'
    BY <1>1, ProducerSteps, ConsumerSteps, BothSteps DEF Next
  <2>2. ShortCopiesNothing'
    BY <1>1, ShortSteps
  <2> QED
    BY <2>1, <2>2 DEF IInv
<1>2. CASE UNCHANGED vars
  BY <1>2 DEF IInv, TypeOK, InBounds, ShortCopiesNothing, vars, shm, locks, locals, bounded
<1> QED
  BY <1>1, <1>2

LEMMA Invariant == Spec => []IInv
BY InitInv, NextInv, PTL DEF Spec

\* The variables keep their types.
THEOREM TypeCorrect == Spec => []TypeOK
<1>1. IInv => TypeOK
  BY DEF IInv
<1> QED
  BY <1>1, Invariant, PTL

\* No memcpy of enqueue or dequeue leaves the block.
THEOREM MemorySafe == Spec => []InBounds
<1>1. IInv => InBounds
  BY DEF IInv
<1> QED
  BY <1>1, Invariant, PTL

-----------------------------------------------------------------------------
(* What the queue holds, as long as it is not cleared.                      *)

\* The proxy is not killed, so that nothing clears the queue, and it is alone on its
\* side of the queue, where it takes no lock.
OneSided ==
  /\ Proxy \notin Mortals
  /\ Proxy \in Producers => Producers = {Proxy}
  /\ Proxy \in Consumers => Consumers = {Proxy}

\* Inside enqueue and dequeue, and in the part of enqueue before the message is in the
\* queue.
Unsent == {"head", "tail", "write_head", "write_data", "publish"}
Enqueuing == Unsent \cup {"count", "notify"}
Reading == {"discount", "read_head"}
Dequeuing == {"head", "tail", "copy", "free", "check_end"} \cup Reading

\* Each side of the queue has one user at a time, and nobody clears it.
RolesInv ==
  /\ pid = None
  /\ \A p \in Procs : p = Proxy => pc[p] # "dead"
  /\ \A p \in Producers : /\ pc[p] \in Enqueuing \cup {"idle", "dead"}
                          /\ pc[p] \in Enqueuing => p = Proxy \/ plock = p
  /\ \A c \in Consumers : /\ pc[c] \in Dequeuing \cup {"awake", "waiting", "lock", "dead"}
                          /\ pc[c] \in Dequeuing => c = Proxy \/ clock = c

\* The number of cells between two positions.
Held(hd, tl) == IF hd = tl THEN 0 ELSE UsedLen(hd, tl)

\* Positions of the ring: 0 is left once and for all with the first message.
Placed(hd, tl) == hd \in 0..BlockSize /\ tl \in 0..BlockSize /\ (tl = 0 => hd = 0)

Written(p, ks) == \A k \in ks : block[(t[p] + k) % BlockSize] = RecordCell(rec[p], k)

\* What a producer writes fits behind *tail_, also when consumers have moved *head_ since
\* it looked.
RoomInv ==
  /\ Placed(head, tail) /\ Held(head, tail) < BlockSize
  /\ \A p \in Producers :
       /\ pc[p] = "tail" => Placed(h[p], tail) /\ Held(head, tail) <= Held(h[p], tail)
       /\ pc[p] \in {"write_head", "write_data", "publish"} =>
            t[p] = tail /\ Held(head, tail) + Total(rec[p]) < BlockSize
       /\ pc[p] = "write_data" => Written(p, {0, 1})
       /\ pc[p] = "publish" => Written(p, 0..Total(rec[p]) - 1)

\* The cells between the positions are those of the messages ms, of which number i begins
\* off[i] cells behind the first position.
Holds(hd, tl, cells, ms, off) ==
  /\ ms \in Seq(Messages) /\ off \in [1..Len(ms) + 1 -> Nat]
  /\ off[1] = 0 /\ off[Len(ms) + 1] = Held(hd, tl)
  /\ \A i \in 1..Len(ms) :
       /\ off[i + 1] = off[i] + Total(ms[i])
       /\ off[i + 1] <= Held(hd, tl)
       /\ \A k \in 0..Total(ms[i]) - 1 :
            cells[(hd + off[i] + k) % BlockSize] = RecordCell(ms[i], k)

\* What is copied out of a message.
Payload(m) == [i \in 1..DataLen(m) |-> RecordCell(m, i + 1)]

\* A consumer takes the first message.
TakesFirst(ms) ==
  \A c \in Consumers :
    /\ pc[c] \in {"tail"} \cup Reading => h[c] = head
    /\ pc[c] \in Reading => ms # <<>> /\ Total(ms[1]) <= UsedLen(head, t[c])
    /\ pc[c] \in {"copy", "free"} => /\ ms # <<>> /\ rec[c] = ms[1]
                                     /\ h[c] = Step(head, C_SAFE_AREA_LEN + C_HEAD_SIZE)
    /\ pc[c] = "check_end" => rec[c] \in Messages
    /\ pc[c] \in {"free", "check_end"} => buf[c] = Payload(rec[c])

\* Messages on their way out, in the queue and on their way in.
Flows(s) == {s[i].flow : i \in DOMAIN s}
Taken == {rec[c].flow : c \in {c \in Consumers : pc[c] = "check_end"}}
Coming == {rec[p].flow : p \in {p \in Producers : pc[p] \in Unsent}}
Before(S, T) == \A a \in S, b \in T : a < b
Sorted(s) == \A i, j \in DOMAIN s : i < j => s[i].flow < s[j].flow

InOrder(ms) ==
  /\ Sorted(got) /\ Sorted(ms)
  /\ Before(Flows(got), Taken) /\ Before(Flows(got) \cup Taken, Flows(ms))
  /\ Before(Flows(got) \cup Taken \cup Flows(ms), Coming)
  /\ \A a \in Flows(got) \cup Taken \cup Flows(ms) \cup Coming : a \in 0..made

One(S) == IF S = {} THEN 0 ELSE 1
Uncounted == {p \in Producers : pc[p] = "count"}
Discounted == {c \in Consumers : pc[c] \in {"read_head", "copy", "free"}}

\* The count, and who has been told of it.
Counted(ms) ==
  deaths = 0 =>
    /\ count = Len(ms) - One(Uncounted) - One(Discounted)
    /\ count > 0 => \/ fifo
                    \/ \E p \in Producers : pc[p] = "notify"
                    \/ \E c \in Consumers : pc[c] # "waiting"

Contents(ms, off) ==
  /\ Holds(head, tail, block, ms, off)
  /\ TakesFirst(ms) /\ InOrder(ms) /\ Counted(ms)

QInv == RolesInv /\ RoomInv /\ \E ms, off : Contents(ms, off)

-----------------------------------------------------------------------------
(* Positions. *)

\* The remainder of what goes round the ring at most once.
LEMMA ModIs ==
  ASSUME NEW n \in 0..2 * BlockSize - 1
  PROVE  n % BlockSize = IF n < BlockSize THEN n ELSE n - BlockSize
<1>1. BlockSize \in Nat /\ BlockSize > 0 /\ n \in Int
  BY SizesAssumption
<1>2. CASE n < BlockSize
  BY <1>1, <1>2
<1>3. CASE n >= BlockSize
  BY <1>1, <1>3
<1> QED
  BY <1>1, <1>2, <1>3

\* Cells that are less than a round apart are different cells.
LEMMA Apart ==
  ASSUME NEW pos \in 0..BlockSize, NEW i \in 0..BlockSize - 1, NEW j \in 0..BlockSize - 1
  PROVE  (pos + i) % BlockSize = (pos + j) % BlockSize <=> i = j
<1>1. BlockSize \in Nat
  BY SizesAssumption
<1>2. \A k \in 0..BlockSize - 1 :
        (pos + k) % BlockSize = IF pos + k < BlockSize THEN pos + k ELSE pos + k - BlockSize
  BY <1>1, ModIs
<1> QED
  BY <1>1, <1>2

\* A step along the ring leads to the cell so many further.
LEMMA StepIs ==
  ASSUME NEW pos \in 0..BlockSize, NEW n \in 0..BlockSize - 1
  PROVE  /\ Step(pos, n) \in 0..BlockSize
         /\ \A k \in Nat : n + k < BlockSize =>
              (Step(pos, n) + k) % BlockSize = (pos + n + k) % BlockSize
         /\ n > 0 => Step(pos, n) > 0
<1>1. BlockSize \in Nat
  BY SizesAssumption
<1>2. Step(pos, n) = IF pos + n > BlockSize THEN pos + n - BlockSize ELSE pos + n
  BY DEF Step
<1>3. ASSUME NEW k \in Nat, n + k < BlockSize
      PROVE  (Step(pos, n) + k) % BlockSize = (pos + n + k) % BlockSize
  <2>1. pos + n + k \in 0..2 * BlockSize - 1 /\ Step(pos, n) + k \in 0..2 * BlockSize - 1
    BY <1>1, <1>2, <1>3
  <2> DEFINE Round(i) == IF i < BlockSize THEN i ELSE i - BlockSize
             a == pos + n + k
             b == Step(pos, n) + k
  <2>2. Round(b) = Round(a)
    BY <1>1, <1>2, <1>3
  <2>3. \A i \in 0..2 * BlockSize - 1 : i % BlockSize = Round(i)
    BY ModIs
  <2>4. a \in 0..2 * BlockSize - 1 /\ b \in 0..2 * BlockSize - 1
    BY <2>1
  <2> HIDE DEF a, b, Round
  <2>5. b % BlockSize = a % BlockSize
    BY <2>2, <2>3, <2>4
  <2> QED
    BY <2>5 DEF a, b
<1> QED
  BY <1>1, <1>2, <1>3

\* What is held and what is free make up the block.
LEMMA HeldIs ==
  ASSUME NEW hd, NEW tl, Placed(hd, tl)
  PROVE  /\ Held(hd, tl) \in 0..BlockSize
         /\ FreeLen(hd, tl) = BlockSize - Held(hd, tl)
         /\ Held(hd, tl) = 0 <=> hd = tl
         /\ hd # tl => Held(hd, tl) = UsedLen(hd, tl)
         /\ Held(hd, tl) < BlockSize => tl = Step(hd, Held(hd, tl))
BY SizesAssumption DEF Placed, Held, FreeLen, UsedLen, Step

\* The end moves on by a message.
LEMMA Longer ==
  ASSUME NEW hd, NEW tl, Placed(hd, tl), NEW n \in Nat \ {0}, Held(hd, tl) + n < BlockSize
  PROVE  Placed(hd, Step(tl, n)) /\ Held(hd, Step(tl, n)) = Held(hd, tl) + n
BY SizesAssumption DEF Placed, Held, UsedLen, Step

\* The beginning does.
LEMMA Shorter ==
  ASSUME NEW hd, NEW tl, Placed(hd, tl), Held(hd, tl) < BlockSize,
         NEW n \in Nat \ {0}, n <= Held(hd, tl)
  PROVE  Placed(Step(hd, n), tl) /\ Held(Step(hd, n), tl) = Held(hd, tl) - n
BY SizesAssumption DEF Placed, Held, UsedLen, Step

-----------------------------------------------------------------------------
(* The messages that Stored finds are those the cells were written for.      *)

\* A set of numbers that is not empty has a least one.
LEMMA Least ==
  ASSUME NEW T \in SUBSET Nat, T # {}
  PROVE  \E i \in T : \A j \in T : i <= j
<1>1. PICK i \in T : \A j \in T : ~(<<j, i>> \in OpToRel(<, Nat))
  BY WFMin, NatLessThanWellFounded
<1>2. \A j \in T : ~(j < i)
  BY <1>1 DEF OpToRel
<1> QED
  BY <1>2

\* f[n] is pre[n] and what f finds further on, until there is an end.
Joins(f, below, last, out, pre, nx) ==
  f = [n \in 0..below - 1 |-> IF n \in last THEN out[n] ELSE pre[n] \o f[nx[n]]]

\* Such a function exists if further on means a smaller number.
LEMMA JoinExists ==
  ASSUME NEW N \in Nat, NEW last, NEW out, NEW pre, NEW nx,
         \A n \in 0..N - 1 : n \notin last => nx[n] \in 0..n - 1
  PROVE  \E f : Joins(f, N, last, out, pre, nx)
<1> DEFINE J(f, k) == Joins(f, k, last, out, pre, nx)
           T == {k \in 0..N : ~\E f : J(f, k)}
<1>0. N \in 0..N
  OBVIOUS
<1>1. SUFFICES ASSUME T # {} PROVE FALSE
  <2>1. T = {} => \E f : J(f, N)
    <3> HIDE DEF J
    <3> QED
      BY <1>0
  <2> QED
    BY <2>1
<1>2. PICK k \in T : \A j \in T : k <= j
  <2>1. T \in SUBSET Nat
    OBVIOUS
  <2> HIDE DEF T
  <2> QED
    BY <1>1, <2>1, Least
<1>3. k \in 0..N /\ ~\E f : J(f, k)
  OBVIOUS
<1>4. k # 0
  <2>1. CASE k = 0
    <3> DEFINE f == [n \in 0..k - 1 |-> out[n]]
    <3>1. 0..k - 1 = {}
      BY <2>1
    <3>2. J(f, k)
      BY <3>1 DEF Joins
    <3> QED
      BY <3>2, <1>3
  <2> QED
    BY <2>1
<1>5. k - 1 \in 0..N /\ k - 1 \notin T
  BY <1>2, <1>3, <1>4
<1>6. PICK f : J(f, k - 1)
  BY <1>5
<1> DEFINE top == IF k - 1 \in last THEN out[k - 1] ELSE pre[k - 1] \o f[nx[k - 1]]
           g == [n \in 0..k - 1 |-> IF n = k - 1 THEN top ELSE f[n]]
<1>7. ASSUME NEW n \in 0..k - 1
      PROVE  g[n] = IF n \in last THEN out[n] ELSE pre[n] \o g[nx[n]]
  <2>1. n \notin last => nx[n] \in 0..n - 1 /\ nx[n] # k - 1 /\ nx[n] \in 0..k - 1
    BY <1>3
  <2>2. n \notin last => g[nx[n]] = f[nx[n]]
    BY <2>1
  <2>3. CASE n = k - 1
    BY <2>2, <2>3
  <2>4. CASE n # k - 1
    <3>1. n \in 0..(k - 1) - 1
      BY <2>4, <1>3
    <3>2. f[n] = IF n \in last THEN out[n] ELSE pre[n] \o f[nx[n]]
      BY <1>6, <3>1 DEF Joins
    <3> QED
      BY <2>2, <2>4, <3>2
  <2> QED
    BY <2>3, <2>4
<1>8. J(g, k)
  <2> DEFINE body == [n \in 0..k - 1 |-> IF n \in last THEN out[n] ELSE pre[n] \o g[nx[n]]]
  <2>1. g = body
    <3> HIDE DEF top
    <3>1. DOMAIN g = 0..k - 1 /\ DOMAIN body = 0..k - 1
      OBVIOUS
    <3>2. \A n \in 0..k - 1 : g[n] = body[n]
      BY <1>7
    <3> QED
      BY <3>1, <3>2
  <2> QED
    BY <2>1 DEF Joins
<1> QED
  BY <1>3, <1>8

\* A message fills at least three cells, of which the second tells what it is.
LEMMA HoldsFacts ==
  ASSUME NEW hd, NEW tl, NEW cells, NEW ms, NEW off, Holds(hd, tl, cells, ms, off)
  PROVE  /\ Len(ms) \in Nat /\ ms \in Seq(Messages)
         /\ \A i \in 1..Len(ms) :
              /\ ms[i] \in Messages /\ Total(ms[i]) \in Nat /\ Total(ms[i]) >= 3
              /\ off[i] \in Nat /\ off[i + 1] \in Nat
              /\ off[i + 1] = off[i] + Total(ms[i]) /\ off[i + 1] <= Held(hd, tl)
              /\ \A k \in 0..Total(ms[i]) - 1 :
                   cells[(hd + off[i] + k) % BlockSize] = RecordCell(ms[i], k)
         /\ off[1] = 0 /\ off[Len(ms) + 1] = Held(hd, tl)
<1>1. ms \in Seq(Messages) /\ Len(ms) \in Nat
  BY DEF Holds
<1>2. \A i \in 1..Len(ms) : ms[i] \in Messages
  BY <1>1
<1>3. \A i \in 1..Len(ms) : Total(ms[i]) \in Nat /\ Total(ms[i]) >= 3
  BY <1>2, TotalNat
<1>4. \A i \in 1..Len(ms) : i \in 1..Len(ms) + 1 /\ i + 1 \in 1..Len(ms) + 1
  BY <1>1
<1>5. \A i \in 1..Len(ms) : off[i] \in Nat /\ off[i + 1] \in Nat
  BY <1>1, <1>4 DEF Holds
<1> QED
  BY <1>1, <1>2, <1>3, <1>5 DEF Holds

\* The queue is empty exactly when the positions are the same.
LEMMA EmptyIs ==
  ASSUME NEW hd, NEW tl, NEW cells, NEW ms, NEW off,
         Placed(hd, tl), Held(hd, tl) < BlockSize, Holds(hd, tl, cells, ms, off)
  PROVE  ms = <<>> <=> hd = tl
<1>1. CASE hd = tl
  <2>1. Held(hd, tl) = 0
    BY <1>1 DEF Held
  <2>2. ~(1 \in 1..Len(ms))
    BY <2>1, HoldsFacts
  <2> QED
    BY <1>1, <2>2, HoldsFacts
<1>2. CASE ms = <<>>
  <2>1. Len(ms) = 0
    BY <1>2
  <2>2. off[0 + 1] = Held(hd, tl) /\ off[1] = 0
    BY <2>1, HoldsFacts
  <2>3. Held(hd, tl) = 0
    BY <2>2
  <2> QED
    BY <1>2, <2>3, HeldIs
<1> QED
  BY <1>1, <1>2

\* What a cell tells of a message that begins before it.
LEMMA HeadCell ==
  ASSUME NEW m \in Messages
  PROVE  /\ RecordCell(m, 0) = Safe
         /\ RecordCell(m, 1) = [kind |-> "head", msg |-> m]
         /\ RecordCell(m, Total(m) - 1) = Safe
BY TotalNat DEF RecordCell

LEMMA StoredIs ==
  ASSUME NEW hd, NEW tl, NEW cells \in [0..BlockSize - 1 -> Cells], NEW ms, NEW off,
         Placed(hd, tl), Held(hd, tl) < BlockSize, Holds(hd, tl, cells, ms, off)
  PROVE  Stored(hd, tl, cells) = ms
<1>h. \A i \in 1..Len(ms) :
        /\ ms[i] \in Messages /\ Total(ms[i]) \in Nat /\ Total(ms[i]) >= 3
        /\ off[i] \in Nat /\ off[i + 1] \in Nat
        /\ off[i + 1] = off[i] + Total(ms[i]) /\ off[i + 1] <= Held(hd, tl)
        /\ \A k \in 0..Total(ms[i]) - 1 :
             cells[(hd + off[i] + k) % BlockSize] = RecordCell(ms[i], k)
  <2> TAKE i \in 1..Len(ms)
  <2>1. ms[i] \in Messages /\ Total(ms[i]) \in Nat /\ Total(ms[i]) >= 3
    BY HoldsFacts
  <2>2. /\ off[i] \in Nat /\ off[i + 1] \in Nat
        /\ off[i + 1] = off[i] + Total(ms[i]) /\ off[i + 1] <= Held(hd, tl)
    BY HoldsFacts
  <2>3. \A k \in 0..Total(ms[i]) - 1 :
          cells[(hd + off[i] + k) % BlockSize] = RecordCell(ms[i], k)
    BY DEF Holds
  <2> QED
    BY <2>1, <2>2, <2>3
<1> DEFINE end == hd + UsedLen(hd, tl)
           First(n) == cells[(end - n + 1) % BlockSize]
           Sound(n) == /\ First(n).kind = "head" /\ Total(First(n).msg) <= n
                       /\ \A k \in 0..Total(First(n).msg) - 1 :
                            cells[(end - n + k) % BlockSize] = RecordCell(First(n).msg, k)
           Records(f) == f = [n \in 0..BlockSize |->
                                IF n = 0 THEN <<>>
                                ELSE IF Sound(n)
                                THEN <<First(n).msg>> \o f[n - Total(First(n).msg)]
                                ELSE <<Broken>>]
           records == CHOOSE f : Records(f)
<1>1. Stored(hd, tl, cells) = IF hd = tl THEN <<>> ELSE records[UsedLen(hd, tl)]
  BY Zenon DEF Stored
<1> SUFFICES ASSUME hd # tl PROVE records[UsedLen(hd, tl)] = ms
  <2>1. hd = tl => ms = <<>>
    BY EmptyIs
  <2> QED
    BY <1>1, <2>1
<1>2. /\ hd \in 0..BlockSize /\ tl \in 0..BlockSize /\ BlockSize \in Nat
      /\ UsedLen(hd, tl) = Held(hd, tl) /\ Held(hd, tl) \in 1..BlockSize - 1
  BY HeldIs, SizesAssumption DEF Placed
<1>3. \A n \in 0..BlockSize : Sound(n) => /\ First(n).msg \in Messages
                                          /\ Total(First(n).msg) \in 3..n
  <2> TAKE n \in 0..BlockSize
  <2>1. (end - n + 1) % BlockSize \in 0..BlockSize - 1
    <3>1. end - n + 1 \in Int
      BY <1>2
    <3> HIDE DEF end
    <3> QED
      BY <3>1, ModRange
  <2>2. First(n) \in Cells
    BY <2>1
  <2>3. ASSUME NEW c \in Cells, c.kind = "head" PROVE c.msg \in Messages
    BY <2>3 DEF Cells, Zero, Safe
  <2>4. Sound(n) => First(n).msg \in Messages /\ Total(First(n).msg) <= n
    BY <2>2, <2>3
  <2> HIDE DEF Sound, First
  <2> QED
    BY <2>4, TotalNat
<1>4. Records(records)
  <2> DEFINE last == {n \in 0..BlockSize : n = 0 \/ ~Sound(n)}
             out == [n \in 0..BlockSize |-> IF n = 0 THEN <<>> ELSE <<Broken>>]
             pre == [n \in 0..BlockSize |-> <<First(n).msg>>]
             nx == [n \in 0..BlockSize |-> n - Total(First(n).msg)]
  <2> HIDE DEF Sound, First
  <2>1. BlockSize + 1 \in Nat /\ 0..(BlockSize + 1) - 1 = 0..BlockSize
    BY <1>2
  <2>2. \A n \in 0..(BlockSize + 1) - 1 : n \notin last => nx[n] \in 0..n - 1
    <3> TAKE n \in 0..(BlockSize + 1) - 1
    <3>1. n \in 0..BlockSize
      BY <2>1
    <3>2. CASE Sound(n)
      <4>1. Total(First(n).msg) \in 3..n /\ nx[n] = n - Total(First(n).msg)
        BY <1>3, <3>1, <3>2
      <4> HIDE DEF nx
      <4> QED
        BY <3>1, <4>1
    <3> QED
      BY <3>1, <3>2
  <2>3. ASSUME NEW f PROVE Joins(f, BlockSize + 1, last, out, pre, nx) <=> Records(f)
    <3>1. ASSUME NEW n \in 0..BlockSize
          PROVE  (IF n \in last THEN out[n] ELSE pre[n] \o f[nx[n]])
                 = (IF n = 0 THEN <<>>
                    ELSE IF Sound(n) THEN <<First(n).msg>> \o f[n - Total(First(n).msg)]
                    ELSE <<Broken>>)
      OBVIOUS
    <3> QED
      BY <2>1, <3>1 DEF Joins
  <2> HIDE DEF last, out, pre, nx
  <2>4. \E f : Joins(f, BlockSize + 1, last, out, pre, nx)
    BY <2>1, <2>2, JoinExists
  <2> HIDE DEF Records
  <2> QED
    BY <2>3, <2>4
<1> HIDE DEF records
<1> DEFINE Others(n) == SubSeq(ms, n, Len(ms))
           Found(n) == records[Held(hd, tl) - off[n]] = Others(n)
<1>5. ASSUME NEW i \in 1..Len(ms), Found(i + 1) PROVE Found(i)
  <2> DEFINE n == Held(hd, tl) - off[i]
  <2>1. /\ ms[i] \in Messages /\ Total(ms[i]) \in Nat /\ Total(ms[i]) >= 3
        /\ off[i] \in Nat /\ off[i + 1] = off[i] + Total(ms[i]) /\ off[i + 1] <= Held(hd, tl)
        /\ \A k \in 0..Total(ms[i]) - 1 :
             cells[(hd + off[i] + k) % BlockSize] = RecordCell(ms[i], k)
    BY <1>h
  <2>2. n \in 0..BlockSize /\ n # 0 /\ Total(ms[i]) <= n
        /\ n - Total(ms[i]) = Held(hd, tl) - off[i + 1]
    BY <1>2, <2>1, SMTT(40)
  <2>3. \A k \in 0..Total(ms[i]) - 1 : cells[(end - n + k) % BlockSize] = RecordCell(ms[i], k)
    <3>1. end - n = hd + off[i]
      BY <1>2, <2>1, SMTT(40)
    <3> HIDE DEF end, n
    <3> QED
      BY <2>1, <3>1
  <2> HIDE DEF n, end
  <2>4. First(n) = [kind |-> "head", msg |-> ms[i]]
    <3>1. 1 \in 0..Total(ms[i]) - 1
      BY <2>1
    <3> QED
      BY <2>1, <2>3, <3>1, HeadCell
  <2>5. Sound(n)
    <3>1. First(n).kind = "head" /\ First(n).msg = ms[i]
      BY <2>4
    <3> HIDE DEF First
    <3> QED
      BY <3>1, <2>2, <2>3
  <2>6. records[n] = <<ms[i]>> \o records[n - Total(ms[i])]
    <3>1. First(n).msg = ms[i]
      BY <2>4
    <3> HIDE DEF First, Sound
    <3> QED
      BY <1>4, <2>2, <2>5, <3>1
  <2>7. records[n] = <<ms[i]>> \o Others(i + 1)
    BY <1>5, <2>2, <2>6
  <2>8. <<ms[i]>> \o Others(i + 1) = Others(i)
    BY HoldsFacts
  <2> QED
    BY <2>7, <2>8 DEF n
<1>6. Found(Len(ms) + 1)
  <2>1. Len(ms) \in Nat /\ off[Len(ms) + 1] = Held(hd, tl) /\ ms \in Seq(Messages)
    BY HoldsFacts
  <2>2. records[0] = <<>>
    <3> HIDE DEF Sound, First
    <3> QED
      BY <1>2, <1>4
  <2>3. Others(Len(ms) + 1) = <<>>
    BY <2>1
  <2>4. Held(hd, tl) - off[Len(ms) + 1] = 0
    BY <1>2, <2>1
  <2> QED
    BY <2>2, <2>3, <2>4
<1>7. \A i \in 1..Len(ms) + 1 : Found(i)
  <2> DEFINE T == {j \in 0..Len(ms) : ~Found(Len(ms) + 1 - j)}
  <2> HIDE DEF Found
  <2>0. Len(ms) \in Nat
    BY HoldsFacts
  <2>1. SUFFICES ASSUME T # {} PROVE FALSE
    <3>1. ASSUME NEW i \in 1..Len(ms) + 1, T = {} PROVE Found(i)
      <4>1. Len(ms) + 1 - i \in 0..Len(ms) /\ Len(ms) + 1 - (Len(ms) + 1 - i) = i
        BY <2>0
      <4> QED
        BY <3>1, <4>1
    <3> QED
      BY <3>1
  <2>2. PICK j \in T : \A k \in T : j <= k
    <3>1. T \in SUBSET Nat
      OBVIOUS
    <3> HIDE DEF T
    <3> QED
      BY <2>1, <3>1, Least
  <2>3. j \in 0..Len(ms) /\ ~Found(Len(ms) + 1 - j)
    OBVIOUS
  <2>4. j # 0
    <3>1. j = 0 => Len(ms) + 1 - j = Len(ms) + 1
      BY <2>0
    <3> QED
      BY <1>6, <2>3, <3>1
  <2>5. j - 1 \in 0..Len(ms) /\ j - 1 \notin T
    BY <2>0, <2>2, <2>3, <2>4
  <2>6. Found(Len(ms) + 1 - (j - 1))
    BY <2>5
  <2> DEFINE i == Len(ms) + 1 - j
  <2>7. i \in 1..Len(ms) /\ Len(ms) + 1 - (j - 1) = i + 1
    BY <2>0, <2>3, <2>4
  <2>8. Found(i)
    <3> HIDE DEF i
    <3> QED
      BY <1>5, <2>6, <2>7
  <2> QED
    BY <2>3, <2>8
<1>8. Found(1) /\ off[1] = 0 /\ Others(1) = ms
  BY <1>7, HoldsFacts
<1>9. Held(hd, tl) - off[1] = Held(hd, tl)
  BY <1>2, <1>8
<1> QED
  BY <1>2, <1>8, <1>9

-----------------------------------------------------------------------------
(* Who is where.                                                             *)

\* p goes on with step s and nobody else moves.
Moves(p, s) == pc'[p] = s /\ \A q \in Procs \ {p} : pc'[q] = pc[q]

LEMMA GoMoves ==
  ASSUME TypeOK, NEW p \in Procs, NEW s, Go(p, s)
  PROVE  Moves(p, s)
BY DEF TypeOK, Go, Moves

LEMMA LeaveMoves ==
  ASSUME TypeOK, NEW p \in Procs, Leave(p)
  PROVE  Moves(p, Rest(p)) /\ Release(p)
BY GoMoves DEF Leave

\* Nobody is on both sides.
LEMMA Sides ==
  /\ Procs = Producers \cup Consumers
  /\ \A p \in Producers : p \in Procs /\ p \notin Consumers
  /\ \A c \in Consumers : c \in Procs /\ c \notin Producers
BY ProcsAssumption DEF Procs

LEMMA OneProducer ==
  ASSUME OneSided, RolesInv, NEW p \in Producers, NEW q \in Producers,
         pc[p] \in Enqueuing, pc[q] \in Enqueuing
  PROVE  p = q
BY DEF OneSided, RolesInv

LEMMA OneConsumer ==
  ASSUME OneSided, RolesInv, NEW c \in Consumers, NEW d \in Consumers,
         pc[c] \in Dequeuing, pc[d] \in Dequeuing
  PROVE  c = d
BY DEF OneSided, RolesInv

\* A process goes on with what it does, or begins what needs no lock.
LEMMA RolesGoOn ==
  ASSUME RolesInv, NEW p \in Procs, NEW s, Moves(p, s), s # "dead",
         pid' = None, UNCHANGED locks,
         p \in Producers => /\ s \in Enqueuing \cup {"idle"}
                            /\ s \in Enqueuing => pc[p] \in Enqueuing,
         p \in Consumers => /\ s \in Dequeuing \cup {"awake", "waiting", "lock"}
                            /\ s \in Dequeuing => pc[p] \in Dequeuing \/ p = Proxy
  PROVE  RolesInv'
<1>1. \A q \in Producers : /\ pc'[q] \in Enqueuing \cup {"idle", "dead"}
                           /\ pc'[q] \in Enqueuing => q = Proxy \/ plock' = q
  BY Sides DEF RolesInv, Moves, locks
<1>2. \A q \in Consumers : /\ pc'[q] \in Dequeuing \cup {"awake", "waiting", "lock", "dead"}
                           /\ pc'[q] \in Dequeuing => q = Proxy \/ clock' = q
  BY Sides DEF RolesInv, Moves, locks
<1>3. \A q \in Procs : q = Proxy => pc'[q] # "dead"
  BY DEF RolesInv, Moves
<1> QED
  BY <1>1, <1>2, <1>3 DEF RolesInv

\* A process leaves the queue.
LEMMA RolesLeave ==
  ASSUME RolesInv, NEW p \in Procs, NEW s, Moves(p, s), p = Proxy => s # "dead",
         pid' = None, Release(p),
         p \in Producers => s \in {"idle", "dead"},
         p \in Consumers => s \in {"awake", "waiting", "dead"}
  PROVE  RolesInv'
<1>0. {"idle", "awake", "waiting", "dead"} \cap (Enqueuing \cup Dequeuing) = {}
  BY DEF Enqueuing, Unsent, Dequeuing, Reading
<1>1. \A q \in Producers : /\ pc'[q] \in Enqueuing \cup {"idle", "dead"}
                           /\ pc'[q] \in Enqueuing => q = Proxy \/ plock' = q
  BY <1>0, Sides DEF RolesInv, Moves, Release
<1>2. \A q \in Consumers : /\ pc'[q] \in Dequeuing \cup {"awake", "waiting", "lock", "dead"}
                           /\ pc'[q] \in Dequeuing => q = Proxy \/ clock' = q
  BY <1>0, Sides DEF RolesInv, Moves, Release
<1>3. \A q \in Procs : q = Proxy => pc'[q] # "dead"
  BY DEF RolesInv, Moves
<1> QED
  BY <1>1, <1>2, <1>3 DEF RolesInv

-----------------------------------------------------------------------------
(* What a process finds is in order, so that nobody clears the queue.        *)

LEMMA NeverRejected ==
  ASSUME RoomInv, NEW ms, TakesFirst(ms), NEW p \in Procs, pc[p] = "tail"
  PROVE  Valid(h[p], tail)
<1>1. CASE p \in Producers
  BY <1>1 DEF RoomInv, Placed, Valid
<1>2. CASE p \in Consumers
  BY <1>2 DEF RoomInv, TakesFirst, Placed, Valid
<1> QED
  BY <1>1, <1>2 DEF Procs

\* The first message begins at *head_.
LEMMA FirstThere ==
  ASSUME IInv, RoomInv, NEW ms, NEW off, Contents(ms, off), ms # <<>>
  PROVE  /\ ms[1] \in Messages
         /\ Total(ms[1]) \in 3..Held(head, tail)
         /\ \A k \in 0..Total(ms[1]) - 1 :
              block[(head + k) % BlockSize] = RecordCell(ms[1], k)
<1>1. Holds(head, tail, block, ms, off)
  BY DEF Contents
<1>2. 1 \in 1..Len(ms)
  BY <1>1, HoldsFacts
<1>3. ms[1] \in Messages /\ Total(ms[1]) \in Nat /\ Total(ms[1]) >= 3
  BY <1>1, <1>2, HoldsFacts
<1>4. off[1] = 0 /\ off[1 + 1] = off[1] + Total(ms[1]) /\ off[1 + 1] <= Held(head, tail)
  BY <1>1, <1>2 DEF Holds
<1>5. Held(head, tail) \in Nat /\ head \in Int
  BY HeldIs DEF RoomInv, Placed
<1>6. \A k \in 0..Total(ms[1]) - 1 :
        block[(head + off[1] + k) % BlockSize] = RecordCell(ms[1], k)
  BY <1>1, <1>2 DEF Holds
<1>7. \A k \in Int : head + off[1] + k = head + k
  BY <1>4, <1>5
<1> QED
  BY <1>3, <1>4, <1>5, <1>6, <1>7

\* A consumer reads it as it is.
LEMMA HeaderRead ==
  ASSUME IInv, RoomInv, NEW ms, NEW off, Contents(ms, off),
         NEW c \in Consumers, pc[c] = "read_head"
  PROVE  /\ h[c] = head /\ ms # <<>> /\ Total(ms[1]) <= UsedLen(h[c], t[c])
         /\ block[h[c] % BlockSize] = Safe
         /\ block[(h[c] + 1) % BlockSize] = [kind |-> "head", msg |-> ms[1]]
         /\ ReadAs(block[(h[c] + 1) % BlockSize]) = {ms[1]}
<1>1. h[c] = head /\ ms # <<>> /\ Total(ms[1]) <= UsedLen(h[c], t[c])
  BY DEF Contents, TakesFirst, Reading
<1>2. ms[1] \in Messages /\ 0 \in 0..Total(ms[1]) - 1 /\ 1 \in 0..Total(ms[1]) - 1
  BY <1>1, FirstThere, TotalNat
<1>3. \A k \in 0..Total(ms[1]) - 1 :
        block[(head + k) % BlockSize] = RecordCell(ms[1], k)
  BY <1>1, FirstThere
<1>4. block[(head + 0) % BlockSize] = Safe
      /\ block[(head + 1) % BlockSize] = [kind |-> "head", msg |-> ms[1]]
  BY <1>2, <1>3, HeadCell
<1>5. head + 0 = head
  BY DEF RoomInv, Placed
<1> QED
  BY <1>1, <1>4, <1>5 DEF ReadAs

LEMMA NeverBad ==
  ASSUME IInv, RoomInv, NEW ms, NEW off, Contents(ms, off), NEW c \in Consumers
  PROVE  /\ ~ReadBadHead(c)
         /\ pc[c] = "check_end" => /\ buf[c] = Payload(rec[c]) /\ rec[c] \in Messages
                                   /\ buf[c] # <<>> /\ buf[c][Len(buf[c])] = Safe
<1>1. ~ReadBadHead(c)
  <2> SUFFICES ASSUME ReadBadHead(c) PROVE FALSE
    OBVIOUS
  <2> DEFINE second == block[(h[c] + 1) % BlockSize]
  <2>1. /\ pc[c] = "read_head"
        /\ \/ block[h[c] % BlockSize] # Safe
           \/ second.kind # "head"
           \/ second.kind = "head" /\ Total(second.msg) > UsedLen(h[c], t[c])
    BY DEF ReadBadHead
  <2>2. /\ h[c] = head /\ ms # <<>> /\ Total(ms[1]) <= UsedLen(h[c], t[c])
        /\ block[h[c] % BlockSize] = Safe
        /\ second = [kind |-> "head", msg |-> ms[1]]
    BY <2>1, HeaderRead
  <2>3. Total(ms[1]) \in Int
    BY <2>2, FirstThere, TotalNat
  <2>4. h[c] \in Int /\ t[c] \in Int
    BY Sides DEF IInv, TypeOK
  <2>5. UsedLen(h[c], t[c]) \in Int
    BY <2>4, SizesAssumption DEF UsedLen
  <2>6. second.kind = "head" /\ second.msg = ms[1]
    BY <2>2
  <2> HIDE DEF second
  <2> QED
    BY <2>1, <2>2, <2>3, <2>5, <2>6
<1>2. ASSUME pc[c] = "check_end"
      PROVE  /\ buf[c] = Payload(rec[c]) /\ rec[c] \in Messages
             /\ buf[c] # <<>> /\ buf[c][Len(buf[c])] = Safe
  <2>1. buf[c] = Payload(rec[c]) /\ rec[c] \in Messages
    BY <1>2 DEF Contents, TakesFirst
  <2>2. DataLen(rec[c]) \in Nat /\ DataLen(rec[c]) >= 1 /\ DataLen(rec[c]) + 1 = Total(rec[c]) - 1
    BY <2>1, TotalNat
  <2>3. Payload(rec[c])[DataLen(rec[c])] = RecordCell(rec[c], DataLen(rec[c]) + 1)
    BY <2>2 DEF Payload
  <2>4. RecordCell(rec[c], DataLen(rec[c]) + 1) = Safe
    BY <2>1, <2>2, HeadCell
  <2>5. Payload(rec[c]) # <<>> /\ Len(Payload(rec[c])) = DataLen(rec[c])
    BY <2>2 DEF Payload
  <2> QED
    BY <2>1, <2>3, <2>4, <2>5
<1> QED
  BY <1>1, <1>2

LEMMA RolesOfProducers ==
  ASSUME OneSided, IInv, RolesInv, RoomInv, NEW ms, NEW off, Contents(ms, off),
         NEW p \in Producers, Produce(p) \/ Enqueue(p)
  PROVE  RolesInv'
<1> USE Sides
<1>t. TypeOK /\ p \in Procs /\ p \notin Consumers /\ pid = None
  BY DEF IInv, RolesInv
<1>1. CASE Produce(p)
  <2>1. Moves(p, "head") /\ pid' = None /\ clock' = clock
    BY <1>1, <1>t, GoMoves DEF Produce, shm
  <2>2. plock' = (IF p = Proxy THEN plock ELSE p) /\ (p # Proxy => plock = None)
    BY <1>1 DEF Produce
  <2>3. None \notin Producers
    BY ProcsAssumption
  <2>4. "head" \in Enqueuing
    BY DEF Enqueuing, Unsent
  <2>5. \A q \in Producers : /\ pc'[q] \in Enqueuing \cup {"idle", "dead"}
                             /\ pc'[q] \in Enqueuing => q = Proxy \/ plock' = q
    <3> TAKE q \in Producers
    <3>1. CASE q = p
      BY <2>1, <2>2, <2>4, <3>1 DEF Moves
    <3>2. CASE q # p
      <4>1. pc'[q] = pc[q]
        BY <2>1, <3>2 DEF Moves
      <4>2. pc[q] \in Enqueuing => q = Proxy \/ plock' = q
        BY <2>2, <2>3, <3>2 DEF RolesInv, OneSided
      <4> QED
        BY <4>1, <4>2 DEF RolesInv
    <3> QED
      BY <3>1, <3>2
  <2>6. \A q \in Consumers : /\ pc'[q] \in Dequeuing \cup {"awake", "waiting", "lock", "dead"}
                             /\ pc'[q] \in Dequeuing => q = Proxy \/ clock' = q
    BY <1>t, <2>1 DEF RolesInv, Moves
  <2>7. \A q \in Procs : q = Proxy => pc'[q] # "dead"
    BY <2>1 DEF RolesInv, Moves
  <2> QED
    BY <2>1, <2>5, <2>6, <2>7 DEF RolesInv
<1>2. ASSUME NEW s \in Enqueuing, Go(p, s), UNCHANGED locks, pid' = pid, pc[p] \in Enqueuing
      PROVE  RolesInv'
  <2>1. s # "dead"
    BY <1>2 DEF Enqueuing, Unsent
  <2> QED
    BY <1>2, <1>t, <2>1, GoMoves, RolesGoOn
<1>3. ASSUME Leave(p), pid' = pid PROVE RolesInv'
  <2>1. Rest(p) = "idle"
    BY DEF Rest
  <2> QED
    BY <1>3, <1>t, <2>1, LeaveMoves, RolesLeave
<1>4. CASE LoadHead(p)
  BY <1>2, <1>4 DEF LoadHead, Enqueuing, Unsent, shm
<1>5. CASE LoadTailToWrite(p)
  <2>1. Valid(h[p], tail)
    BY <1>5, <1>t, NeverRejected DEF LoadTailToWrite, Contents
  <2>2. CASE IsFull(p, tail)
    BY <1>3, <1>5, <2>1, <2>2 DEF LoadTailToWrite, shm
  <2>3. CASE ~IsFull(p, tail)
    BY <1>2, <1>5, <2>1, <2>3 DEF LoadTailToWrite, shm, Enqueuing, Unsent
  <2> QED
    BY <2>2, <2>3
<1>6. CASE WriteHead(p) \/ WriteData(p) \/ Publish(p)
  BY <1>2, <1>6 DEF WriteHead, WriteData, Publish, Enqueuing, Unsent
<1>7. CASE Count(p)
  <2>1. CASE count' = 1
    BY <1>2, <1>7, <2>1 DEF Count, Enqueuing, Unsent
  <2>2. CASE count' # 1
    BY <1>3, <1>7, <2>2 DEF Count
  <2> QED
    BY <2>1, <2>2
<1>8. CASE Notify(p)
  BY <1>3, <1>8 DEF Notify, shm
<1> QED
  BY <1>1, <1>4, <1>5, <1>6, <1>7, <1>8 DEF Enqueue

LEMMA RolesOfConsumers ==
  ASSUME OneSided, IInv, RolesInv, RoomInv, NEW ms, NEW off, Contents(ms, off),
         NEW c \in Consumers, Dequeue(c)
  PROVE  RolesInv'
<1> USE Sides
<1>t. TypeOK /\ c \in Procs /\ c \notin Producers /\ pid = None
  BY DEF IInv, RolesInv
<1>0. Dequeuing \cup {"awake", "waiting", "lock"} \subseteq Steps \ {"dead", "recheck"}
  BY DEF Dequeuing, Reading, Steps
<1>1. ASSUME NEW s \in Dequeuing, Go(c, s), UNCHANGED locks, pid' = pid, pc[c] \in Dequeuing
      PROVE  RolesInv'
  BY <1>0, <1>1, <1>t, GoMoves, RolesGoOn
<1>2. ASSUME NEW s \in {"awake", "waiting", "lock"}, Go(c, s), UNCHANGED locks, pid' = pid
      PROVE  RolesInv'
  <2>1. s \notin Dequeuing /\ s # "dead"
    BY <1>2 DEF Dequeuing, Reading
  <2> QED
    BY <1>2, <1>t, <2>1, GoMoves, RolesGoOn
<1>3. ASSUME Leave(c), pid' = pid PROVE RolesInv'
  <2>1. Rest(c) = "waiting"
    BY <1>t DEF Rest
  <2> QED
    BY <1>3, <1>t, <2>1, LeaveMoves, RolesLeave
<1>4. CASE Poll(c)
  <2>1. CASE c = Proxy
    <3>1. Go(c, "head") /\ UNCHANGED locks /\ pid' = pid
      BY <1>4, <2>1 DEF Poll, shm
    <3>2. "head" \in Dequeuing
      BY DEF Dequeuing
    <3> QED
      BY <2>1, <3>1, <3>2, <1>t, GoMoves, RolesGoOn
  <2>2. CASE c # Proxy
    <3>1. Go(c, "waiting") \/ Go(c, "lock")
      BY <1>4, <2>2 DEF Poll
    <3> QED
      BY <3>1, <1>2, <1>4 DEF Poll, shm
  <2> QED
    BY <2>1, <2>2
<1>5. CASE Lock(c)
  <2>1. Moves(c, "head") /\ pid' = None /\ plock' = plock /\ clock = None /\ clock' = c
    BY <1>5, <1>t, GoMoves DEF Lock, shm
  <2>2. \A q \in Producers : /\ pc'[q] \in Enqueuing \cup {"idle", "dead"}
                             /\ pc'[q] \in Enqueuing => q = Proxy \/ plock' = q
    BY <1>t, <2>1 DEF RolesInv, Moves
  <2>3. None \notin Consumers /\ "head" \in Dequeuing
    BY ProcsAssumption DEF Dequeuing
  <2>4. \A q \in Consumers : /\ pc'[q] \in Dequeuing \cup {"awake", "waiting", "lock", "dead"}
                             /\ pc'[q] \in Dequeuing => q = Proxy \/ clock' = q
    <3> TAKE q \in Consumers
    <3>1. CASE q = c
      BY <2>1, <2>3, <3>1 DEF Moves
    <3>2. CASE q # c
      <4>1. pc'[q] = pc[q]
        BY <2>1, <3>2 DEF Moves
      <4>2. pc[q] \in Dequeuing => q = Proxy
        BY <2>1, <2>3 DEF RolesInv
      <4> QED
        BY <4>1, <4>2 DEF RolesInv
    <3> QED
      BY <3>1, <3>2
  <2>5. \A q \in Procs : q = Proxy => pc'[q] # "dead"
    BY <2>1 DEF RolesInv, Moves
  <2> QED
    BY <2>1, <2>2, <2>4, <2>5 DEF RolesInv
<1>6. CASE LoadHead(c)
  BY <1>1, <1>6 DEF LoadHead, Dequeuing, shm
<1>7. CASE LoadTailToRead(c)
  <2>1. Valid(h[c], tail)
    BY <1>7, <1>t, NeverRejected DEF LoadTailToRead, Contents
  <2>2. CASE IsEmpty(c, tail)
    BY <1>3, <1>7, <2>1, <2>2 DEF LoadTailToRead, shm
  <2>3. CASE ~IsEmpty(c, tail)
    BY <1>1, <1>7, <2>1, <2>3 DEF LoadTailToRead, shm, Dequeuing, Reading
  <2> QED
    BY <2>2, <2>3
<1>8. CASE Discount(c) \/ ReadHead(c) \/ CopyOut(c) \/ Free(c)
  BY <1>1, <1>8 DEF Discount, ReadHead, CopyOut, Free, Dequeuing, Reading, shm
<1>9. CASE CheckEnd(c)
  <2>1. Release(c) /\ Go(c, "awake") /\ pid' = None
    BY <1>9, <1>t, NeverBad DEF CheckEnd, shm
  <2> QED
    BY <2>1, <1>t, GoMoves, RolesLeave
<1>10. CASE Wake(c)
  BY <1>2, <1>10 DEF Wake, shm
<1>11. ~ReadBadHead(c) /\ ~LookOutside(c)
  BY NeverBad DEF LookOutside
<1>12. ~Recheck(c)
  BY <1>0 DEF RolesInv, Recheck
<1> QED
  BY <1>4, <1>5, <1>6, <1>7, <1>8, <1>9, <1>10, <1>11, <1>12 DEF Dequeue

\* Deaths and restarts; a process that clears the queue there is none.
LEMMA RolesOfOthers ==
  ASSUME OneSided, IInv, RolesInv, NEW p \in Procs, Clear(p) \/ Die(p) \/ Start(p)
  PROVE  RolesInv' /\ ~Clear(p)
<1> USE Sides
<1>t. TypeOK /\ pid = None
  BY DEF IInv, RolesInv
<1>1. ~Clear(p)
  <2>1. pc[p] \in Enqueuing \cup Dequeuing \cup {"idle", "dead", "awake", "waiting", "lock"}
    BY DEF RolesInv
  <2> QED
    BY <2>1 DEF Clear, Enqueuing, Unsent, Dequeuing, Reading
<1>2. CASE Die(p)
  <2>1. p # Proxy /\ pid' = None
    BY <1>2, <1>t, ProcsAssumption DEF Die, OneSided
  <2> QED
    BY <1>1, <1>2, <1>t, <2>1, GoMoves, RolesLeave DEF Die
<1>3. CASE Start(p)
  <2>1. p # Proxy
    BY <1>3 DEF Start, RolesInv
  <2>2. CASE p \in Producers
    <3>1. Go(p, "idle") /\ "idle" \notin Enqueuing
      BY <1>3, <2>1, <2>2 DEF Start, Enqueuing, Unsent
    <3> QED
      BY <1>1, <1>3, <1>t, <2>2, <3>1, GoMoves, RolesGoOn DEF Start
  <2>3. CASE p \in Consumers
    <3>1. Go(p, "awake") /\ "awake" \notin Dequeuing
      BY <1>3, <2>1, <2>3 DEF Start, Dequeuing, Reading
    <3> QED
      BY <1>1, <1>3, <1>t, <2>3, <3>1, GoMoves, RolesGoOn DEF Start
  <2> QED
    BY <2>2, <2>3
<1> QED
  BY <1>1, <1>2, <1>3

-----------------------------------------------------------------------------
(* What is written goes where nothing is held.                               *)

\* The cells a producer copies are those of its message, the others are as before.
LEMMA CopiedIs ==
  ASSUME TypeOK, NEW p \in Producers, t[p] \in 0..BlockSize, Total(rec[p]) <= BlockSize,
         NEW which, which \subseteq 0..Total(rec[p]) - 1
  PROVE  /\ \A k \in which : Copied(p, which)[(t[p] + k) % BlockSize] = RecordCell(rec[p], k)
         /\ \A i \in 0..BlockSize - 1 :
              (\A k \in which : i # (t[p] + k) % BlockSize) => Copied(p, which)[i] = block[i]
<1>1. DOMAIN block = 0..BlockSize - 1
  BY DEF TypeOK
<1>2. BlockSize \in Nat /\ Total(rec[p]) \in Nat
  BY SizesAssumption, TotalNat DEF TypeOK
<1>3. ASSUME NEW k \in which
      PROVE  Copied(p, which)[(t[p] + k) % BlockSize] = RecordCell(rec[p], k)
  <2> DEFINE i == (t[p] + k) % BlockSize
             j == CHOOSE l \in which : i = (t[p] + l) % BlockSize
  <2>1. k \in 0..BlockSize - 1 /\ \A l \in which : l \in 0..BlockSize - 1
    BY <1>2
  <2>2. i \in 0..BlockSize - 1
    BY <1>2, <2>1, ModRange
  <2>3. j \in which /\ i = (t[p] + j) % BlockSize
    OBVIOUS
  <2>4. j = k
    <3> HIDE DEF j
    <3> QED
      BY <2>1, <2>3, Apart DEF i
  <2>5. Copied(p, which)[i] = RecordCell(rec[p], j)
    <3>1. \E l \in which : i = (t[p] + l) % BlockSize
      OBVIOUS
    <3> HIDE DEF i
    <3> QED
      BY <1>1, <2>2, <3>1 DEF Copied
  <2> QED
    BY <2>4, <2>5
<1>4. ASSUME NEW i \in 0..BlockSize - 1, \A k \in which : i # (t[p] + k) % BlockSize
      PROVE  Copied(p, which)[i] = block[i]
  BY <1>1, <1>4 DEF Copied
<1> QED
  BY <1>3, <1>4

\* *tail_ moves on by the message.
LEMMA NewTailIs ==
  ASSUME TypeOK, NEW p \in Producers, t[p] = tail, tail \in 0..BlockSize,
         Total(rec[p]) < BlockSize
  PROVE  NewTail(p) = Step(tail, Total(rec[p]))
<1>1. /\ BlockSize \in Nat /\ UIntSize \in Nat /\ BlockSize < UIntSize
      /\ Total(rec[p]) \in Nat /\ Total(rec[p]) >= 3
  BY SizesAssumption, TotalNat DEF TypeOK
<1>2. ASSUME NEW n \in 0..BlockSize PROVE UInt(n) = n
  BY <1>1 DEF UInt
<1>3. CASE BlockSize - t[p] >= Total(rec[p])
  <2>1. tail + Total(rec[p]) \in 0..BlockSize
    BY <1>1, <1>3
  <2>2. NewTail(p) = UInt(tail + Total(rec[p]))
    <3>1. ~(BlockSize - t[p] < Total(rec[p]))
      BY <1>1, <1>3
    <3> QED
      BY <1>3, <3>1 DEF NewTail
  <2> QED
    BY <1>1, <1>2, <2>1, <2>2 DEF Step
<1>4. CASE /\ BlockSize - t[p] < Total(rec[p])
           /\ BlockSize - t[p] >= C_HEAD_SIZE + C_SAFE_AREA_LEN
  <2>1. tail + (Total(rec[p]) - BlockSize) \in 0..BlockSize
    BY <1>1, <1>4
  <2>2. ~(BlockSize - t[p] >= Total(rec[p]))
    BY <1>1, <1>4
  <2>3. NewTail(p) = UInt(tail + (Total(rec[p]) - BlockSize))
    BY <1>4, <2>2 DEF NewTail
  <2>4. Step(tail, Total(rec[p])) = tail + (Total(rec[p]) - BlockSize)
    BY <1>1, <1>4 DEF Step
  <2> QED
    BY <1>2, <2>1, <2>3, <2>4
<1>5. CASE ~(BlockSize - t[p] >= C_HEAD_SIZE + C_SAFE_AREA_LEN)
  <2>1. BlockSize - t[p] < Total(rec[p]) /\ ~(BlockSize - t[p] >= Total(rec[p]))
    BY <1>1, <1>5 DEF C_HEAD_SIZE, C_SAFE_AREA_LEN
  <2>2. NewTail(p) = Total(rec[p]) - (BlockSize - t[p])
    BY <1>5, <2>1 DEF NewTail
  <2> QED
    BY <1>1, <2>1, <2>2 DEF Step
<1> QED
  BY <1>1, <1>3, <1>4, <1>5

\* Where a consumer takes *head_.
LEMMA NewHeadIs ==
  ASSUME NEW n \in 0..BlockSize - 1, n >= 2, NEW hd \in 0..BlockSize
  PROVE  Step(Step(hd, C_SAFE_AREA_LEN + C_HEAD_SIZE), n - 2) = Step(hd, n)
BY SizesAssumption DEF Step, C_SAFE_AREA_LEN, C_HEAD_SIZE

LEMMA RoomFrame ==
  ASSUME RoomInv, NEW p \in Procs, NEW s, Moves(p, s), UNCHANGED <<head, tail, block>>,
         \A q \in Producers \ {p} : h'[q] = h[q] /\ t'[q] = t[q] /\ rec'[q] = rec[q],
         p \in Producers => s \notin {"tail", "write_head", "write_data", "publish"}
  PROVE  RoomInv'
<1>1. \A q \in Producers : q \in Procs
  BY Sides
<1> QED
  BY <1>1 DEF RoomInv, Moves, Written

\* The room of the one producer that is in the queue.
LEMMA RoomOfOne ==
  ASSUME OneSided, RolesInv, NEW p \in Producers, NEW s, Moves(p, s), pc[p] \in Enqueuing,
         Placed(head, tail)', Held(head, tail)' < BlockSize,
         s = "tail" => Placed(h[p], tail)' /\ Held(head, tail)' <= Held(h[p], tail)',
         s \in {"write_head", "write_data", "publish"} =>
           t'[p] = tail' /\ Held(head, tail)' + Total(rec[p])' < BlockSize,
         s = "write_data" => Written(p, {0, 1})',
         s = "publish" => Written(p, 0..Total(rec[p]) - 1)'
  PROVE  RoomInv'
<1>1. \A q \in Producers \ {p} :
        pc'[q] \notin {"tail", "write_head", "write_data", "publish"}
  <2> TAKE q \in Producers \ {p}
  <2>1. pc'[q] = pc[q] /\ pc[q] \notin Enqueuing
    BY OneProducer, Sides DEF Moves
  <2> QED
    BY <2>1 DEF Enqueuing, Unsent
<1> QED
  BY <1>1 DEF RoomInv, Moves

LEMMA RoomOfProducers ==
  ASSUME OneSided, IInv, RolesInv, RoomInv, NEW ms, NEW off, Contents(ms, off),
         NEW p \in Producers, Produce(p) \/ Enqueue(p)
  PROVE  RoomInv'
<1>t. TypeOK /\ p \in Procs /\ rec[p] \in Messages
  BY Sides DEF IInv, TypeOK
<1>h. /\ Placed(head, tail) /\ Held(head, tail) < BlockSize
      /\ head \in 0..BlockSize /\ tail \in 0..BlockSize /\ BlockSize \in Nat
      /\ Held(head, tail) \in Nat
  BY HeldIs, SizesAssumption DEF RoomInv, Placed
<1>n. Total(rec[p]) \in Nat /\ Total(rec[p]) >= 3
  BY <1>t, TotalNat
<1>d. DOMAIN h = Procs /\ DOMAIN t = Procs /\ DOMAIN rec = Procs
  BY <1>t DEF TypeOK
<1>1. CASE Produce(p)
  <2>1. Moves(p, "head") /\ UNCHANGED <<head, tail, block>>
    BY <1>1, <1>t, GoMoves DEF Produce, shm
  <2>2. \A q \in Producers \ {p} : h'[q] = h[q] /\ t'[q] = t[q] /\ rec'[q] = rec[q]
    BY <1>1, <1>d, Sides DEF Produce
  <2> QED
    BY <1>t, <2>1, <2>2, RoomFrame
<1>2. CASE LoadHead(p)
  <2>1. Moves(p, "tail") /\ UNCHANGED <<head, tail, block>> /\ pc[p] \in Enqueuing /\ h'[p] = head
    BY <1>2, <1>t, <1>d, GoMoves DEF LoadHead, shm, Enqueuing, Unsent
  <2> QED
    BY <1>h, <2>1, RoomOfOne
<1>3. CASE LoadTailToWrite(p)
  <2>1. Valid(h[p], tail) /\ pc[p] = "tail" /\ pc[p] \in Enqueuing
    BY <1>3, <1>t, NeverRejected DEF LoadTailToWrite, Contents, Enqueuing, Unsent
  <2>2. UNCHANGED <<head, tail, block, h, rec>> /\ t' = [t EXCEPT ![p] = tail]
    BY <1>3 DEF LoadTailToWrite, shm
  <2>3. CASE IsFull(p, tail)
    <3>1. Moves(p, "idle")
      BY <1>3, <1>t, <2>1, <2>3, LeaveMoves DEF LoadTailToWrite, Rest
    <3> QED
      BY <1>t, <1>d, <2>2, <3>1, Sides, RoomFrame
  <2>4. CASE ~IsFull(p, tail)
    <3>1. Moves(p, "write_head")
      BY <1>3, <1>t, <2>1, <2>4, GoMoves DEF LoadTailToWrite
    <3>2. Placed(h[p], tail) /\ Held(head, tail) <= Held(h[p], tail)
      BY <2>1 DEF RoomInv
    <3>3. FreeLen(h[p], tail) = BlockSize - Held(h[p], tail) /\ Held(h[p], tail) \in Nat
      BY <3>2, HeldIs
    <3>4. Held(head, tail) + Total(rec[p]) < BlockSize
      BY <1>h, <1>n, <2>4, <3>2, <3>3 DEF IsFull
    <3>5. t'[p] = tail' /\ Held(head, tail)' + Total(rec[p])' < BlockSize
      BY <1>t, <1>d, <2>2, <3>4
    <3> QED
      BY <1>h, <2>1, <2>2, <3>1, <3>5, RoomOfOne
  <2> QED
    BY <2>3, <2>4
<1>4. CASE WriteHead(p)
  <2>1. /\ Moves(p, "write_data") /\ pc[p] = "write_head" /\ pc[p] \in Enqueuing
        /\ UNCHANGED <<head, tail, h, t, rec>> /\ block' = Copied(p, {0, 1})
    BY <1>4, <1>t, GoMoves DEF WriteHead, locals, Enqueuing, Unsent
  <2>2. t[p] = tail /\ Held(head, tail) + Total(rec[p]) < BlockSize
    BY <2>1 DEF RoomInv
  <2>3. {0, 1} \subseteq 0..Total(rec[p]) - 1 /\ Total(rec[p]) <= BlockSize
    BY <1>h, <1>n, <2>2
  <2>4. Written(p, {0, 1})'
    <3>1. \A k \in {0, 1} : Copied(p, {0, 1})[(t[p] + k) % BlockSize] = RecordCell(rec[p], k)
      BY <1>t, <1>h, <2>2, <2>3, CopiedIs
    <3> QED
      BY <2>1, <3>1 DEF Written
  <2> QED
    BY <1>h, <2>1, <2>2, <2>4, RoomOfOne
<1>5. CASE WriteData(p)
  <2> DEFINE data == 2..Total(rec[p]) - 1
  <2>1. /\ Moves(p, "publish") /\ pc[p] = "write_data" /\ pc[p] \in Enqueuing
        /\ UNCHANGED <<head, tail, h, t, rec>> /\ block' = Copied(p, data)
    BY <1>5, <1>t, GoMoves DEF WriteData, locals, Enqueuing, Unsent
  <2>2. t[p] = tail /\ Held(head, tail) + Total(rec[p]) < BlockSize /\ Written(p, {0, 1})
    BY <2>1 DEF RoomInv
  <2>3. data \subseteq 0..Total(rec[p]) - 1 /\ Total(rec[p]) <= BlockSize
    BY <1>h, <1>n, <2>2
  <2>4. Written(p, 0..Total(rec[p]) - 1)'
    <3>1. \A k \in data : Copied(p, data)[(t[p] + k) % BlockSize] = RecordCell(rec[p], k)
      BY <1>t, <1>h, <2>2, <2>3, CopiedIs
    <3>2. \A k \in {0, 1} : Copied(p, data)[(t[p] + k) % BlockSize] = RecordCell(rec[p], k)
      <4> TAKE k \in {0, 1}
      <4>1. \A j \in data : (t[p] + k) % BlockSize # (t[p] + j) % BlockSize
        <5> TAKE j \in data
        <5>1. k \in 0..BlockSize - 1 /\ j \in 0..BlockSize - 1 /\ k # j
          BY <1>h, <1>n, <2>3
        <5> QED
          BY <1>h, <2>2, <5>1, Apart
      <4>2. (t[p] + k) % BlockSize \in 0..BlockSize - 1
        BY <1>h, <2>2, ModRange
      <4>3. Copied(p, data)[(t[p] + k) % BlockSize] = block[(t[p] + k) % BlockSize]
        <5> HIDE DEF data
        <5> QED
          BY <1>t, <1>h, <2>2, <2>3, <4>1, <4>2, CopiedIs
      <4> QED
        BY <2>2, <4>3 DEF Written
    <3>3. \A k \in 0..Total(rec[p]) - 1 : k \in data \/ k \in {0, 1}
      BY <1>n
    <3> HIDE DEF data
    <3> QED
      BY <2>1, <3>1, <3>2, <3>3 DEF Written
  <2> QED
    BY <1>h, <2>1, <2>2, <2>4, RoomOfOne
<1>6. CASE Publish(p)
  <2>1. /\ Moves(p, "count") /\ pc[p] = "publish" /\ pc[p] \in Enqueuing
        /\ UNCHANGED head /\ tail' = NewTail(p)
    BY <1>6, <1>t, GoMoves DEF Publish, Enqueuing, Unsent
  <2>2. t[p] = tail /\ Held(head, tail) + Total(rec[p]) < BlockSize
    BY <2>1 DEF RoomInv
  <2>3. tail' = Step(tail, Total(rec[p]))
    BY <1>t, <1>h, <1>n, <2>1, <2>2, NewTailIs
  <2>4. Placed(head, tail)' /\ Held(head, tail)' < BlockSize
    BY <1>h, <1>n, <2>1, <2>2, <2>3, Longer
  <2> QED
    BY <2>1, <2>4, RoomOfOne
<1>7. CASE Count(p) \/ Notify(p)
  <2>1. UNCHANGED <<head, tail, block, h, t, rec>>
    BY <1>7 DEF Count, Notify, shm, locals
  <2>2. Moves(p, "notify") \/ Moves(p, "idle")
    BY <1>7, <1>t, GoMoves, LeaveMoves DEF Count, Notify, Rest
  <2> QED
    BY <1>t, <2>1, <2>2, RoomFrame
<1> QED
  BY <1>1, <1>2, <1>3, <1>4, <1>5, <1>6, <1>7 DEF Enqueue

\* A consumer changes *head_ only, and gives room.
LEMMA RoomOfConsumers ==
  ASSUME OneSided, IInv, RolesInv, RoomInv, NEW ms, NEW off, Contents(ms, off),
         NEW c \in Consumers, Dequeue(c)
  PROVE  RoomInv'
<1>t. TypeOK /\ c \in Procs /\ c \notin Producers
  BY Sides DEF IInv
<1>d. DOMAIN h = Procs /\ DOMAIN t = Procs /\ DOMAIN rec = Procs /\ DOMAIN pc = Procs
  BY <1>t DEF TypeOK
<1>1. /\ \A q \in Producers : /\ pc'[q] = pc[q] /\ h'[q] = h[q]
                              /\ t'[q] = t[q] /\ rec'[q] = rec[q]
      /\ tail' = tail /\ block' = block
  <2>1. \A q \in Producers : pc'[q] = pc[q]
    <3>1. \E s \in Steps : Go(c, s)
      <4>1. CASE CheckEnd(c)
        BY <4>1 DEF CheckEnd, Steps
      <4>2. CASE LookOutside(c)
        BY <4>2 DEF LookOutside, Steps
      <4>3. CASE LoadTailToRead(c) \/ Recheck(c)
        <5>1. Reject(c) \/ Leave(c) => \E s \in Steps : Go(c, s)
          BY DEF Reject, Leave, Rest, Steps
        <5> QED
          BY <4>3, <5>1 DEF LoadTailToRead, Recheck, Steps
      <4>4. CASE Poll(c)
        BY <4>4 DEF Poll, Steps
      <4>5. CASE \/ Lock(c) \/ LoadHead(c) \/ Discount(c) \/ ReadHead(c) \/ ReadBadHead(c)
                 \/ CopyOut(c) \/ Free(c) \/ Wake(c)
        BY <4>5 DEF Lock, LoadHead, Discount, ReadHead, ReadBadHead, CopyOut, Free, Wake, Steps
      <4> QED
        BY <4>1, <4>2, <4>3, <4>4, <4>5 DEF Dequeue
    <3> QED
      BY <1>t, <3>1, GoMoves, Sides DEF Moves
  <2>p. \A q \in Producers : q \in Procs /\ q # c
    BY <1>t, Sides
  <2>2. CASE LoadHead(c) \/ LoadTailToRead(c)
    BY <1>d, <2>p, <2>1, <2>2 DEF LoadHead, LoadTailToRead, shm
  <2>h. CASE ReadHead(c)
    BY <1>d, <2>p, <2>1, <2>h DEF ReadHead, shm
  <2>3. CASE \/ Poll(c) \/ Lock(c) \/ Discount(c) \/ ReadBadHead(c) \/ CopyOut(c)
             \/ Free(c) \/ CheckEnd(c) \/ LookOutside(c) \/ Recheck(c) \/ Wake(c)
    BY <2>1, <2>3 DEF Poll, Lock, Discount, ReadBadHead, CopyOut, Free, CheckEnd,
                      LookOutside, Recheck, Wake, shm, locals
  <2> QED
    BY <2>2, <2>h, <2>3 DEF Dequeue
<1>2. CASE Free(c)
  <2>1. /\ pc[c] = "free" /\ head' = Step(h[c], DataLen(rec[c]))
        /\ ms # <<>> /\ rec[c] = ms[1] /\ h[c] = Step(head, C_SAFE_AREA_LEN + C_HEAD_SIZE)
    BY <1>2 DEF Free, Contents, TakesFirst
  <2> DEFINE n == Total(rec[c])
  <2>2. n \in 3..Held(head, tail) /\ DataLen(rec[c]) = n - 2
    BY <2>1, FirstThere, TotalNat
  <2>3. /\ Placed(head, tail) /\ Held(head, tail) < BlockSize /\ head \in 0..BlockSize
        /\ Held(head, tail) \in Nat /\ BlockSize \in Nat
    BY HeldIs, SizesAssumption DEF RoomInv, Placed
  <2> HIDE DEF n
  <2>4. head' = Step(head, n)
    BY <2>1, <2>2, <2>3, NewHeadIs
  <2>5. Placed(head', tail) /\ Held(head', tail) = Held(head, tail) - n
    BY <2>2, <2>3, <2>4, Shorter
  <2>6. Held(head', tail) \in Nat /\ Held(head', tail) <= Held(head, tail)
    BY <2>2, <2>3, <2>5
  <2>7. \A q \in Producers : Total(rec[q]) \in Nat
    BY <1>t, TotalNat DEF TypeOK
  <2>8. \A q \in Producers : pc[q] = "tail" =>
          Placed(h[q], tail) /\ Held(head', tail) <= Held(h[q], tail)
    <3> TAKE q \in Producers
    <3>1. pc[q] = "tail" => /\ Placed(h[q], tail) /\ Held(head, tail) <= Held(h[q], tail)
                            /\ Held(h[q], tail) \in Nat
      BY HeldIs DEF RoomInv
    <3> QED
      BY <2>3, <2>6, <3>1
  <2>9. \A q \in Producers : pc[q] \in {"write_head", "write_data", "publish"} =>
          t[q] = tail /\ Held(head', tail) + Total(rec[q]) < BlockSize
    <3> TAKE q \in Producers
    <3>1. pc[q] \in {"write_head", "write_data", "publish"} =>
            t[q] = tail /\ Held(head, tail) + Total(rec[q]) < BlockSize
      BY DEF RoomInv
    <3> QED
      BY <2>3, <2>6, <2>7, <3>1
  <2>10. Placed(head', tail) /\ Held(head', tail) < BlockSize
    BY <2>3, <2>5, <2>6
  <2> QED
    BY <1>1, <2>8, <2>9, <2>10 DEF RoomInv, Written
<1>3. CASE ~Free(c)
  <2>1. head' = head
    <3>1. CASE LoadHead(c) \/ LoadTailToRead(c) \/ ReadHead(c) \/ CopyOut(c)
      BY <3>1 DEF LoadHead, LoadTailToRead, ReadHead, CopyOut, shm
    <3>2. CASE \/ Poll(c) \/ Lock(c) \/ Discount(c) \/ ReadBadHead(c) \/ CheckEnd(c)
               \/ LookOutside(c) \/ Recheck(c) \/ Wake(c)
      BY <3>2 DEF Poll, Lock, Discount, ReadBadHead, CheckEnd, LookOutside, Recheck, Wake, shm
    <3> QED
      BY <1>3, <3>1, <3>2 DEF Dequeue
  <2> QED
    BY <1>1, <2>1 DEF RoomInv, Written
<1> QED
  BY <1>2, <1>3

LEMMA RoomOfOthers ==
  ASSUME OneSided, IInv, RolesInv, RoomInv, NEW p \in Procs, Die(p) \/ Start(p)
  PROVE  RoomInv'
<1>1. UNCHANGED <<head, tail, block, h, t, rec>>
  BY DEF Die, Start, locals
<1>2. Moves(p, "dead") \/ Moves(p, "idle") \/ Moves(p, "awake") \/ Moves(p, "clear_pid")
  BY GoMoves DEF Die, Start, IInv
<1> QED
  BY <1>1, <1>2, RoomFrame

-----------------------------------------------------------------------------
(* What is held.                                                             *)

\* Only the cells between the positions count.
LEMMA HoldsElsewhere ==
  ASSUME NEW hd \in Int, NEW tl, NEW cells, NEW ms, NEW off, Holds(hd, tl, cells, ms, off),
         NEW after, Held(hd, tl) \in Nat,
         \A j \in 0..Held(hd, tl) - 1 : after[(hd + j) % BlockSize] = cells[(hd + j) % BlockSize]
  PROVE  Holds(hd, tl, after, ms, off)
<1>1. ASSUME NEW i \in 1..Len(ms), NEW k \in 0..Total(ms[i]) - 1
      PROVE  after[(hd + off[i] + k) % BlockSize] = RecordCell(ms[i], k)
  <2>1. /\ Total(ms[i]) \in Nat /\ off[i] \in Nat
        /\ off[i + 1] = off[i] + Total(ms[i]) /\ off[i + 1] <= Held(hd, tl)
    BY HoldsFacts
  <2>2. off[i] + k \in 0..Held(hd, tl) - 1 /\ hd + (off[i] + k) = hd + off[i] + k
    BY <2>1, SMTT(40)
  <2>3. after[(hd + (off[i] + k)) % BlockSize] = cells[(hd + (off[i] + k)) % BlockSize]
    BY <2>2
  <2>4. cells[(hd + off[i] + k) % BlockSize] = RecordCell(ms[i], k)
    BY DEF Holds
  <2> QED
    BY <2>2, <2>3, <2>4
<1> QED
  BY <1>1 DEF Holds

LEMMA HoldsLonger ==
  ASSUME NEW hd, NEW tl, NEW cells, NEW ms, NEW off, Holds(hd, tl, cells, ms, off),
         Placed(hd, tl), NEW m \in Messages, Held(hd, tl) + Total(m) < BlockSize,
         \A k \in 0..Total(m) - 1 : cells[(tl + k) % BlockSize] = RecordCell(m, k)
  PROVE  \E more : Holds(hd, Step(tl, Total(m)), cells, Append(ms, m), more)
<1> DEFINE n == Len(ms)
           held == Held(hd, tl)
           all == Append(ms, m)
           more == [i \in 1..n + 2 |-> IF i = n + 2 THEN held + Total(m) ELSE off[i]]
<1>1. /\ n \in Nat /\ ms \in Seq(Messages) /\ off \in [1..n + 1 -> Nat]
      /\ off[1] = 0 /\ off[n + 1] = held
  BY HoldsFacts DEF Holds
<1>2. Total(m) \in Nat /\ Total(m) >= 3
  BY TotalNat
<1>3. /\ hd \in 0..BlockSize /\ tl \in 0..BlockSize /\ BlockSize \in Nat /\ held \in Nat
      /\ held < BlockSize /\ tl = Step(hd, held)
  BY <1>2, HeldIs, SizesAssumption DEF Placed
<1>4. Held(hd, Step(tl, Total(m))) = held + Total(m)
  BY <1>2, Longer
<1>5. all \in Seq(Messages) /\ Len(all) = n + 1 /\ all[n + 1] = m
      /\ \A i \in 1..n : all[i] = ms[i]
  BY <1>1
<1>6. more \in [1..Len(all) + 1 -> Nat] /\ more[1] = 0
      /\ more[Len(all) + 1] = Held(hd, Step(tl, Total(m)))
  BY <1>1, <1>2, <1>3, <1>4, <1>5, SMTT(40)
<1>7. ASSUME NEW i \in 1..Len(all)
      PROVE  /\ more[i + 1] = more[i] + Total(all[i])
             /\ more[i + 1] <= Held(hd, Step(tl, Total(m)))
             /\ \A k \in 0..Total(all[i]) - 1 :
                  cells[(hd + more[i] + k) % BlockSize] = RecordCell(all[i], k)
  <2>1. CASE i = n + 1
    <3>1. more[i] = held /\ more[i + 1] = held + Total(m) /\ all[i] = m
      BY <1>1, <1>5, <2>1
    <3>2. ASSUME NEW k \in 0..Total(m) - 1
          PROVE  cells[(hd + held + k) % BlockSize] = RecordCell(m, k)
      <4>1. k \in Nat /\ held + k < BlockSize /\ held \in 0..BlockSize - 1
        BY <1>2, <1>3
      <4>2. (Step(hd, held) + k) % BlockSize = (hd + held + k) % BlockSize
        BY <1>3, <4>1, StepIs
      <4> QED
        BY <1>3, <4>2
    <3> QED
      BY <1>2, <1>3, <1>4, <3>1, <3>2, SMTT(40)
  <2>2. CASE i # n + 1
    <3>1. i \in 1..n /\ i + 1 \in 1..n + 1
      BY <1>1, <1>5, <2>2
    <3>2. more[i] = off[i] /\ more[i + 1] = off[i + 1] /\ all[i] = ms[i]
      BY <1>1, <1>5, <3>1
    <3>3. off[i + 1] = off[i] + Total(ms[i]) /\ off[i + 1] <= held /\ off[i + 1] \in Nat
      BY <3>1, HoldsFacts
    <3>4. \A k \in 0..Total(ms[i]) - 1 :
            cells[(hd + off[i] + k) % BlockSize] = RecordCell(ms[i], k)
      BY <3>1 DEF Holds
    <3> HIDE DEF more, all, n, held
    <3>5. off[i + 1] <= held + Total(m)
      BY <1>2, <1>3, <3>3
    <3> QED
      BY <1>4, <3>2, <3>3, <3>4, <3>5
  <2> QED
    BY <2>1, <2>2
<1> HIDE DEF more, all
<1>8. Holds(hd, Step(tl, Total(m)), cells, all, more)
  BY <1>5, <1>6, <1>7 DEF Holds
<1> QED
  BY <1>8 DEF all

LEMMA HoldsShorter ==
  ASSUME NEW hd, NEW tl, NEW cells, NEW ms, NEW off, Holds(hd, tl, cells, ms, off),
         Placed(hd, tl), Held(hd, tl) < BlockSize, ms # <<>>
  PROVE  \E less : Holds(Step(hd, Total(ms[1])), tl, cells, Tail(ms), less)
<1> DEFINE n == Len(ms)
           held == Held(hd, tl)
           rest == Tail(ms)
           len == Total(ms[1])
           less == [i \in 1..n |-> off[i + 1] - len]
<1>1. /\ n \in Nat /\ ms \in Seq(Messages) /\ off \in [1..n + 1 -> Nat]
      /\ off[1] = 0 /\ off[n + 1] = held /\ n >= 1
  BY HoldsFacts DEF Holds
<1>2. ASSUME NEW i \in 1..n
      PROVE  /\ ms[i] \in Messages /\ Total(ms[i]) \in Nat /\ Total(ms[i]) >= 3
             /\ off[i] \in Nat /\ off[i + 1] \in Nat
             /\ off[i + 1] = off[i] + Total(ms[i]) /\ off[i + 1] <= held
  BY HoldsFacts
<1>3. len \in Nat /\ len >= 3 /\ off[2] = len /\ len <= held
  <2>1. 1 \in 1..n /\ 1 + 1 = 2
    BY <1>1
  <2> QED
    BY <1>1, <1>2, <2>1
<1>4. /\ hd \in 0..BlockSize /\ tl \in 0..BlockSize /\ BlockSize \in Nat /\ held \in Nat
      /\ held < BlockSize
  BY HeldIs, SizesAssumption DEF Placed
<1>5. Held(Step(hd, len), tl) = held - len
  BY <1>3, <1>4, Shorter
<1>6. rest \in Seq(Messages) /\ Len(rest) = n - 1 /\ \A i \in 1..n - 1 : rest[i] = ms[i + 1]
  BY <1>1
<1>7. \A i \in 1..n : off[i + 1] >= len
  <2> DEFINE T == {i \in 1..n : off[i + 1] < len}
  <2>1. SUFFICES ASSUME T # {} PROVE FALSE
    <3>1. \A i \in 1..n : off[i + 1] \in Nat
      BY <1>2
    <3> QED
      BY <1>3, <3>1, SMTT(40)
  <2>2. PICK i \in T : \A j \in T : i <= j
    <3>1. T \in SUBSET Nat
      BY <1>1
    <3> HIDE DEF T
    <3> QED
      BY <2>1, <3>1, Least
  <2>3. i # 1
    BY <1>1, <1>3
  <2>4. i - 1 \in 1..n /\ (i - 1) + 1 = i
    BY <1>1, <2>3
  <2>5. i - 1 \notin T
    <3>1. i \in Nat
      BY <1>1
    <3> HIDE DEF T
    <3> QED
      BY <2>2, <3>1
  <2>6. off[i] \in Nat /\ off[i] >= len
    BY <1>2, <1>3, <2>4, <2>5
  <2>7. off[i + 1] = off[i] + Total(ms[i]) /\ Total(ms[i]) \in Nat
    BY <1>2
  <2> QED
    BY <1>3, <2>6, <2>7
<1>8. less \in [1..Len(rest) + 1 -> Nat] /\ less[1] = 0 /\ less[Len(rest) + 1] = held - len
  <2>1. Len(rest) + 1 = n /\ 1 \in 1..n /\ n \in 1..n /\ 1 + 1 = 2
    BY <1>1, <1>6
  <2>2. \A i \in 1..n : off[i + 1] - len \in Nat
    BY <1>2, <1>3, <1>7
  <2> QED
    BY <1>1, <1>3, <2>1, <2>2
<1>9. ASSUME NEW i \in 1..Len(rest)
      PROVE  /\ less[i + 1] = less[i] + Total(rest[i])
             /\ less[i + 1] <= held - len
             /\ \A k \in 0..Total(rest[i]) - 1 :
                  cells[(Step(hd, len) + less[i] + k) % BlockSize] = RecordCell(rest[i], k)
  <2>1. i \in 1..n /\ i + 1 \in 1..n
    BY <1>1, <1>6
  <2>2. rest[i] = ms[i + 1]
    BY <1>1, <1>6
  <2>3. less[i] = off[i + 1] - len /\ less[i + 1] = off[(i + 1) + 1] - len
    BY <2>1
  <2>4. /\ Total(ms[i + 1]) \in Nat /\ off[i + 1] \in Nat /\ off[i + 1] >= len
        /\ off[(i + 1) + 1] = off[i + 1] + Total(ms[i + 1]) /\ off[(i + 1) + 1] <= held
    BY <1>2, <1>7, <2>1
  <2>5. ASSUME NEW k \in 0..Total(ms[i + 1]) - 1
        PROVE  cells[(Step(hd, len) + less[i] + k) % BlockSize] = RecordCell(ms[i + 1], k)
    <3> DEFINE x == less[i] + k
    <3>1. x \in Nat /\ len + x < BlockSize /\ len \in 0..BlockSize - 1 /\ len + x = off[i + 1] + k
      <4>1. k \in Nat /\ k <= Total(ms[i + 1]) - 1
        BY <2>4
      <4>2. len \in 0..BlockSize - 1
        BY <1>3, <1>4
      <4>3. off[i + 1] + Total(ms[i + 1]) < BlockSize
        <5> HIDE DEF len, held
        <5> QED
          BY <1>4, <2>4
      <4>4. x = off[i + 1] - len + k
        BY <2>3
      <4>5. off[i + 1] \in Nat /\ off[i + 1] >= len /\ Total(ms[i + 1]) \in Nat
        BY <2>4
      <4>6. BlockSize \in Nat
        BY <1>4
      <4> HIDE DEF x, len, held
      <4>7. len + x = off[i + 1] + k
        BY <4>1, <4>2, <4>4, <4>5, <4>6, SMTT(40)
      <4>8. x \in Nat
        BY <4>1, <4>2, <4>4, <4>5, <4>6
      <4>9. len + x < BlockSize
        BY <4>1, <4>3, <4>5, <4>6, <4>7
      <4> QED
        BY <4>2, <4>7, <4>8, <4>9
    <3>2. (Step(hd, len) + x) % BlockSize = (hd + len + x) % BlockSize
      <4> HIDE DEF x, len
      <4> QED
        BY <1>4, <3>1, StepIs
    <3>3. cells[(hd + off[i + 1] + k) % BlockSize] = RecordCell(ms[i + 1], k)
      BY <2>1 DEF Holds
    <3>4. hd + len + x = hd + off[i + 1] + k /\ Step(hd, len) \in Int
      <4>1. Step(hd, len) \in Int
        <5> HIDE DEF len
        <5> QED
          BY <1>3, <1>4 DEF Step
      <4>2. k \in Int
        BY <2>4
      <4>3. hd \in Int /\ off[i + 1] \in Int /\ x \in Int /\ len \in Int
            /\ len + x = off[i + 1] + k
        BY <1>4, <2>4, <3>1, SMTT(40)
      <4> HIDE DEF x, len
      <4> QED
        BY <4>1, <4>2, <4>3, SMTT(40)
    <3>5. Step(hd, len) + less[i] + k = Step(hd, len) + x
      <4>1. less[i] \in Int /\ k \in Int
        BY <2>3, <2>4, <1>3, SMTT(40)
      <4> HIDE DEF less, len
      <4> QED
        BY <3>4, <4>1
    <3> QED
      BY <3>2, <3>3, <3>4, <3>5
  <2> HIDE DEF less, rest, len, held
  <2>6. less[i + 1] = less[i] + Total(rest[i]) /\ less[i + 1] <= held - len
    BY <1>3, <1>4, <2>2, <2>3, <2>4, SMTT(40)
  <2> QED
    BY <2>2, <2>5, <2>6
<1> HIDE DEF less, rest
<1>10. Holds(Step(hd, len), tl, cells, rest, less)
  BY <1>5, <1>6, <1>8, <1>9 DEF Holds
<1> QED
  BY <1>10 DEF rest

-----------------------------------------------------------------------------
(* What a step leaves of the rest.                                           *)

\* p changes its own locals only.
Alone(p) ==
  /\ \A q \in Procs \ {p} : h'[q] = h[q] /\ t'[q] = t[q] /\ rec'[q] = rec[q]
  /\ \A c \in Consumers \ {p} : buf'[c] = buf[c]

Takers == {"tail", "copy", "free", "check_end"} \cup Reading

\* The others still take the first message.
LEMMA FirstFrame ==
  ASSUME NEW ms, TakesFirst(ms), NEW p \in Procs, NEW s, Moves(p, s), Alone(p),
         head' = head, p \in Consumers => s \notin Takers
  PROVE  TakesFirst(ms)'
<1>1. ASSUME NEW c \in Consumers, c # p
      PROVE  /\ pc'[c] = pc[c] /\ h'[c] = h[c] /\ t'[c] = t[c]
             /\ rec'[c] = rec[c] /\ buf'[c] = buf[c]
  BY <1>1, Sides DEF Moves, Alone
<1>2. p \in Consumers => pc'[p] = s /\ s \notin Takers
  BY DEF Moves
<1> QED
  BY <1>1, <1>2 DEF TakesFirst, Takers, Reading

\* A message behind them does not matter to them.
LEMMA FirstAppended ==
  ASSUME NEW ms \in Seq(Messages), NEW m, TakesFirst(ms)
  PROVE  TakesFirst(Append(ms, m))
<1>1. ms # <<>> => Append(ms, m) # <<>> /\ Append(ms, m)[1] = ms[1]
  OBVIOUS
<1> QED
  BY <1>1 DEF TakesFirst

\* There is one consumer to look at.
LEMMA FirstOfOne ==
  ASSUME OneSided, RolesInv, NEW c \in Consumers, NEW s, Moves(c, s), pc[c] \in Dequeuing,
         NEW ms,
         s \in {"tail"} \cup Reading => h'[c] = head',
         s \in Reading => ms # <<>> /\ Total(ms[1]) <= UsedLen(head', t'[c]),
         s \in {"copy", "free"} => /\ ms # <<>> /\ rec'[c] = ms[1]
                                   /\ h'[c] = Step(head', C_SAFE_AREA_LEN + C_HEAD_SIZE),
         s = "check_end" => rec'[c] \in Messages,
         s \in {"free", "check_end"} => buf'[c] = Payload(rec'[c])
  PROVE  TakesFirst(ms)'
<1>1. \A q \in Consumers \ {c} : pc'[q] \notin Dequeuing
  BY OneConsumer, Sides DEF Moves
<1>2. pc'[c] = s
  BY DEF Moves
<1> QED
  BY <1>1, <1>2 DEF TakesFirst, Dequeuing, Reading

\* Nobody begins a message or takes one out.
LEMMA FlowsFrame ==
  ASSUME NEW p \in Procs, NEW s, Moves(p, s), Alone(p),
         p \in Producers /\ s \in Unsent => pc[p] \in Unsent /\ rec'[p] = rec[p],
         p \in Consumers => s # "check_end"
  PROVE  Taken' \subseteq Taken /\ Coming' \subseteq Coming
<1>1. Taken' \subseteq Taken
  <2>1. ASSUME NEW c \in Consumers, pc'[c] = "check_end" PROVE rec'[c].flow \in Taken
    <3>1. c # p /\ c \in Procs
      BY <2>1, Sides DEF Moves
    <3>2. pc[c] = "check_end" /\ rec'[c] = rec[c]
      BY <2>1, <3>1 DEF Moves, Alone
    <3> QED
      BY <3>2 DEF Taken
  <2> QED
    BY <2>1 DEF Taken
<1>2. Coming' \subseteq Coming
  <2>1. ASSUME NEW q \in Producers, pc'[q] \in Unsent PROVE rec'[q].flow \in Coming
    <3>1. q \in Procs
      BY Sides
    <3>2. pc[q] \in Unsent /\ rec'[q] = rec[q]
      BY <2>1, <3>1 DEF Moves, Alone
    <3> QED
      BY <3>2 DEF Coming
  <2> QED
    BY <2>1 DEF Coming
<1> QED
  BY <1>1, <1>2

LEMMA OrderFrame ==
  ASSUME NEW ms, InOrder(ms), Taken' \subseteq Taken, Coming' \subseteq Coming,
         UNCHANGED <<got, made>>
  PROVE  InOrder(ms)'
<1>1. got' = got /\ made' = made /\ Flows(got)' = Flows(got)
  BY DEF Flows
<1> QED
  BY <1>1 DEF InOrder, Before, Sorted, Flows

\* Whom the count concerns.
LEMMA CountedFrame ==
  ASSUME NEW ms, Counted(ms), NEW p \in Procs, NEW s, Moves(p, s),
         UNCHANGED <<count, deaths>>,
         p \in Producers => /\ s = "count" <=> pc[p] = "count"
                            /\ pc[p] = "notify" => fifo'
                            /\ fifo => fifo',
         p \in Consumers => /\ s \in {"read_head", "copy", "free"}
                                 <=> pc[p] \in {"read_head", "copy", "free"}
                            /\ s = "waiting" => ~(deaths = 0 /\ count > 0)
  PROVE  Counted(ms)'
<1>1. Uncounted' = Uncounted /\ Discounted' = Discounted
  BY Sides DEF Uncounted, Discounted, Moves
<1>2. ASSUME deaths = 0, count > 0
      PROVE  \/ fifo'
             \/ \E q \in Producers : pc'[q] = "notify"
             \/ \E c \in Consumers : pc'[c] # "waiting"
  <2>1. CASE p \in Producers
    <3>1. CASE fifo
      BY <2>1, <3>1
    <3>2. CASE \E q \in Producers : pc[q] = "notify"
      BY <2>1, <3>2, Sides DEF Moves
    <3>3. CASE \E c \in Consumers : pc[c] # "waiting"
      BY <2>1, <3>3, Sides DEF Moves
    <3> QED
      BY <1>2, <3>1, <3>2, <3>3 DEF Counted
  <2>2. CASE p \in Consumers
    BY <1>2, <2>2 DEF Moves
  <2> QED
    BY <2>1, <2>2, Sides
<1> QED
  BY <1>1, <1>2 DEF Counted, One

-----------------------------------------------------------------------------
(* The contents of the queue, step by step.                                  *)

LEMMA OrderOfProduce ==
  ASSUME OneSided, IInv, RolesInv, NEW ms, InOrder(ms), NEW p \in Producers, Produce(p)
  PROVE  InOrder(ms)'
<1>1. PICK len \in DataLens : rec' = [rec EXCEPT ![p] = [flow |-> made + 1, len |-> len]]
  BY DEF Produce
<1>2. /\ Moves(p, "head") /\ got' = got /\ made' = made + 1 /\ made \in Nat
      /\ DOMAIN rec = Procs /\ p \in Procs
  BY GoMoves, Sides, SizesAssumption DEF Produce, IInv, TypeOK
<1>3. Taken' = Taken
  <2>1. \A c \in Consumers : pc'[c] = pc[c] /\ rec'[c] = rec[c]
    BY <1>1, <1>2, Sides DEF Moves
  <2> QED
    BY <2>1 DEF Taken
<1>4. Coming' \subseteq Coming \cup {made + 1}
  <2>1. ASSUME NEW q \in Producers, pc'[q] \in Unsent
        PROVE  rec'[q].flow \in Coming \cup {made + 1}
    <3>1. CASE q = p
      BY <1>1, <1>2, <3>1
    <3>2. CASE q # p
      <4>1. rec'[q] = rec[q] /\ pc'[q] = pc[q]
        BY <1>1, <1>2, <3>2, Sides DEF Moves
      <4> QED
        BY <2>1, <4>1 DEF Coming
    <3> QED
      BY <3>1, <3>2
  <2> QED
    BY <2>1 DEF Coming
<1> DEFINE passed == Flows(got) \cup Taken \cup Flows(ms)
<1>5. \A a \in passed \cup Coming : a \in 0..made
  BY DEF InOrder
<1>6. Before(passed, Coming)
  BY DEF InOrder
<1>7. Before(passed, Coming')
  <2>1. \A a \in passed : a < made + 1
    BY <1>2, <1>5
  <2> HIDE DEF passed
  <2> QED
    BY <1>4, <1>6, <2>1 DEF Before
<1>8. \A a \in passed \cup Coming' : a \in 0..made + 1
  BY <1>2, <1>4, <1>5
<1>9. Flows(got)' = Flows(got)
  BY <1>2 DEF Flows
<1> QED
  BY <1>2, <1>3, <1>7, <1>8, <1>9 DEF InOrder, Sorted, Flows

LEMMA ContentsOfProducers ==
  ASSUME OneSided, IInv, RolesInv, RoomInv, NEW ms, NEW off, Contents(ms, off),
         NEW p \in Producers, Produce(p) \/ Enqueue(p), ~Publish(p)
  PROVE  Contents(ms, off)'
<1>t. TypeOK /\ p \in Procs /\ p \notin Consumers /\ DOMAIN pc = Procs
      /\ DOMAIN h = Procs /\ DOMAIN t = Procs /\ DOMAIN rec = Procs
  BY Sides DEF IInv, TypeOK
<1>c. Holds(head, tail, block, ms, off) /\ TakesFirst(ms) /\ InOrder(ms) /\ Counted(ms)
  BY DEF Contents
<1>1. CASE Produce(p)
  <2>1. /\ Moves(p, "head") /\ pc[p] = "idle"
        /\ UNCHANGED <<head, tail, block, count, fifo, deaths, buf, h, t>>
    BY <1>1, <1>t, GoMoves DEF Produce, shm
  <2>2. Alone(p)
    BY <1>1, <1>t, <2>1 DEF Produce, Alone
  <2>3. InOrder(ms)'
    BY <1>1, <1>c, OrderOfProduce
  <2>4. TakesFirst(ms)'
    BY <1>t, <1>c, <2>1, <2>2, FirstFrame
  <2>5. Counted(ms)'
    BY <1>t, <1>c, <2>1, CountedFrame
  <2> QED
    BY <1>c, <2>1, <2>3, <2>4, <2>5 DEF Contents
<1>2. ASSUME NEW s, Moves(p, s), Alone(p), UNCHANGED <<head, got, made>>,
             Holds(head, tail, block, ms, off)',
             s \in Unsent => pc[p] \in Unsent /\ rec'[p] = rec[p],
             Counted(ms)'
      PROVE  Contents(ms, off)'
  <2>1. Taken' \subseteq Taken /\ Coming' \subseteq Coming
    BY <1>2, <1>t, FlowsFrame
  <2>2. InOrder(ms)'
    BY <1>2, <1>c, <2>1, OrderFrame
  <2>3. TakesFirst(ms)'
    BY <1>2, <1>t, <1>c, FirstFrame
  <2> QED
    BY <1>2, <2>2, <2>3 DEF Contents
<1>3. CASE LoadHead(p)
  <2>1. /\ Moves(p, "tail") /\ pc[p] = "head"
        /\ UNCHANGED <<head, tail, block, count, fifo, deaths, buf, t, rec, got, made>>
    BY <1>3, <1>t, GoMoves DEF LoadHead, shm, bounded
  <2>2. Alone(p)
    BY <1>3, <1>t, <2>1 DEF LoadHead, Alone
  <2>3. Counted(ms)'
    BY <1>t, <1>c, <2>1, CountedFrame
  <2> QED
    BY <1>2, <1>c, <2>1, <2>2, <2>3 DEF Unsent
<1>4. CASE LoadTailToWrite(p)
  <2>1. /\ Valid(h[p], tail) /\ pc[p] = "tail" /\ t' = [t EXCEPT ![p] = tail]
        /\ UNCHANGED <<head, tail, block, count, fifo, deaths, buf, h, rec, got, made>>
    BY <1>4, <1>t, <1>c, NeverRejected DEF LoadTailToWrite, shm, bounded
  <2>2. Alone(p)
    BY <1>t, <2>1 DEF Alone
  <2>3. Moves(p, "idle") \/ Moves(p, "write_head")
    BY <1>4, <1>t, <2>1, GoMoves, LeaveMoves DEF LoadTailToWrite, Rest
  <2>4. Counted(ms)'
    BY <1>t, <1>c, <2>1, <2>3, CountedFrame
  <2> QED
    BY <1>2, <1>c, <2>1, <2>2, <2>3, <2>4 DEF Unsent
<1>5. ASSUME NEW which, block' = Copied(p, which), which \subseteq 0..Total(rec[p]) - 1,
             pc[p] \in {"write_head", "write_data"}, UNCHANGED <<head, tail>>
      PROVE  Holds(head, tail, block, ms, off)'
  <2>1. /\ head \in 0..BlockSize /\ tail \in 0..BlockSize /\ BlockSize \in Nat
        /\ Held(head, tail) \in Nat /\ Held(head, tail) < BlockSize
        /\ tail = Step(head, Held(head, tail))
    BY HeldIs, SizesAssumption DEF RoomInv, Placed
  <2>2. t[p] = tail /\ Held(head, tail) + Total(rec[p]) < BlockSize
    BY <1>5 DEF RoomInv
  <2>3. Total(rec[p]) \in Nat
    BY <1>t, TotalNat DEF TypeOK
  <2> DEFINE held == Held(head, tail)
  <2> HIDE DEF held
  <2>4. ASSUME NEW j \in 0..held - 1, NEW k \in which
        PROVE  (head + j) % BlockSize # (t[p] + k) % BlockSize
    <3>1. /\ k \in Nat /\ held + k < BlockSize /\ held \in 0..BlockSize - 1
          /\ j \in 0..BlockSize - 1 /\ held + k \in 0..BlockSize - 1 /\ j # held + k
      BY <1>5, <2>1, <2>2, <2>3 DEF held
    <3>2. (Step(head, held) + k) % BlockSize = (head + held + k) % BlockSize
      BY <2>1, <3>1, StepIs
    <3>3. head + (held + k) = head + held + k
      BY <2>1, <3>1
    <3>4. (head + j) % BlockSize # (head + (held + k)) % BlockSize
      BY <2>1, <3>1, Apart
    <3> QED
      BY <2>1, <2>2, <3>2, <3>3, <3>4 DEF held
  <2>5. \A j \in 0..held - 1 :
          block'[(head + j) % BlockSize] = block[(head + j) % BlockSize]
    <3> TAKE j \in 0..held - 1
    <3>1. (head + j) % BlockSize \in 0..BlockSize - 1
      <4>1. head + j \in Int
        BY <2>1
      <4> QED
        BY <4>1, ModRange
    <3>2. t[p] \in 0..BlockSize /\ Total(rec[p]) <= BlockSize
      BY <2>1, <2>2, <2>3
    <3>3. Copied(p, which)[(head + j) % BlockSize] = block[(head + j) % BlockSize]
      BY <1>t, <1>5, <2>4, <3>1, <3>2, CopiedIs
    <3> QED
      BY <1>5, <3>3
  <2>6. Holds(head, tail, block', ms, off)
    BY <1>c, <2>1, <2>5, HoldsElsewhere DEF held
  <2> QED
    BY <1>5, <2>6
<1>6. CASE WriteHead(p) \/ WriteData(p)
  <2>1. UNCHANGED <<head, tail, count, fifo, deaths, buf, h, t, rec, got, made>>
    BY <1>6 DEF WriteHead, WriteData, locals, bounded
  <2>2. Alone(p)
    BY <2>1 DEF Alone
  <2>3. \/ Moves(p, "write_data") /\ pc[p] = "write_head" /\ block' = Copied(p, {0, 1})
        \/ Moves(p, "publish") /\ pc[p] = "write_data" /\ block' = Copied(p, 2..Total(rec[p]) - 1)
    BY <1>6, <1>t, GoMoves DEF WriteHead, WriteData
  <2>4. {0, 1} \subseteq 0..Total(rec[p]) - 1 /\ 2..Total(rec[p]) - 1 \subseteq 0..Total(rec[p]) - 1
    <3>1. Total(rec[p]) \in Nat /\ Total(rec[p]) >= 3
      BY <1>t, TotalNat DEF TypeOK
    <3> QED
      BY <3>1
  <2>5. Holds(head, tail, block, ms, off)'
    BY <1>5, <2>1, <2>3, <2>4
  <2>6. Counted(ms)'
    BY <1>t, <1>c, <2>1, <2>3, CountedFrame
  <2> QED
    BY <1>2, <2>1, <2>2, <2>3, <2>5, <2>6 DEF Unsent
<1>7. CASE Count(p)
  <2>1. /\ pc[p] = "count" /\ count' = count + 1 /\ count \in Int
        /\ UNCHANGED <<head, tail, block, fifo, deaths, buf, h, t, rec, got, made>>
    BY <1>7, <1>t DEF Count, locals, bounded, TypeOK
  <2>2. Alone(p)
    BY <2>1 DEF Alone
  <2>3. IF count' = 1 THEN Moves(p, "notify") ELSE Moves(p, "idle")
    BY <1>7, <1>t, GoMoves, LeaveMoves DEF Count, Rest
  <2>4. Counted(ms)'
    <3>1. One(Uncounted) = 1 /\ One(Uncounted') = 0 /\ Discounted' = Discounted
      <4>1. p \in Uncounted
        BY <2>1 DEF Uncounted
      <4>2. \A q \in Producers : pc'[q] # "count"
        <5> TAKE q \in Producers
        <5>1. CASE q = p
          BY <2>3, <5>1 DEF Moves
        <5>2. CASE q # p
          <6>1. pc'[q] = pc[q]
            BY <2>3, <5>2, Sides DEF Moves
          <6>2. pc[q] # "count"
            BY <2>1, <5>2, OneProducer DEF Enqueuing
          <6> QED
            BY <6>1, <6>2
        <5> QED
          BY <5>1, <5>2
      <4>3. Uncounted' = {}
        BY <4>2 DEF Uncounted
      <4>4. Discounted' = Discounted
        BY <1>t, <2>3, Sides DEF Discounted, Moves
      <4> QED
        BY <4>1, <4>3, <4>4 DEF One
    <3>2. One(Discounted) \in Int /\ Len(ms) \in Int
      BY <1>c, HoldsFacts DEF One
    <3>3. ASSUME deaths = 0
          PROVE  count' = Len(ms) - One(Uncounted') - One(Discounted')
      <4>1. count = Len(ms) - One(Uncounted) - One(Discounted)
        BY <1>c, <3>3 DEF Counted
      <4> QED
        BY <2>1, <3>1, <3>2, <4>1
    <3>4. ASSUME deaths = 0, count' > 0
          PROVE  \/ fifo'
                 \/ \E q \in Producers : pc'[q] = "notify"
                 \/ \E c \in Consumers : pc'[c] # "waiting"
      <4>1. CASE count' = 1
        BY <2>3, <4>1 DEF Moves
      <4>2. CASE count' # 1
        <5>1. count > 0
          BY <2>1, <3>4, <4>2
        <5>2. CASE \E q \in Producers : pc[q] = "notify"
          BY <2>1, <5>2, OneProducer DEF Enqueuing
        <5>3. CASE \E c \in Consumers : pc[c] # "waiting"
          BY <1>t, <2>3, <5>3, Sides DEF Moves
        <5> QED
          BY <1>c, <2>1, <3>4, <5>1, <5>2, <5>3 DEF Counted
      <4> QED
        BY <4>1, <4>2
    <3> QED
      BY <2>1, <3>3, <3>4 DEF Counted
  <2>5. Holds(head, tail, block, ms, off)'
    BY <1>c, <2>1
  <2> QED
    BY <1>2, <2>1, <2>2, <2>3, <2>4, <2>5 DEF Unsent
<1>8. CASE Notify(p)
  <2>1. /\ pc[p] = "notify" /\ fifo'
        /\ UNCHANGED <<head, tail, block, count, deaths, buf, h, t, rec, got, made>>
    BY <1>8 DEF Notify, shm, locals, bounded
  <2>2. Alone(p) /\ Moves(p, "idle")
    BY <1>8, <1>t, <2>1, LeaveMoves DEF Notify, Rest, Alone
  <2>3. Counted(ms)'
    BY <1>t, <1>c, <2>1, <2>2, CountedFrame
  <2> QED
    BY <1>2, <1>c, <2>1, <2>2, <2>3 DEF Unsent
<1> QED
  BY <1>1, <1>3, <1>4, <1>6, <1>7, <1>8 DEF Enqueue

\* A message counts as sent when *tail_ has moved past it.
LEMMA ContentsOfPublish ==
  ASSUME OneSided, IInv, RolesInv, RoomInv, NEW ms, NEW off, Contents(ms, off),
         NEW p \in Producers, Publish(p)
  PROVE  \E more : Contents(Append(ms, rec[p]), more)'
<1> DEFINE all == Append(ms, rec[p])
<1>t. TypeOK /\ p \in Procs /\ p \notin Consumers /\ rec[p] \in Messages
  BY Sides DEF IInv, TypeOK
<1>c. Holds(head, tail, block, ms, off) /\ TakesFirst(ms) /\ InOrder(ms) /\ Counted(ms)
  BY DEF Contents
<1>1. /\ Moves(p, "count") /\ pc[p] = "publish" /\ tail' = NewTail(p)
      /\ UNCHANGED <<head, block, count, fifo, deaths, buf, h, t, rec, got, made>>
  BY <1>t, GoMoves DEF Publish, locals, bounded
<1>2. /\ t[p] = tail /\ Held(head, tail) + Total(rec[p]) < BlockSize
      /\ Written(p, 0..Total(rec[p]) - 1) /\ Placed(head, tail)
  BY <1>1 DEF RoomInv
<1>3. tail' = Step(tail, Total(rec[p]))
  <2>1. /\ Held(head, tail) \in Nat /\ tail \in 0..BlockSize /\ BlockSize \in Nat
        /\ Total(rec[p]) \in Nat
    BY <1>t, <1>2, HeldIs, TotalNat, SizesAssumption DEF Placed
  <2>2. Total(rec[p]) < BlockSize
    BY <1>2, <2>1
  <2> QED
    BY <1>t, <1>1, <1>2, <2>1, <2>2, NewTailIs
<1>4. \E more : Holds(head, tail, block, all, more)'
  <2>1. \A k \in 0..Total(rec[p]) - 1 : block[(tail + k) % BlockSize] = RecordCell(rec[p], k)
    BY <1>2 DEF Written
  <2>2. \E more : Holds(head, Step(tail, Total(rec[p])), block, all, more)
    BY <1>t, <1>c, <1>2, <2>1, HoldsLonger
  <2>3. all' = all /\ head' = head /\ block' = block
    BY <1>1
  <2> HIDE DEF all
  <2> QED
    BY <1>3, <2>2, <2>3
<1>s. /\ ms \in Seq(Messages) /\ Len(ms) \in Nat /\ Len(all) = Len(ms) + 1
      /\ DOMAIN ms = 1..Len(ms) /\ DOMAIN all = 1..Len(ms) + 1
      /\ all[Len(ms) + 1] = rec[p] /\ \A i \in 1..Len(ms) : all[i] = ms[i]
  BY <1>t, <1>c, HoldsFacts
<1>5. TakesFirst(all)'
  <2>1. TakesFirst(all)
    BY <1>c, <1>s, FirstAppended
  <2>2. Alone(p)
    BY <1>1 DEF Alone
  <2>3. \A x : TakesFirst(x) => TakesFirst(x)'
    BY <1>t, <1>1, <2>2, FirstFrame
  <2>4. all' = all
    BY <1>1
  <2> HIDE DEF all
  <2> QED
    BY <2>1, <2>3, <2>4
<1>6. InOrder(all)'
  <2> DEFINE m == rec[p].flow
             passed == Flows(got) \cup Taken
  <2>1. Coming' = {}
    <3>1. \A q \in Producers : pc'[q] \notin Unsent
      <4> TAKE q \in Producers
      <4>1. CASE q = p
        BY <1>1, <4>1 DEF Moves, Unsent
      <4>2. CASE q # p
        <5>1. pc'[q] = pc[q] /\ pc[q] \notin Enqueuing
          BY <1>1, <4>2, OneProducer, Sides DEF Moves, Enqueuing, Unsent
        <5> QED
          BY <5>1 DEF Enqueuing
      <4> QED
        BY <4>1, <4>2
    <3> QED
      BY <3>1 DEF Coming
  <2>2. Taken' = Taken /\ Flows(got)' = Flows(got)
    <3>1. \A c \in Consumers : pc'[c] = pc[c]
      BY <1>t, <1>1, Sides DEF Moves
    <3> QED
      BY <1>1, <3>1 DEF Taken, Flows
  <2>3. m \in Coming
    BY <1>1 DEF Coming, Unsent
  <2>4. Flows(all) = Flows(ms) \cup {m}
    <3>1. ASSUME NEW i \in DOMAIN all PROVE all[i].flow \in Flows(ms) \cup {m}
      BY <1>s DEF Flows
    <3>2. ASSUME NEW i \in DOMAIN ms PROVE ms[i].flow \in Flows(all)
      <4>1. i \in DOMAIN all /\ all[i] = ms[i]
        BY <1>s
      <4> QED
        BY <4>1 DEF Flows
    <3>3. m \in Flows(all)
      <4>1. Len(ms) + 1 \in DOMAIN all
        BY <1>s
      <4> QED
        BY <4>1, <1>s DEF Flows
    <3> QED
      BY <3>1, <3>2, <3>3 DEF Flows
  <2>5. \A a \in passed \cup Flows(ms) : a < m
    BY <1>c, <2>3 DEF InOrder, Before
  <2>6. Sorted(all)
    <3> SUFFICES ASSUME NEW i \in DOMAIN all, NEW j \in DOMAIN all, i < j
                 PROVE  all[i].flow < all[j].flow
      BY DEF Sorted
    <3>1. i \in 1..Len(ms)
      BY <1>s
    <3>2. CASE j = Len(ms) + 1
      BY <1>s, <2>5, <3>1, <3>2 DEF Flows
    <3>3. CASE j # Len(ms) + 1
      <4>1. j \in 1..Len(ms)
        BY <1>s, <3>3
      <4>2. ms[i].flow < ms[j].flow
        BY <1>c, <1>s, <3>1, <4>1 DEF InOrder, Sorted
      <4> QED
        BY <1>s, <3>1, <4>1, <4>2
    <3> QED
      BY <3>2, <3>3
  <2>7. Before(passed, Flows(all))
    <3>1. Before(passed, Flows(ms))
      BY <1>c DEF InOrder
    <3> HIDE DEF all, passed
    <3> QED
      BY <2>4, <2>5, <3>1 DEF Before
  <2>8. \A a \in passed \cup Flows(all) : a \in 0..made
    <3>1. \A a \in passed \cup Flows(ms) \cup Coming : a \in 0..made
      BY <1>c DEF InOrder
    <3> HIDE DEF all, passed
    <3> QED
      BY <2>3, <2>4, <3>1
  <2>9. Sorted(got) /\ Before(Flows(got), Taken)
    BY <1>c DEF InOrder
  <2>10. Sorted(got)' /\ Before(Flows(got), Taken)' /\ made' = made /\ all' = all
    BY <1>1, <2>2, <2>9 DEF Sorted, Before
  <2>11. Flows(all)' = Flows(all) /\ Sorted(all)' = Sorted(all)
    <3>1. all' = all
      BY <1>1
    <3> HIDE DEF all
    <3> QED
      BY <3>1 DEF Flows, Sorted
  <2> HIDE DEF all
  <2>12. Before(Flows(got) \cup Taken, Flows(all))'
    BY <2>2, <2>7, <2>11 DEF Before
  <2>13. Before(Flows(got) \cup Taken \cup Flows(all), Coming)'
    BY <2>1 DEF Before
  <2>14. (\A a \in Flows(got) \cup Taken \cup Flows(all) \cup Coming : a \in 0..made)'
    BY <2>1, <2>2, <2>8, <2>10, <2>11
  <2>15. Sorted(all)'
    BY <2>6, <2>11
  <2> QED
    BY <2>10, <2>12, <2>13, <2>14, <2>15 DEF InOrder
<1>7. Counted(all)'
  <2>1. One(Uncounted) = 0 /\ One(Uncounted') = 1 /\ Discounted' = Discounted
    <3>1. \A q \in Producers : pc[q] # "count"
      <4> TAKE q \in Producers
      <4>1. CASE q = p
        BY <1>1, <4>1
      <4>2. CASE q # p
        BY <1>1, <4>2, OneProducer DEF Enqueuing, Unsent
      <4> QED
        BY <4>1, <4>2
    <3>2. p \in Uncounted'
      BY <1>1 DEF Uncounted, Moves
    <3>3. Uncounted = {}
      BY <3>1 DEF Uncounted
    <3>4. Discounted' = Discounted
      BY <1>t, <1>1, Sides DEF Discounted, Moves
    <3> QED
      BY <3>2, <3>3, <3>4 DEF One
  <2>2. ASSUME deaths = 0
        PROVE  count = Len(all) - One(Uncounted') - One(Discounted')
    <3>1. count = Len(ms) - One(Uncounted) - One(Discounted)
      BY <1>c, <2>2 DEF Counted
    <3>2. One(Discounted) \in Int
      BY DEF One
    <3> QED
      BY <1>s, <2>1, <3>1, <3>2
  <2>3. ASSUME deaths = 0, count > 0
        PROVE  \/ fifo
               \/ \E q \in Producers : pc'[q] = "notify"
               \/ \E c \in Consumers : pc'[c] # "waiting"
    <3>1. ASSUME NEW q \in Producers, pc[q] = "notify" PROVE pc'[q] = "notify"
      <4>1. q # p /\ q \in Procs
        BY <1>1, <3>1, Sides
      <4> QED
        BY <1>1, <3>1, <4>1 DEF Moves
    <3>2. \A c \in Consumers : pc'[c] = pc[c]
      BY <1>t, <1>1, Sides DEF Moves
    <3> QED
      BY <1>c, <2>3, <3>1, <3>2 DEF Counted
  <2>4. all' = all
    BY <1>1
  <2> HIDE DEF all
  <2> QED
    BY <1>1, <2>2, <2>3, <2>4 DEF Counted
<1>8. all' = all
  BY <1>1
<1> HIDE DEF all
<1>9. PICK more : Holds(head', tail', block', all, more)
  BY <1>4, <1>8
<1>10. Contents(all, more)'
  BY <1>5, <1>6, <1>7, <1>8, <1>9 DEF Contents
<1> QED
  BY <1>8, <1>10 DEF all

\* Who may have been told of the count.
LEMMA DiscountedIs ==
  ASSUME OneSided, RolesInv, NEW c \in Consumers, pc[c] \in Dequeuing, NEW s, Moves(c, s)
  PROVE  /\ One(Discounted) = IF pc[c] \in {"read_head", "copy", "free"} THEN 1 ELSE 0
         /\ One(Discounted') = IF s \in {"read_head", "copy", "free"} THEN 1 ELSE 0
         /\ Uncounted' = Uncounted
<1>1. \A d \in Consumers \ {c} :
        pc[d] \notin {"read_head", "copy", "free"} /\ pc'[d] = pc[d]
  <2> TAKE d \in Consumers \ {c}
  <2>1. pc'[d] = pc[d] /\ pc[d] \notin Dequeuing
    BY OneConsumer, Sides DEF Moves
  <2> QED
    BY <2>1 DEF Dequeuing, Reading
<1>2. Discounted = IF pc[c] \in {"read_head", "copy", "free"} THEN {c} ELSE {}
  BY <1>1 DEF Discounted
<1>3. Discounted' = IF s \in {"read_head", "copy", "free"} THEN {c} ELSE {}
  <2>1. pc'[c] = s
    BY DEF Moves
  <2> QED
    BY <1>1, <2>1 DEF Discounted
<1>4. Uncounted' = Uncounted
  BY Sides DEF Uncounted, Moves
<1> QED
  BY <1>2, <1>3, <1>4 DEF One

LEMMA ContentsOfConsumers ==
  ASSUME OneSided, IInv, RolesInv, RoomInv, NEW ms, NEW off, Contents(ms, off),
         NEW c \in Consumers, Dequeue(c), ~Free(c)
  PROVE  Contents(ms, off)'
<1>t. TypeOK /\ c \in Procs /\ c \notin Producers /\ DOMAIN pc = Procs
      /\ DOMAIN h = Procs /\ DOMAIN t = Procs /\ DOMAIN rec = Procs /\ DOMAIN buf = Consumers
  BY Sides DEF IInv, TypeOK
<1>c. Holds(head, tail, block, ms, off) /\ TakesFirst(ms) /\ InOrder(ms) /\ Counted(ms)
  BY DEF Contents
<1>1. UNCHANGED <<head, tail, block, made, deaths>>
  <2>1. CASE \/ Poll(c) \/ Lock(c) \/ LoadHead(c) \/ LoadTailToRead(c) \/ ReadHead(c)
             \/ ReadBadHead(c) \/ CopyOut(c) \/ CheckEnd(c) \/ LookOutside(c) \/ Recheck(c)
             \/ Wake(c)
    BY <2>1 DEF Poll, Lock, LoadHead, LoadTailToRead, ReadHead, ReadBadHead, CopyOut,
                CheckEnd, LookOutside, Recheck, Wake, shm, bounded
  <2>2. CASE Discount(c)
    BY <2>2 DEF Discount, bounded
  <2> QED
    BY <2>1, <2>2 DEF Dequeue
<1>2. ASSUME NEW s, Moves(c, s), Alone(c), got' = got, s # "check_end", TakesFirst(ms)',
             Counted(ms)'
      PROVE  Contents(ms, off)'
  <2>1. Taken' \subseteq Taken /\ Coming' \subseteq Coming
    BY <1>2, <1>t, FlowsFrame
  <2>2. InOrder(ms)'
    BY <1>1, <1>2, <1>c, <2>1, OrderFrame
  <2> QED
    BY <1>1, <1>2, <1>c, <2>2 DEF Contents
<1>3. CASE Poll(c) \/ Lock(c) \/ Wake(c)
  <2>1. UNCHANGED <<count, got, h, t, rec, buf>> /\ Alone(c)
    BY <1>3 DEF Poll, Lock, Wake, shm, locals, Alone
  <2>2. /\ \/ Moves(c, "head") \/ Moves(c, "lock") \/ Moves(c, "awake")
           \/ Moves(c, "waiting") /\ count = 0
        /\ pc[c] \in {"awake", "lock", "waiting"}
    BY <1>3, <1>t, GoMoves DEF Poll, Lock, Wake
  <2> DEFINE to == pc'[c]
  <2>3. Moves(c, to) /\ to \in {"head", "lock", "awake", "waiting"}
        /\ (to = "waiting" => count = 0)
    BY <2>2 DEF Moves
  <2> HIDE DEF to
  <2>4. TakesFirst(ms)'
    BY <1>1, <1>c, <1>t, <2>1, <2>3, FirstFrame DEF Takers, Reading
  <2>5. Counted(ms)'
    BY <1>1, <1>c, <1>t, <2>1, <2>2, <2>3, CountedFrame
  <2> QED
    BY <1>2, <2>1, <2>3, <2>4, <2>5
<1>4. CASE LoadHead(c)
  <2>1. /\ Moves(c, "tail") /\ pc[c] = "head" /\ h' = [h EXCEPT ![c] = head]
        /\ UNCHANGED <<count, got, t, rec, buf, fifo>>
    BY <1>4, <1>t, GoMoves DEF LoadHead, shm
  <2>2. Alone(c) /\ h'[c] = head'
    BY <1>1, <1>t, <2>1 DEF Alone
  <2>3. TakesFirst(ms)'
    BY <2>1, <2>2, FirstOfOne DEF Dequeuing, Reading
  <2>4. Counted(ms)'
    BY <1>1, <1>c, <1>t, <2>1, CountedFrame
  <2> QED
    BY <1>2, <2>1, <2>2, <2>3, <2>4
<1>5. CASE LoadTailToRead(c)
  <2>1. /\ Valid(h[c], tail) /\ pc[c] = "tail" /\ t' = [t EXCEPT ![c] = tail] /\ h[c] = head
        /\ UNCHANGED <<count, got, h, rec, buf, fifo>>
    BY <1>5, <1>t, <1>c, NeverRejected DEF LoadTailToRead, shm, TakesFirst
  <2>2. Alone(c) /\ t'[c] = tail
    BY <1>t, <2>1 DEF Alone
  <2>3. CASE IsEmpty(c, tail)
    <3>1. Moves(c, "waiting")
      BY <1>5, <1>t, <2>1, <2>3, LeaveMoves DEF LoadTailToRead, Rest
    <3>2. deaths = 0 => ~(count > 0)
      <4>1. ms = <<>>
        BY <1>c, <2>1, <2>3, EmptyIs DEF IsEmpty, RoomInv
      <4>2. Len(ms) = 0 /\ One(Uncounted) \in Nat /\ One(Discounted) \in Nat
        BY <4>1 DEF One
      <4> QED
        BY <1>c, <4>2 DEF Counted
    <3>3. TakesFirst(ms)'
      BY <1>1, <1>c, <1>t, <2>2, <3>1, FirstFrame DEF Takers, Reading
    <3>4. Counted(ms)'
      BY <1>1, <1>c, <1>t, <2>1, <3>1, <3>2, CountedFrame
    <3> QED
      BY <1>2, <2>1, <2>2, <3>1, <3>3, <3>4
  <2>4. CASE ~IsEmpty(c, tail)
    <3>1. Moves(c, "discount")
      BY <1>5, <1>t, <2>1, <2>4, GoMoves DEF LoadTailToRead
    <3>2. ms # <<>> /\ head # tail
      BY <1>c, <2>1, <2>4, EmptyIs DEF IsEmpty, RoomInv
    <3>3. Total(ms[1]) <= UsedLen(head', t'[c])
      <4>1. Total(ms[1]) <= Held(head, tail)
        BY <3>2, FirstThere
      <4>2. Held(head, tail) = UsedLen(head, tail)
        BY <3>2 DEF Held
      <4> QED
        BY <1>1, <2>2, <4>1, <4>2
    <3>4. TakesFirst(ms)'
      BY <1>1, <2>1, <3>1, <3>2, <3>3, FirstOfOne DEF Dequeuing, Reading
    <3>5. Counted(ms)'
      BY <1>1, <1>c, <1>t, <2>1, <3>1, CountedFrame
    <3> QED
      BY <1>2, <2>1, <2>2, <3>1, <3>4, <3>5
  <2> QED
    BY <2>3, <2>4
<1>6. CASE Discount(c)
  <2>1. /\ Moves(c, "read_head") /\ pc[c] = "discount" /\ count' = count - 1
        /\ UNCHANGED <<got, h, t, rec, buf, fifo>> /\ count \in Int
    BY <1>6, <1>t, GoMoves DEF Discount, locals, TypeOK
  <2>2. Alone(c)
    BY <2>1 DEF Alone
  <2>3. h[c] = head /\ ms # <<>> /\ Total(ms[1]) <= UsedLen(head, t[c])
    BY <1>c, <2>1 DEF TakesFirst, Reading
  <2>4. TakesFirst(ms)'
    BY <1>1, <2>1, <2>3, FirstOfOne DEF Dequeuing, Reading
  <2>5. Counted(ms)'
    <3>1. One(Discounted) = 0 /\ One(Discounted') = 1 /\ Uncounted' = Uncounted
      BY <2>1, DiscountedIs DEF Dequeuing, Reading
    <3>2. Len(ms) \in Int /\ One(Uncounted) \in Int
      BY <1>c, HoldsFacts DEF One
    <3>3. ASSUME deaths = 0
          PROVE  count' = Len(ms) - One(Uncounted') - One(Discounted')
      <4>1. count = Len(ms) - One(Uncounted) - One(Discounted)
        BY <1>c, <3>3 DEF Counted
      <4> QED
        BY <2>1, <3>1, <3>2, <4>1
    <3>4. pc'[c] # "waiting"
      BY <2>1 DEF Moves
    <3> QED
      BY <1>1, <3>3, <3>4 DEF Counted
  <2> QED
    BY <1>2, <2>1, <2>2, <2>4, <2>5
<1>7. CASE ReadHead(c)
  <2>1. Moves(c, "copy") /\ pc[c] = "read_head" /\ UNCHANGED <<count, got, t, buf, fifo>>
    BY <1>7, <1>t, GoMoves DEF ReadHead, shm
  <2>2. h[c] = head /\ ms # <<>> /\ ReadAs(block[(h[c] + 1) % BlockSize]) = {ms[1]}
    BY <2>1, HeaderRead
  <2>3. /\ rec' = [rec EXCEPT ![c] = ms[1]]
        /\ h' = [h EXCEPT ![c] = Step(head, C_SAFE_AREA_LEN + C_HEAD_SIZE)]
    BY <1>7, <2>2 DEF ReadHead
  <2>4. /\ Alone(c) /\ rec'[c] = ms[1]
        /\ h'[c] = Step(head, C_SAFE_AREA_LEN + C_HEAD_SIZE)
    BY <1>t, <2>1, <2>3 DEF Alone
  <2>5. TakesFirst(ms)'
    BY <1>1, <2>1, <2>2, <2>4, FirstOfOne DEF Dequeuing, Reading
  <2>6. Counted(ms)'
    BY <1>1, <1>c, <1>t, <2>1, CountedFrame
  <2> QED
    BY <1>2, <2>1, <2>4, <2>5, <2>6
<1>8. CASE CopyOut(c)
  <2>1. /\ Moves(c, "free") /\ pc[c] = "copy"
        /\ UNCHANGED <<count, got, h, t, rec, fifo>>
        /\ buf' = [buf EXCEPT ![c] =
                    [i \in 1..DataLen(rec[c]) |-> block[(h[c] + i - 1) % BlockSize]]]
    BY <1>8, <1>t, GoMoves DEF CopyOut, shm
  <2>2. ms # <<>> /\ rec[c] = ms[1] /\ h[c] = Step(head, C_SAFE_AREA_LEN + C_HEAD_SIZE)
    BY <1>c, <2>1 DEF TakesFirst
  <2>3. Alone(c)
    BY <1>t, <2>1 DEF Alone
  <2>4. buf'[c] = Payload(rec[c])
    <3> DEFINE m == rec[c]
    <3>1. /\ m \in Messages /\ Total(m) \in 3..Held(head, tail)
          /\ \A k \in 0..Total(m) - 1 : block[(head + k) % BlockSize] = RecordCell(m, k)
      BY <2>2, FirstThere
    <3>2. DataLen(m) = Total(m) - 2
      BY <3>1, TotalNat
    <3>3. /\ Held(head, tail) \in Nat /\ Held(head, tail) < BlockSize
          /\ head \in 0..BlockSize /\ BlockSize \in Nat
      BY HeldIs, SizesAssumption DEF RoomInv, Placed
    <3> HIDE DEF m
    <3>4. ASSUME NEW i \in 1..DataLen(m)
          PROVE  block[(h[c] + i - 1) % BlockSize] = RecordCell(m, i + 1)
      <4>1. /\ i - 1 \in Nat /\ 2 + (i - 1) < BlockSize /\ 2 \in 0..BlockSize - 1
            /\ i + 1 \in 0..Total(m) - 1
        BY <3>1, <3>2, <3>3
      <4>2. (Step(head, 2) + (i - 1)) % BlockSize = (head + 2 + (i - 1)) % BlockSize
        BY <3>3, <4>1, StepIs
      <4>3. h[c] = Step(head, 2) /\ Step(head, 2) \in Int
        BY <2>2, <3>3, <4>1, StepIs DEF C_SAFE_AREA_LEN, C_HEAD_SIZE
      <4>4. h[c] + i - 1 = Step(head, 2) + (i - 1) /\ head + 2 + (i - 1) = head + (i + 1)
        BY <3>3, <4>3
      <4>5. block[(head + (i + 1)) % BlockSize] = RecordCell(m, i + 1)
        BY <3>1, <4>1
      <4> QED
        BY <4>2, <4>4, <4>5
    <3>5. buf'[c] = [i \in 1..DataLen(m) |-> block[(h[c] + i - 1) % BlockSize]]
      BY <1>t, <2>1 DEF m
    <3> QED
      BY <3>4, <3>5 DEF Payload, m
  <2>5. TakesFirst(ms)'
    BY <1>1, <2>1, <2>2, <2>4, FirstOfOne DEF Dequeuing, Reading
  <2>6. Counted(ms)'
    BY <1>1, <1>c, <1>t, <2>1, CountedFrame
  <2> QED
    BY <1>2, <2>1, <2>3, <2>5, <2>6
<1>9. CASE CheckEnd(c)
  <2>1. /\ Moves(c, "awake") /\ pc[c] = "check_end" /\ got' = Append(got, rec[c])
        /\ rec[c] \in Messages /\ UNCHANGED <<count, h, t, rec, buf, fifo>>
    BY <1>9, <1>t, NeverBad, GoMoves DEF CheckEnd, shm, locals
  <2>2. Alone(c)
    BY <2>1 DEF Alone
  <2>3. TakesFirst(ms)'
    BY <1>1, <1>c, <1>t, <2>1, <2>2, FirstFrame DEF Takers, Reading
  <2>4. Counted(ms)'
    BY <1>1, <1>c, <1>t, <2>1, CountedFrame
  <2>5. InOrder(ms)'
    <3> DEFINE m == rec[c].flow
               all == Append(got, rec[c])
    <3>1. /\ got \in Seq(Messages) /\ Len(got) \in Nat /\ DOMAIN got = 1..Len(got)
          /\ DOMAIN all = 1..Len(got) + 1 /\ all[Len(got) + 1] = rec[c]
          /\ \A i \in 1..Len(got) : all[i] = got[i]
      BY <1>t, <2>1 DEF TypeOK
    <3>2. Flows(got)' \subseteq Flows(got) \cup {m}
      <4>1. ASSUME NEW i \in DOMAIN all PROVE all[i].flow \in Flows(got) \cup {m}
        BY <3>1 DEF Flows
      <4>2. got' = all
        BY <2>1
      <4> HIDE DEF all
      <4> QED
        BY <4>1, <4>2 DEF Flows
    <3>3. m \in Taken
      BY <2>1 DEF Taken
    <3>4. Taken' = {}
      <4>1. \A d \in Consumers : pc'[d] # "check_end"
        <5> TAKE d \in Consumers
        <5>1. CASE d = c
          BY <2>1, <5>1 DEF Moves
        <5>2. CASE d # c
          <6>1. pc'[d] = pc[d] /\ pc[d] \notin Dequeuing
            BY <2>1, <5>2, OneConsumer, Sides DEF Moves, Dequeuing
          <6> QED
            BY <6>1 DEF Dequeuing
        <5> QED
          BY <5>1, <5>2
      <4> QED
        BY <4>1 DEF Taken
    <3>5. Coming' = Coming
      <4>1. \A p \in Producers : pc'[p] = pc[p] /\ rec'[p] = rec[p]
        BY <1>t, <2>1, Sides DEF Moves
      <4> QED
        BY <4>1 DEF Coming
    <3>6. Sorted(got)'
      <4>1. Sorted(all)
        <5> SUFFICES ASSUME NEW i \in DOMAIN all, NEW j \in DOMAIN all, i < j
                     PROVE  all[i].flow < all[j].flow
          BY DEF Sorted
        <5>1. i \in 1..Len(got)
          BY <3>1
        <5>2. CASE j = Len(got) + 1
          <6>1. got[i].flow \in Flows(got)
            BY <3>1, <5>1 DEF Flows
          <6>2. got[i].flow < m
            BY <1>c, <3>3, <6>1 DEF InOrder, Before
          <6> QED
            BY <3>1, <5>1, <5>2, <6>2
        <5>3. CASE j # Len(got) + 1
          <6>1. j \in 1..Len(got)
            BY <3>1, <5>3
          <6>2. got[i].flow < got[j].flow
            BY <1>c, <3>1, <5>1, <6>1 DEF InOrder, Sorted
          <6> QED
            BY <3>1, <5>1, <6>1, <6>2
        <5> QED
          BY <5>2, <5>3
      <4>2. got' = all
        BY <2>1
      <4> HIDE DEF all
      <4> QED
        BY <4>1, <4>2 DEF Sorted
    <3> DEFINE old == Flows(got) \cup Taken
    <3>7. Flows(got)' \subseteq old
      BY <3>2, <3>3
    <3>8. Before(old, Flows(ms)) /\ Before(old \cup Flows(ms), Coming) /\ Sorted(ms)
          /\ \A a \in old \cup Flows(ms) \cup Coming : a \in 0..made
      BY <1>c DEF InOrder
    <3>9. Sorted(ms)' /\ Flows(ms)' = Flows(ms) /\ made' = made
      BY <1>1, <3>8 DEF Sorted, Flows
    <3> HIDE DEF old, all, m
    <3>10. Before(Flows(got), Taken)' /\ Before(Flows(got) \cup Taken, Flows(ms))'
      BY <3>4, <3>7, <3>8, <3>9 DEF Before
    <3>11. Before(Flows(got) \cup Taken \cup Flows(ms), Coming)'
      BY <3>4, <3>5, <3>7, <3>8, <3>9 DEF Before
    <3>12. (\A a \in Flows(got) \cup Taken \cup Flows(ms) \cup Coming : a \in 0..made)'
      BY <3>4, <3>5, <3>7, <3>8, <3>9
    <3> QED
      BY <3>6, <3>9, <3>10, <3>11, <3>12 DEF InOrder
  <2> QED
    BY <1>1, <1>c, <2>3, <2>4, <2>5 DEF Contents
<1>10. ~ReadBadHead(c) /\ ~LookOutside(c)
  BY NeverBad DEF LookOutside
<1>11. ~Recheck(c)
  <2>1. pc[c] # "recheck"
    BY DEF RolesInv, Dequeuing, Reading
  <2> QED
    BY <2>1 DEF Recheck
<1> QED
  BY <1>3, <1>4, <1>5, <1>6, <1>7, <1>8, <1>9, <1>10, <1>11 DEF Dequeue

\* A message is taken when *head_ has moved past it.
LEMMA ContentsOfFree ==
  ASSUME OneSided, IInv, RolesInv, RoomInv, NEW ms, NEW off, Contents(ms, off),
         NEW c \in Consumers, Free(c)
  PROVE  /\ ms # <<>> /\ rec[c] = ms[1]
         /\ \E less : Contents(Tail(ms), less)'
<1> DEFINE rest == Tail(ms)
<1>t. TypeOK /\ c \in Procs /\ c \notin Producers
  BY Sides DEF IInv, TypeOK
<1>c. Holds(head, tail, block, ms, off) /\ TakesFirst(ms) /\ InOrder(ms) /\ Counted(ms)
  BY DEF Contents
<1>1. /\ Moves(c, "check_end") /\ pc[c] = "free" /\ head' = Step(h[c], DataLen(rec[c]))
      /\ UNCHANGED <<tail, block, count, fifo, deaths, buf, h, t, rec, got, made>>
  BY <1>t, GoMoves DEF Free, locals, bounded
<1>2. /\ ms # <<>> /\ rec[c] = ms[1] /\ h[c] = Step(head, C_SAFE_AREA_LEN + C_HEAD_SIZE)
      /\ buf[c] = Payload(rec[c])
  BY <1>1, <1>c DEF TakesFirst
<1>3. head' = Step(head, Total(ms[1]))
  <2>1. /\ ms[1] \in Messages /\ Total(ms[1]) \in Nat /\ Total(ms[1]) >= 3
        /\ Total(ms[1]) <= Held(head, tail)
    BY <1>2, FirstThere
  <2>2. /\ Held(head, tail) \in Nat /\ Held(head, tail) < BlockSize
        /\ head \in 0..BlockSize /\ BlockSize \in Nat
    BY HeldIs, SizesAssumption DEF RoomInv, Placed
  <2>3. DataLen(ms[1]) = Total(ms[1]) - 2
    BY <2>1, TotalNat
  <2> DEFINE n == Total(ms[1])
  <2>4. n \in 0..BlockSize - 1 /\ n >= 2
    BY <2>1, <2>2
  <2> HIDE DEF n
  <2>5. Step(Step(head, C_SAFE_AREA_LEN + C_HEAD_SIZE), n - 2) = Step(head, n)
    BY <2>2, <2>4, NewHeadIs
  <2> QED
    BY <1>1, <1>2, <2>3, <2>5 DEF n
<1>4. \E less : Holds(head', tail', block', rest, less)
  <2>1. \E less : Holds(Step(head, Total(ms[1])), tail, block, Tail(ms), less)
    BY <1>2, <1>c, HoldsShorter DEF RoomInv
  <2> QED
    BY <1>1, <1>3, <2>1
<1>s. /\ ms \in Seq(Messages) /\ Len(ms) \in Nat /\ Len(rest) = Len(ms) - 1
      /\ DOMAIN ms = 1..Len(ms) /\ DOMAIN rest = 1..Len(ms) - 1
      /\ Len(ms) >= 1 /\ \A i \in 1..Len(ms) - 1 : rest[i] = ms[i + 1]
  BY <1>c, <1>2, HoldsFacts
<1>5. TakesFirst(rest)'
  BY <1>1, <1>2, <1>t, FirstOfOne, FirstThere DEF Dequeuing, Reading
<1>6. InOrder(rest)'
  <2> DEFINE m == ms[1].flow
  <2>1. Taken' = {m} /\ Taken = {}
    <3>1. \A d \in Consumers : d # c => pc[d] \notin Dequeuing /\ pc'[d] = pc[d]
      BY <1>1, OneConsumer, Sides DEF Moves, Dequeuing
    <3>2. \A d \in Consumers : pc[d] # "check_end" /\ (pc'[d] = "check_end" <=> d = c)
      BY <1>1, <3>1 DEF Moves, Dequeuing
    <3> QED
      BY <1>1, <1>2, <3>2 DEF Taken
  <2>2. Coming' = Coming /\ Flows(got)' = Flows(got)
    <3>1. \A p \in Producers : pc'[p] = pc[p]
      BY <1>t, <1>1, Sides DEF Moves
    <3> QED
      BY <1>1, <3>1 DEF Coming, Flows
  <2>3. m \in Flows(ms) /\ Flows(rest) \subseteq Flows(ms)
    <3>1. 1 \in DOMAIN ms
      BY <1>s
    <3>2. ASSUME NEW i \in DOMAIN rest PROVE rest[i].flow \in Flows(ms)
      <4>1. i + 1 \in DOMAIN ms /\ rest[i] = ms[i + 1]
        BY <1>s
      <4> QED
        BY <4>1 DEF Flows
    <3> QED
      BY <3>1, <3>2 DEF Flows
  <2>4. Before({m}, Flows(rest)) /\ Sorted(rest)
    <3>1. ASSUME NEW i \in DOMAIN rest
          PROVE  /\ m < rest[i].flow
                 /\ \A j \in DOMAIN rest : i < j => rest[i].flow < rest[j].flow
      <4>1. i \in 1..Len(ms) - 1 /\ rest[i] = ms[i + 1] /\ 1 \in DOMAIN ms
            /\ i + 1 \in DOMAIN ms /\ 1 < i + 1
        BY <1>s
      <4>2. m < rest[i].flow
        BY <1>c, <4>1 DEF InOrder, Sorted
      <4>3. ASSUME NEW j \in DOMAIN rest, i < j PROVE rest[i].flow < rest[j].flow
        <5>1. rest[j] = ms[j + 1] /\ j + 1 \in DOMAIN ms /\ i + 1 < j + 1
          BY <1>s, <4>1, <4>3
        <5> HIDE DEF rest
        <5> QED
          BY <1>c, <4>1, <5>1 DEF InOrder, Sorted
      <4> QED
        BY <4>2, <4>3
    <3> HIDE DEF rest, m
    <3> QED
      BY <3>1 DEF Before, Sorted, Flows
  <2>5. /\ Sorted(got) /\ Before(Flows(got) \cup Taken, Flows(ms))
        /\ Before(Flows(got) \cup Taken \cup Flows(ms), Coming)
        /\ \A a \in Flows(got) \cup Taken \cup Flows(ms) \cup Coming : a \in 0..made
    BY <1>c DEF InOrder
  <2>6. Sorted(got)' /\ made' = made /\ Sorted(rest)' /\ Flows(rest)' = Flows(rest)
    BY <1>1, <2>4, <2>5 DEF Sorted, Flows
  <2> HIDE DEF rest, m
  <2>7. Before(Flows(got), Taken)' /\ Before(Flows(got) \cup Taken, Flows(rest))'
    BY <2>1, <2>2, <2>3, <2>4, <2>5, <2>6 DEF Before
  <2>8. Before(Flows(got) \cup Taken \cup Flows(rest), Coming)'
    BY <2>1, <2>2, <2>3, <2>5, <2>6 DEF Before
  <2>9. (\A a \in Flows(got) \cup Taken \cup Flows(rest) \cup Coming : a \in 0..made)'
    BY <2>1, <2>2, <2>3, <2>5, <2>6
  <2> QED
    BY <2>6, <2>7, <2>8, <2>9 DEF InOrder
<1>7. Counted(rest)'
  <2>1. One(Discounted) = 1 /\ One(Discounted') = 0 /\ Uncounted' = Uncounted
    BY <1>1, DiscountedIs DEF Dequeuing, Reading
  <2>2. ASSUME deaths = 0
        PROVE  count = Len(rest) - One(Uncounted') - One(Discounted')
    <3>1. count = Len(ms) - One(Uncounted) - One(Discounted)
      BY <1>c, <2>2 DEF Counted
    <3>2. One(Uncounted) \in Int
      BY DEF One
    <3> QED
      BY <1>s, <2>1, <3>1, <3>2
  <2>3. pc'[c] # "waiting"
    BY <1>1 DEF Moves
  <2> HIDE DEF rest
  <2> QED
    BY <1>1, <2>2, <2>3 DEF Counted
<1> HIDE DEF rest
<1>8. PICK less : Holds(head', tail', block', rest, less)
  BY <1>4
<1>9. Contents(rest, less)'
  BY <1>5, <1>6, <1>7, <1>8 DEF Contents
<1> QED
  BY <1>2, <1>9 DEF rest

\* Deaths make the count worthless, a process that starts again has nothing.
LEMMA ContentsOfOthers ==
  ASSUME OneSided, IInv, RolesInv, RoomInv, NEW ms, NEW off, Contents(ms, off),
         NEW p \in Procs, Die(p) \/ Start(p)
  PROVE  Contents(ms, off)'
<1>t. TypeOK
  BY DEF IInv
<1>c. Holds(head, tail, block, ms, off) /\ TakesFirst(ms) /\ InOrder(ms) /\ Counted(ms)
  BY DEF Contents
<1>l. UNCHANGED <<head, tail, block, count, fifo, locals, got, made>>
  BY DEF Die, Start, bounded
<1>1. UNCHANGED <<head, tail, block, count, fifo, buf, h, t, rec, got, made>> /\ Alone(p)
  BY <1>l DEF locals, Alone
<1>2. PICK s : /\ Moves(p, s) /\ s \in {"dead", "idle", "awake", "clear_pid"}
               /\ p \in Producers => s # "awake"
  BY <1>t, GoMoves, Sides DEF Die, Start
<1>3. TakesFirst(ms)'
  BY <1>1, <1>2, <1>c, FirstFrame DEF Takers, Reading
<1>4. InOrder(ms)'
  <2>1. Taken' \subseteq Taken /\ Coming' \subseteq Coming
    BY <1>1, <1>2, FlowsFrame DEF Unsent
  <2> QED
    BY <1>1, <1>c, <2>1, OrderFrame
<1>5. Counted(ms)'
  <2>1. CASE Die(p)
    <3>1. deaths' # 0
      BY <1>t, <2>1 DEF Die, TypeOK
    <3> QED
      BY <3>1 DEF Counted
  <2>2. CASE Start(p)
    <3>1. pc[p] = "dead" /\ UNCHANGED <<count, deaths, fifo>> /\ s # "dead"
      BY <1>t, <1>2, <2>2 DEF Start, bounded, TypeOK, Moves, Go
    <3> QED
      BY <1>2, <1>c, <3>1, CountedFrame
  <2> QED
    BY <2>1, <2>2
<1> QED
  BY <1>1, <1>3, <1>4, <1>5, <1>c DEF Contents

-----------------------------------------------------------------------------
(* The invariant. *)

LEMMA InitQ == Init => QInv
<1> SUFFICES ASSUME Init PROVE QInv
  OBVIOUS
<1> DEFINE off == [i \in 1..1 |-> 0]
<1>p. /\ \A p \in Producers : pc[p] = "idle"
      /\ \A c \in Consumers : pc[c] = "awake"
      /\ \A p \in Procs : pc[p] \in {"idle", "awake"}
  BY Sides DEF Init
<1>1. RolesInv
  BY <1>p DEF Init, RolesInv, Enqueuing, Unsent, Dequeuing, Reading
<1>2. head = 0 /\ tail = 0 /\ Held(head, tail) = 0 /\ BlockSize \in Nat /\ 0 < BlockSize
  BY SizesAssumption DEF Init, Held
<1>3. RoomInv
  BY <1>p, <1>2 DEF RoomInv, Placed
<1>4. Holds(head, tail, block, <<>>, off)
  <2>1. <<>> \in Seq(Messages) /\ Len(<<>>) = 0 /\ 0 + 1 = 1
    OBVIOUS
  <2>2. off \in [1..1 -> Nat] /\ off[1] = 0
    OBVIOUS
  <2> HIDE DEF off
  <2> QED
    BY <1>2, <2>1, <2>2 DEF Holds
<1>5. TakesFirst(<<>>)
  BY <1>p DEF TakesFirst, Reading
<1>6. InOrder(<<>>)
  <2>1. Taken = {} /\ Coming = {} /\ Flows(<<>>) = {} /\ got = <<>>
    BY <1>p DEF Taken, Coming, Unsent, Flows, Init
  <2> QED
    BY <2>1 DEF InOrder, Before, Sorted
<1>7. Counted(<<>>)
  <2>1. Uncounted = {} /\ Discounted = {} /\ count = 0
    BY <1>p DEF Uncounted, Discounted, Init
  <2> QED
    BY <2>1 DEF Counted, One
<1> HIDE DEF off
<1>8. Contents(<<>>, off)
  BY <1>4, <1>5, <1>6, <1>7 DEF Contents
<1> QED
  BY <1>1, <1>3, <1>8 DEF QInv

\* The steps that leave the messages in the queue as they are.
Quiet ==
  \/ \E p \in Producers : (Produce(p) \/ Enqueue(p)) /\ ~Publish(p)
  \/ \E c \in Consumers : Dequeue(c) /\ ~Free(c)
  \/ \E p \in Procs : Die(p) \/ Start(p)

\* A step puts in a message, takes out the first one, or does neither.
LEMMA ContentsOfStep ==
  ASSUME OneSided, IInv, RolesInv, RoomInv, NEW ms, NEW off, Contents(ms, off), Next
  PROVE  \/ \E p \in Producers : Publish(p) /\ \E more : Contents(Append(ms, rec[p]), more)'
         \/ \E c \in Consumers : /\ Free(c) /\ ms # <<>> /\ rec[c] = ms[1]
                                 /\ \E less : Contents(Tail(ms), less)'
         \/ Quiet /\ Contents(ms, off)'
<1>1. CASE \E p \in Producers : Produce(p) \/ Enqueue(p)
  <2>1. PICK p \in Producers : Produce(p) \/ Enqueue(p)
    BY <1>1
  <2>2. CASE Publish(p)
    BY <2>2, ContentsOfPublish
  <2>3. CASE ~Publish(p)
    BY <2>1, <2>3, ContentsOfProducers DEF Quiet
  <2> QED
    BY <2>2, <2>3
<1>2. CASE \E c \in Consumers : Dequeue(c)
  <2>1. PICK c \in Consumers : Dequeue(c)
    BY <1>2
  <2>2. CASE Free(c)
    BY <2>2, ContentsOfFree
  <2>3. CASE ~Free(c)
    BY <2>1, <2>3, ContentsOfConsumers DEF Quiet
  <2> QED
    BY <2>2, <2>3
<1>3. CASE \E p \in Procs : Clear(p) \/ Die(p) \/ Start(p)
  <2>1. PICK p \in Procs : Clear(p) \/ Die(p) \/ Start(p)
    BY <1>3
  <2>2. Die(p) \/ Start(p)
    BY <2>1, RolesOfOthers
  <2> QED
    BY <2>2, ContentsOfOthers DEF Quiet
<1> QED
  BY <1>1, <1>2, <1>3 DEF Next

LEMMA QStep == ASSUME OneSided, IInv, QInv, [Next]_vars PROVE QInv'
<1>1. RolesInv /\ RoomInv
  BY DEF QInv
<1>2. PICK ms, off : Contents(ms, off)
  BY DEF QInv
<1>3. CASE Next
  <2>1. RolesInv' /\ RoomInv'
    <3>1. CASE \E p \in Producers : Produce(p) \/ Enqueue(p)
      BY <1>1, <1>2, <3>1, RolesOfProducers, RoomOfProducers
    <3>2. CASE \E c \in Consumers : Dequeue(c)
      BY <1>1, <1>2, <3>2, RolesOfConsumers, RoomOfConsumers
    <3>3. CASE \E p \in Procs : Clear(p) \/ Die(p) \/ Start(p)
      BY <1>1, <3>3, RolesOfOthers, RoomOfOthers
    <3> QED
      BY <1>3, <3>1, <3>2, <3>3 DEF Next
  <2>2. \E all, begin : Contents(all, begin)'
    BY <1>1, <1>2, <1>3, ContentsOfStep
  <2> QED
    BY <2>1, <2>2 DEF QInv
<1>4. CASE UNCHANGED vars
  <2>1. RolesInv'
    BY <1>1, <1>4 DEF RolesInv, vars, shm, locks
  <2>2. RoomInv'
    BY <1>1, <1>4 DEF RoomInv, Written, vars, shm, locals
  <2>3. TakesFirst(ms)' /\ Holds(head, tail, block, ms, off)'
    BY <1>2, <1>4 DEF Contents, TakesFirst, vars, shm, locals
  <2>4. InOrder(ms)'
    <3>1. Taken' = Taken /\ Coming' = Coming
      BY <1>4 DEF Taken, Coming, vars, locals
    <3>2. UNCHANGED <<got, made>>
      BY <1>4 DEF vars, bounded
    <3> QED
      BY <1>2, <3>1, <3>2, OrderFrame DEF Contents
  <2>5. Counted(ms)'
    <3>1. UNCHANGED <<count, deaths, fifo, pc>>
      BY <1>4 DEF vars, shm, bounded
    <3>2. Uncounted' = Uncounted /\ Discounted' = Discounted
      BY <3>1 DEF Uncounted, Discounted
    <3> QED
      BY <1>2, <3>1, <3>2 DEF Contents, Counted
  <2>6. Contents(ms, off)'
    BY <2>3, <2>4, <2>5 DEF Contents
  <2> QED
    BY <2>1, <2>2, <2>6 DEF QInv
<1> QED
  BY <1>3, <1>4

LEMMA Queue == ASSUME OneSided PROVE Spec => [](IInv /\ QInv)
<1>1. Init => QInv
  BY InitQ
<1>2. IInv /\ QInv /\ [Next]_vars => QInv'
  BY QStep
<1> QED
  BY <1>1, <1>2, Invariant, PTL DEF Spec

\* InQueue finds the messages that were put in.
LEMMA InQueueIs ==
  ASSUME IInv, RoomInv, NEW ms, NEW off, Contents(ms, off)
  PROVE  InQueue = ms
<1>1. /\ Holds(head, tail, block, ms, off) /\ block \in [0..BlockSize - 1 -> Cells]
      /\ Placed(head, tail) /\ Held(head, tail) < BlockSize
  BY DEF Contents, IInv, TypeOK, RoomInv
<1> QED
  BY <1>1, StoredIs DEF InQueue

LEMMA InQueueIsNext ==
  ASSUME IInv', RoomInv', NEW ms, NEW off, Contents(ms, off)'
  PROVE  InQueue' = ms
<1>1. /\ Holds(head', tail', block', ms, off) /\ block' \in [0..BlockSize - 1 -> Cells]
      /\ Placed(head', tail') /\ Held(head', tail') < BlockSize
  BY DEF Contents, IInv, TypeOK, RoomInv
<1> QED
  BY <1>1, StoredIs DEF InQueue

-----------------------------------------------------------------------------
(* The theorems. *)

\* What a consumer copied out of the block is one message, as its producer sent it.
THEOREM WholeMessages == ASSUME OneSided PROVE Spec => []Whole
<1>1. QInv => Whole
  BY DEF QInv, Contents, TakesFirst, Payload, Whole
<1> QED
  BY <1>1, Queue, PTL

\* Messages are handed over at most once, in the order in which they were sent.
THEOREM OnceInOrder == ASSUME OneSided PROVE Spec => []NotTwice
<1>1. QInv => NotTwice
  BY DEF QInv, Contents, InOrder, Sorted, NotTwice
<1> QED
  BY <1>1, Queue, PTL

\* As long as nobody was killed msg_count is the number of messages in the queue, less
\* those published and not yet counted, less those a consumer has begun to take.
THEOREM CountCorrect == ASSUME OneSided PROVE Spec => []CountAgrees
<1>1. ASSUME IInv, QInv PROVE CountAgrees
  <2>1. RolesInv /\ RoomInv /\ \E ms, off : Contents(ms, off)
    BY <1>1 DEF QInv
  <2>2. PICK ms, off : Contents(ms, off)
    BY <2>1
  <2>3. InQueue = ms
    BY <1>1, <2>1, <2>2, InQueueIs
  <2>4. Cardinality(Uncounted) = One(Uncounted)
    <3>1. \A p, q \in Uncounted : p = q
      BY <2>1, OneProducer DEF Uncounted, Enqueuing
    <3>2. Uncounted = {} \/ \E p \in Uncounted : Uncounted = {p}
      BY <3>1
    <3> QED
      BY <3>2, FS_EmptySet, FS_Singleton DEF One
  <2>5. Cardinality(Discounted) = One(Discounted)
    <3>1. \A c, d \in Discounted : c = d
      BY <2>1, OneConsumer DEF Discounted, Dequeuing, Reading
    <3>2. Discounted = {} \/ \E c \in Discounted : Discounted = {c}
      BY <3>1
    <3> QED
      BY <3>2, FS_EmptySet, FS_Singleton DEF One
  <2>6. deaths = 0 => count = Len(ms) - One(Uncounted) - One(Discounted)
    BY <2>2 DEF Contents, Counted
  <2>7. deaths = 0 => count = Len(InQueue) - Cardinality(Uncounted) - Cardinality(Discounted)
    BY <2>3, <2>4, <2>5, <2>6
  <2> QED
    BY <2>7 DEF CountAgrees, Uncounted, Discounted
<1> QED
  BY <1>1, Queue, PTL

\* The consumers do not all wait without a notification to come while messages are in the
\* queue and nobody was killed.
THEOREM BacklogHeard == ASSUME OneSided PROVE Spec => []NoSilentBacklog
<1>1. ASSUME IInv, QInv PROVE NoSilentBacklog
  <2>1. RoomInv /\ \E ms, off : Contents(ms, off)
    BY <1>1 DEF QInv
  <2>2. PICK ms, off : Contents(ms, off)
    BY <2>1
  <2>3. InQueue = ms
    BY <1>1, <2>1, <2>2, InQueueIs
  <2> SUFFICES ASSUME deaths = 0, ms # <<>>, \A c \in Consumers : pc[c] = "waiting",
                      \A p \in Producers : pc[p] = "idle"
               PROVE  fifo
    BY <2>3 DEF NoSilentBacklog
  <2>4. Uncounted = {} /\ Discounted = {}
    BY DEF Uncounted, Discounted
  <2>5. Len(ms) \in Nat /\ Len(ms) # 0
    BY <2>2 DEF Contents, Holds
  <2>6. count = Len(ms) - 0 - 0
    BY <2>2, <2>4 DEF Contents, Counted, One
  <2>7. count > 0
    BY <2>5, <2>6
  <2> QED
    BY <2>2, <2>7 DEF Contents, Counted
<1> QED
  BY <1>1, Queue, PTL

-----------------------------------------------------------------------------
(* The queue is a FIFO channel. *)

\* What is taken out and not handed over: the message of the one consumer that checks it.
LEMMA InHandIs ==
  ASSUME OneSided, RolesInv
  PROVE  /\ \A c \in Consumers : pc[c] = "check_end" => InHand = <<rec[c]>>
         /\ (\A c \in Consumers : pc[c] # "check_end") => InHand = <<>>
<1>1. \A c, d \in Consumers : pc[c] = "check_end" /\ pc[d] = "check_end" => c = d
  BY OneConsumer DEF Dequeuing
<1> QED
  BY <1>1 DEF InHand

LEMMA InHandIsNext ==
  ASSUME OneSided, RolesInv'
  PROVE  /\ \A c \in Consumers : pc'[c] = "check_end" => InHand' = <<rec'[c]>>
         /\ (\A c \in Consumers : pc'[c] # "check_end") => InHand' = <<>>
<1>1. \A c, d \in Consumers : pc'[c] = "check_end" /\ pc'[d] = "check_end" => c = d
  BY DEF OneSided, RolesInv, Dequeuing
<1> QED
  BY <1>1 DEF InHand

LEMMA HandKept ==
  ASSUME OneSided, RolesInv, RolesInv',
         \A c \in Consumers : /\ pc'[c] = "check_end" <=> pc[c] = "check_end"
                              /\ pc[c] = "check_end" => rec'[c] = rec[c]
  PROVE  InHand' = InHand
<1>1. CASE \E c \in Consumers : pc[c] = "check_end"
  BY <1>1, InHandIs, InHandIsNext
<1>2. CASE \A c \in Consumers : pc[c] # "check_end"
  BY <1>2, InHandIs, InHandIsNext
<1> QED
  BY <1>1, <1>2

\* The steps that leave the queue as it is leave what was taken from it as it is, too.
LEMMA QuietTakesNothing ==
  ASSUME OneSided, Mortals \cap Consumers = {}, IInv, RolesInv, RolesInv', RoomInv,
         NEW ms, NEW off, Contents(ms, off), Quiet
  PROVE  (got \o InHand)' = got \o InHand
<1>t. TypeOK /\ got \in Seq(Messages)
  BY DEF IInv, TypeOK
<1>1. CASE \E p \in Producers : (Produce(p) \/ Enqueue(p)) /\ ~Publish(p)
  <2>1. PICK p \in Producers : Produce(p) \/ Enqueue(p)
    BY <1>1
  <2>2. p \in Procs /\ p \notin Consumers
    BY Sides
  <2>3. got' = got /\ \E s : Moves(p, s)
    BY <1>t, <2>1, <2>2, GoMoves, LeaveMoves
       DEF Produce, Enqueue, LoadHead, LoadTailToWrite, WriteHead, WriteData, Publish, Count,
           Notify, Reject, locals
  <2>4. \A c \in Consumers : rec'[c] = rec[c]
    <3>1. CASE Produce(p)
      BY <1>t, <2>2, <3>1, Sides DEF Produce, TypeOK
    <3>2. CASE Enqueue(p)
      BY <3>2 DEF Enqueue, LoadHead, LoadTailToWrite, WriteHead, WriteData, Publish, Count,
                  Notify, locals
    <3> QED
      BY <2>1, <3>1, <3>2
  <2>5. \A c \in Consumers : pc'[c] = pc[c]
    BY <2>2, <2>3, Sides DEF Moves
  <2> QED
    BY <2>3, <2>4, <2>5, HandKept
<1>2. CASE \E c \in Consumers : Dequeue(c) /\ ~Free(c)
  <2>1. PICK c \in Consumers : Dequeue(c) /\ ~Free(c)
    BY <1>2
  <2>2. c \in Procs /\ c \notin Producers
    BY Sides
  <2>3. CASE CheckEnd(c)
    <3>1. /\ pc[c] = "check_end" /\ Moves(c, "awake") /\ rec[c] \in Messages
          /\ got' = Append(got, rec[c])
      BY <1>t, <2>2, <2>3, NeverBad, GoMoves DEF CheckEnd
    <3>2. \A d \in Consumers : pc'[d] # "check_end"
      <4> TAKE d \in Consumers
      <4>1. CASE d = c
        BY <3>1, <4>1 DEF Moves
      <4>2. CASE d # c
        <5>1. pc'[d] = pc[d] /\ pc[d] \notin Dequeuing
          BY <3>1, <4>2, OneConsumer, Sides DEF Moves, Dequeuing
        <5> QED
          BY <5>1 DEF Dequeuing
      <4> QED
        BY <4>1, <4>2
    <3>3. InHand = <<rec[c]>> /\ InHand' = <<>>
      BY <3>1, <3>2, InHandIs, InHandIsNext
    <3> QED
      BY <1>t, <3>1, <3>3
  <2>4. CASE ~CheckEnd(c)
    <3>1. \/ Poll(c) \/ Lock(c) \/ LoadHead(c) \/ LoadTailToRead(c) \/ Discount(c)
          \/ ReadHead(c) \/ CopyOut(c) \/ Wake(c)
      <4>1. ~ReadBadHead(c) /\ ~LookOutside(c)
        BY NeverBad DEF LookOutside
      <4>2. ~Recheck(c)
        BY DEF RolesInv, Dequeuing, Reading, Recheck
      <4> QED
        BY <2>1, <2>4, <4>1, <4>2 DEF Dequeue
    <3>2. /\ got' = got /\ pc[c] # "check_end"
          /\ \A d \in Consumers \ {c} : rec'[d] = rec[d]
      BY <1>t, <2>2, <3>1, Sides
         DEF Poll, Lock, LoadHead, LoadTailToRead, Discount, ReadHead, CopyOut, Wake, locals,
             TypeOK
    <3>3. \E s : Moves(c, s) /\ s # "check_end"
      <4>1. CASE LoadTailToRead(c)
        BY <1>t, <2>2, <4>1, GoMoves, LeaveMoves DEF LoadTailToRead, Reject, Rest
      <4>2. CASE Poll(c)
        BY <1>t, <2>2, <4>2, GoMoves DEF Poll
      <4> QED
        BY <1>t, <2>2, <3>1, <4>1, <4>2, GoMoves
           DEF Lock, LoadHead, Discount, ReadHead, CopyOut, Wake
    <3>4. /\ pc'[c] # "check_end"
          /\ \A d \in Consumers \ {c} : pc'[d] = pc[d]
      BY <3>3, Sides DEF Moves
    <3> QED
      BY <3>2, <3>4, HandKept
  <2> QED
    BY <2>3, <2>4
<1>3. CASE \E p \in Procs : Die(p) \/ Start(p)
  <2>1. PICK p \in Procs : Die(p) \/ Start(p)
    BY <1>3
  <2>2. got' = got /\ rec' = rec
    BY <2>1 DEF Die, Start, locals
  <2>3. \A c \in Consumers : pc'[c] = "check_end" <=> pc[c] = "check_end"
    <3>1. CASE Die(p)
      <4>1. p \notin Consumers /\ Moves(p, "dead")
        BY <1>t, <3>1, GoMoves DEF Die
      <4> QED
        BY <4>1, Sides DEF Moves
    <3>2. CASE Start(p)
      <4>1. pc[p] = "dead" /\ \E s : Moves(p, s) /\ s # "check_end"
        BY <1>t, <3>2, GoMoves DEF Start
      <4> QED
        BY <4>1, Sides DEF Moves
    <3> QED
      BY <2>1, <3>1, <3>2
  <2> QED
    BY <2>2, <2>3, HandKept
<1> QED
  BY <1>1, <1>2, <1>3 DEF Quiet

\* A step of the queue is a step of the channel or none.
LEMMA FifoStep ==
  ASSUME OneSided, Mortals \cap Consumers = {}, IInv, QInv, IInv', QInv', [Next]_vars
  PROVE  [F!Next]_(F!vars)
<1>1. RolesInv /\ RoomInv /\ RolesInv' /\ RoomInv' /\ got \in Seq(Messages)
  BY DEF QInv, IInv, TypeOK
<1>2. PICK ms, off : Contents(ms, off)
  BY DEF QInv
<1>3. InQueue = ms /\ ms \in Seq(Messages)
  BY <1>1, <1>2, InQueueIs DEF Contents, Holds
<1>4. CASE \E p \in Producers : Publish(p) /\ \E more : Contents(Append(ms, rec[p]), more)'
  <2>1. PICK p \in Producers : Publish(p) /\ \E more : Contents(Append(ms, rec[p]), more)'
    BY <1>4
  <2>2. rec[p] \in Messages /\ p \in Procs /\ p \notin Consumers
    BY Sides DEF IInv, TypeOK
  <2>3. rec' = rec /\ got' = got /\ Moves(p, "count")
    BY <2>1, <2>2, GoMoves DEF Publish, locals, IInv
  <2> DEFINE all == Append(ms, rec[p])
  <2>4. all' = all
    BY <2>3
  <2>5. \E more : Contents(all, more)'
    BY <2>1
  <2>6. InQueue' = all
    <3>1. PICK more : Contents(all, more)'
      BY <2>5
    <3> HIDE DEF all
    <3> QED
      BY <1>1, <2>4, <3>1, InQueueIsNext
  <2>7. InHand' = InHand
    BY <1>1, <2>2, <2>3, HandKept, Sides DEF Moves
  <2> QED
    BY <1>3, <2>2, <2>3, <2>6, <2>7 DEF F!Next, F!Send
<1>5. CASE \E c \in Consumers : /\ Free(c) /\ ms # <<>> /\ rec[c] = ms[1]
                                /\ \E less : Contents(Tail(ms), less)'
  <2>1. PICK c \in Consumers : /\ Free(c) /\ ms # <<>> /\ rec[c] = ms[1]
                               /\ \E less : Contents(Tail(ms), less)'
    BY <1>5
  <2>2. /\ rec' = rec /\ got' = got /\ Moves(c, "check_end") /\ pc[c] = "free"
    BY <2>1, Sides, GoMoves DEF Free, locals, IInv
  <2>3. InQueue' = Tail(ms)
    BY <1>1, <2>1, InQueueIsNext
  <2>4. InHand' = <<ms[1]>>
    BY <1>1, <2>1, <2>2, InHandIsNext DEF Moves
  <2>5. InHand = <<>>
    <3>1. \A d \in Consumers : pc[d] # "check_end"
      <4>1. ASSUME NEW d \in Consumers, pc[d] = "check_end" PROVE FALSE
        BY <1>1, <2>2, <4>1, OneConsumer DEF Dequeuing
      <4> QED
        BY <4>1
    <3> QED
      BY <1>1, <3>1, InHandIs
  <2>6. (got \o InHand)' = Append(got \o InHand, Head(ms))
    BY <1>1, <1>3, <2>1, <2>2, <2>4, <2>5
  <2> QED
    BY <1>3, <2>1, <2>3, <2>6 DEF F!Next, F!Receive
<1>6. CASE Quiet /\ Contents(ms, off)'
  BY <1>1, <1>2, <1>3, <1>6, InQueueIsNext, QuietTakesNothing DEF F!vars
<1>7. CASE UNCHANGED vars
  <2>1. InQueue' = InQueue /\ InHand' = InHand /\ got' = got
    BY <1>7 DEF InQueue, InHand, vars, shm, locals
  <2> QED
    BY <2>1 DEF F!vars
<1> QED
  BY <1>1, <1>2, <1>4, <1>5, <1>6, <1>7, ContentsOfStep

\* As long as no consumer is killed the queue is a FIFO channel: what the consumers take
\* is what the producers put in, in that order, each message once, even if producers are
\* killed in the middle of writing.
THEOREM FifoImplemented ==
  ASSUME OneSided, Mortals \cap Consumers = {} PROVE Spec => ImplementsFifo
<1>1. Init => F!Init
  <2> SUFFICES ASSUME Init PROVE F!Init
    OBVIOUS
  <2>1. InQueue = <<>> /\ got = <<>>
    BY DEF Init, InQueue, Stored
  <2>2. InHand = <<>>
    BY Sides DEF Init, InHand
  <2> QED
    BY <2>1, <2>2 DEF F!Init
<1>2. IInv /\ QInv /\ IInv' /\ QInv' /\ [Next]_vars => [F!Next]_(F!vars)
  BY FifoStep
<1> QED
  BY <1>1, <1>2, Queue, PTL DEF Spec, ImplementsFifo, F!Spec
=============================================================================
