------------------------------- MODULE ShmMQ -------------------------------
(***************************************************************************)
(* CShmMQ (comm/tbase/tshmcommu.cpp): the ring of bytes in shared memory   *)
(* through which the proxy hands requests to a group of workers, and the   *)
(* workers hand responses to the proxy, with the producers and consumers   *)
(* around it, the notification FIFO that wakes a consumer, and processes   *)
(* that are killed and started again by the controller.                    *)
(*                                                                         *)
(* There is one proxy and it takes no lock ("Proxy" may be the only        *)
(* producer or the only consumer); workers take the producer's or the      *)
(* consumer's file lock.  Every access to head_, tail_, pid_, msg_count or *)
(* the block is a step of its own.  A cell of the block stands for the     *)
(* least piece that is copied: a safe area is one cell, the length and the *)
(* flow of a message another, and its payload is zero or more cells.  What *)
(* splits at the end of the block is therefore the header (between safe    *)
(* area and length) or the payload, never a safe area.                     *)
(*                                                                         *)
(* An operator named Op_Slip is Op with a slip the code could have had.    *)
(***************************************************************************)
EXTENDS Integers, Sequences, FiniteSets

CONSTANTS
  Producers, Consumers,
  Proxy,        \* the process that takes no lock
  None, Dead,   \* no process; a process that no longer exists
  BlockSize,    \* blocksize_, in cells
  UIntSize,     \* the number of values of an unsigned
  DataLens,     \* lengths of payloads
  MaxMsgs,      \* bound: messages the producers try to send
  MaxDeaths,    \* bound: processes that are killed
  Mortals       \* the processes that may be killed

Procs == Producers \cup Consumers

C_SAFE_AREA_LEN == 1
C_HEAD_SIZE == 1

ASSUME SizesAssumption ==
  /\ BlockSize \in Nat /\ UIntSize \in Nat /\ 0 < BlockSize /\ BlockSize < UIntSize
  /\ DataLens \subseteq Nat
  /\ MaxMsgs \in Nat /\ MaxDeaths \in Nat

ASSUME ProcsAssumption ==
  /\ Producers \cap Consumers = {}
  /\ None \notin Procs /\ Dead \notin Procs /\ None # Dead
  /\ Mortals \subseteq Procs

VARIABLES
  head, tail,   \* *head_ and *tail_
  pid,          \* *pid_: the process that is clearing the queue
  block,        \* the cells of block_
  count,        \* pstat_->msg_count
  fifo,         \* is there something to read in the notification FIFO?
  plock, clock, \* who holds the producers' and the consumers' file lock
  pc,           \* what each process does next
  h, t,         \* enqueue and dequeue: the local head and tail
  rec,          \* the message a producer writes, or whose header a consumer read
  buf,          \* what a consumer has copied out of the block
  got,          \* messages handed to CB_RECVDATA, in the order of dequeue
  made, deaths  \* bounded counters

shm == <<head, tail, pid, block, count>>
locks == <<plock, clock>>
locals == <<h, t, rec, buf>>
bounded == <<made, deaths>>
vars == <<shm, fifo, locks, pc, locals, got, bounded>>

Messages == [flow : 0..MaxMsgs, len : DataLens \cup {0}]

\* A length that leaves no room for the safe area behind the payload: what is
\* read as a length in a corrupted queue may be one.
TooShort == [flow |-> 0, len |-> -1]

\* data_len + C_HEAD_SIZE + 2 * C_SAFE_AREA_LEN
Total(m) == m.len + C_HEAD_SIZE + 2 * C_SAFE_AREA_LEN

Zero == [kind |-> "zero"]
Safe == [kind |-> "safe"]

\* The cells of a message in the queue: safe area, length and flow, payload,
\* safe area.
RecordCell(m, i) ==
  CASE i = 0 \/ i = Total(m) - 1 -> Safe
    [] i = 1 -> [kind |-> "head", msg |-> m]
    [] OTHER -> [kind |-> "data", msg |-> m, at |-> i]

\* do_check
Valid_HeadOnly(hd, tl) == hd <= BlockSize
Valid(hd, tl) == hd <= BlockSize /\ tl <= BlockSize

UsedLen(hd, tl) == IF tl > hd THEN tl - hd ELSE tl + BlockSize - hd
FreeLen(hd, tl) == IF hd > tl THEN hd - tl ELSE hd + BlockSize - tl

UInt(n) == n % UIntSize

Go(p, step) == pc' = [pc EXCEPT ![p] = step]

\* A consumer waits for a notification before it polls again.
Rest(p) == IF p \in Producers THEN "idle" ELSE "waiting"

\* flock(LOCK_UN), and the return to the caller's loop
Release(p) ==
  /\ plock' = IF plock = p THEN None ELSE plock
  /\ clock' = IF clock = p THEN None ELSE clock

Leave(p) == Release(p) /\ Go(p, Rest(p))

Nothing == [flow |-> 0, len |-> 0]

Init ==
  /\ head = 0 /\ tail = 0 /\ pid = None /\ count = 0
  /\ block = [i \in 0..BlockSize - 1 |-> Zero]
  /\ fifo = FALSE /\ plock = None /\ clock = None
  /\ pc = [p \in Procs |-> IF p \in Producers THEN "idle" ELSE "awake"]
  /\ h = [p \in Procs |-> 0] /\ t = [p \in Procs |-> 0]
  /\ rec = [p \in Procs |-> Nothing]
  /\ buf = [c \in Consumers |-> <<>>]
  /\ got = <<>> /\ made = 0 /\ deaths = 0

-----------------------------------------------------------------------------
(* Both sides. *)

LoadHead(p) ==
  /\ pc[p] = "head"
  /\ h' = [h EXCEPT ![p] = head]
  /\ Go(p, "tail")
  /\ UNCHANGED <<shm, fifo, locks, t, rec, buf, got, bounded>>

\* do_check of values that are out of range: clear, unless another process is
\* doing so.
Reject(p) ==
  IF pid \in {None, Dead}
  THEN Go(p, "clear_pid") /\ UNCHANGED locks
  ELSE Leave(p)

\* clear(), one write after another; then the caller returns an error.
Clear(p) ==
  /\ \/ /\ pc[p] = "clear_pid"
        /\ pid' = p /\ Go(p, "clear_head")
        /\ UNCHANGED <<head, tail, count, locks>>
     \/ /\ pc[p] = "clear_head"
        /\ head' = 0 /\ Go(p, "clear_tail")
        /\ UNCHANGED <<tail, pid, count, locks>>
     \/ /\ pc[p] = "clear_tail"
        /\ tail' = 0 /\ Go(p, "clear_done")
        /\ UNCHANGED <<head, pid, count, locks>>
     \/ /\ pc[p] = "clear_done"
        /\ pid' = None /\ Go(p, "clear_count")
        /\ UNCHANGED <<head, tail, count, locks>>
     \/ /\ pc[p] = "clear_count"
        /\ count' = 0 /\ Leave(p)
        /\ UNCHANGED <<head, tail, pid>>
  /\ UNCHANGED <<block, fifo, locals, got, bounded>>

-----------------------------------------------------------------------------
(* The producer: CShmProducer::produce, CShmProducerL::produce, enqueue. *)

Produce(p) ==
  /\ pc[p] = "idle" /\ made < MaxMsgs
  /\ p # Proxy => plock = None
  /\ plock' = IF p = Proxy THEN plock ELSE p
  /\ \E len \in DataLens : rec' = [rec EXCEPT ![p] = [flow |-> made + 1, len |-> len]]
  /\ made' = made + 1
  /\ Go(p, "head")
  /\ UNCHANGED <<shm, fifo, clock, h, t, buf, got, deaths>>

\* No room: COMMU_ERR_MQFULL.
IsFull_Exact(p, tl) == FreeLen(h[p], tl) < Total(rec[p])
IsFull(p, tl) == FreeLen(h[p], tl) <= Total(rec[p])

LoadTailToWrite(p) ==
  /\ pc[p] = "tail" /\ p \in Producers
  /\ t' = [t EXCEPT ![p] = tail]
  /\ CASE ~Valid(h[p], tail) -> Reject(p)
       [] Valid(h[p], tail) /\ IsFull(p, tail) -> Leave(p)
       [] OTHER -> Go(p, "write_head") /\ UNCHANGED locks
  /\ UNCHANGED <<shm, fifo, h, rec, buf, got, bounded>>

\* The block after the cells "which" of p's message were copied to it.
Copied(p, which) ==
  [i \in DOMAIN block |->
     IF \E k \in which : i = (t[p] + k) % BlockSize
     THEN RecordCell(rec[p], CHOOSE k \in which : i = (t[p] + k) % BlockSize)
     ELSE block[i]]

WriteHead(p) ==
  /\ pc[p] = "write_head"
  /\ block' = Copied(p, {0, 1})
  /\ Go(p, "write_data")
  /\ UNCHANGED <<head, tail, pid, count, fifo, locks, locals, got, bounded>>

WriteData(p) ==
  /\ pc[p] = "write_data"
  /\ block' = Copied(p, 2..Total(rec[p]) - 1)
  /\ Go(p, "publish")
  /\ UNCHANGED <<head, tail, pid, count, fifo, locks, locals, got, bounded>>

\* Where enqueue puts *tail_.  The first two cases add to what *tail_ holds
\* now, the third computes it from the local tail.
NewTail(p) ==
  LET tail_len == BlockSize - t[p]
      total    == Total(rec[p])
  IN  CASE tail_len >= total -> UInt(tail + total)
        [] tail_len < total /\ tail_len >= C_HEAD_SIZE + C_SAFE_AREA_LEN ->
             UInt(tail + (total - BlockSize))
        [] OTHER -> total - tail_len

Publish(p) ==
  /\ pc[p] = "publish"
  /\ tail' = NewTail(p)
  /\ Go(p, "count")
  /\ UNCHANGED <<head, pid, block, count, fifo, locks, locals, got, bounded>>

\* atomic_add_return(1, msg_count): the first message in the queue is notified.
Count_OldValue(p) ==
  /\ pc[p] = "count"
  /\ count' = count + 1
  /\ IF count = 1 THEN Go(p, "notify") /\ UNCHANGED locks ELSE Leave(p)
  /\ UNCHANGED <<head, tail, pid, block, fifo, locals, got, bounded>>
Count(p) ==
  /\ pc[p] = "count"
  /\ count' = count + 1
  /\ IF count' = 1 THEN Go(p, "notify") /\ UNCHANGED locks ELSE Leave(p)
  /\ UNCHANGED <<head, tail, pid, block, fifo, locals, got, bounded>>

Notify(p) ==
  /\ pc[p] = "notify"
  /\ fifo' = TRUE
  /\ Leave(p)
  /\ UNCHANGED <<shm, locals, got, bounded>>

-----------------------------------------------------------------------------
(* The consumer: CTShmCommu::poll, CShmComsumer(L)::comsume, dequeue. *)

\* A worker looks at msg_count before it locks; the proxy looks at the queue.
Poll(c) ==
  /\ pc[c] = "awake"
  /\ Go(c, CASE c = Proxy -> "head"
             [] c # Proxy /\ count = 0 -> "waiting"
             [] OTHER -> "lock")
  /\ UNCHANGED <<shm, fifo, locks, locals, got, bounded>>

Lock_Shared(c) ==
  /\ pc[c] = "lock"
  /\ clock' = c
  /\ Go(c, "head")
  /\ UNCHANGED <<shm, fifo, plock, locals, got, bounded>>
Lock(c) ==
  /\ pc[c] = "lock" /\ clock = None
  /\ clock' = c
  /\ Go(c, "head")
  /\ UNCHANGED <<shm, fifo, plock, locals, got, bounded>>

\* COMMU_ERR_MQEMPTY
IsEmpty(c, tl) == h[c] = tl

LoadTailToRead(c) ==
  /\ pc[c] = "tail" /\ c \in Consumers
  /\ t' = [t EXCEPT ![c] = tail]
  /\ CASE ~Valid(h[c], tail) -> Reject(c)
       [] Valid(h[c], tail) /\ IsEmpty(c, tail) -> Leave(c)
       [] OTHER -> Go(c, "discount") /\ UNCHANGED locks
  /\ UNCHANGED <<shm, fifo, h, rec, buf, got, bounded>>

Discount_Missing(c) ==
  /\ pc[c] = "discount"
  /\ Go(c, "read_head")
  /\ UNCHANGED <<shm, fifo, locks, locals, got, bounded>>
Discount(c) ==
  /\ pc[c] = "discount"
  /\ count' = count - 1
  /\ Go(c, "read_head")
  /\ UNCHANGED <<head, tail, pid, block, fifo, locks, locals, got, bounded>>

\* The messages whose length and flow a cell may be read as: what is read from
\* a payload is arbitrary.  Zeroes and a safe area make lengths that are out of
\* range.
ReadAs(cell) ==
  CASE cell.kind = "head" -> {cell.msg}
    [] cell.kind = "data" -> Messages \cup {TooShort}
    [] OTHER -> {}

\* A position of the ring, which runs to BlockSize included.
Step(pos, n) == IF pos + n > BlockSize THEN pos + n - BlockSize ELSE pos + n

\* The header is in order: there is a safe area and the length is in range.
ReadHead(c) ==
  /\ pc[c] = "read_head"
  /\ block[h[c] % BlockSize] = Safe
  /\ \E m \in ReadAs(block[(h[c] + 1) % BlockSize]) :
       /\ Total(m) <= UsedLen(h[c], t[c])
       /\ rec' = [rec EXCEPT ![c] = m]
  /\ h' = [h EXCEPT ![c] = Step(@, C_SAFE_AREA_LEN + C_HEAD_SIZE)]
  /\ Go(c, "copy")
  /\ UNCHANGED <<shm, fifo, locks, t, buf, got, bounded>>

\* It is not: the queue is going to be cleared.
ReadBadHead(c) ==
  /\ pc[c] = "read_head"
  /\ LET second == block[(h[c] + 1) % BlockSize]
     IN  \/ block[h[c] % BlockSize] # Safe
         \/ second.kind # "head"
         \/ second.kind = "head" /\ Total(second.msg) > UsedLen(h[c], t[c])
  /\ Go(c, "recheck")
  /\ UNCHANGED <<shm, fifo, locks, locals, got, bounded>>

\* data_len, the safe area behind the payload included
DataLen(m) == Total(m) - C_HEAD_SIZE - C_SAFE_AREA_LEN

CopyOut_FreesFirst(c) ==
  /\ pc[c] = "copy"
  /\ IF head # Step(h[c], DataLen(rec[c]))
     THEN /\ head' = Step(h[c], DataLen(rec[c]))
          /\ UNCHANGED <<pc, buf>>
     ELSE /\ buf' = [buf EXCEPT ![c] =
                [i \in 1..DataLen(rec[c]) |-> block[(h[c] + i - 1) % BlockSize]]]
          /\ Go(c, "free")
          /\ UNCHANGED head
  /\ UNCHANGED <<tail, pid, block, count, fifo, locks, h, t, rec, got, bounded>>
CopyOut(c) ==
  /\ pc[c] = "copy"
  /\ buf' = [buf EXCEPT ![c] =
       [i \in 1..DataLen(rec[c]) |-> block[(h[c] + i - 1) % BlockSize]]]
  /\ Go(c, "free")
  /\ UNCHANGED <<shm, fifo, locks, h, t, rec, got, bounded>>

Free(c) ==
  /\ pc[c] = "free"
  /\ head' = Step(h[c], DataLen(rec[c]))
  /\ Go(c, "check_end")
  /\ UNCHANGED <<tail, pid, block, count, fifo, locks, locals, got, bounded>>

\* dequeue looks for the safe area 4 bytes from the end of what it copied.  If
\* the length was too short it looks outside its buffer: it is killed, or finds
\* something else.
LookOutside(c) ==
  /\ pc[c] = "check_end" /\ buf[c] = <<>>
  /\ \/ Release(c) /\ Go(c, "dead")
     \/ Go(c, "recheck") /\ UNCHANGED locks
  /\ UNCHANGED <<shm, fifo, locals, got, bounded>>

\* The safe area behind the payload is checked, the lock released and the
\* message handed over.
CheckEnd(c) ==
  /\ pc[c] = "check_end" /\ buf[c] # <<>>
  /\ IF buf[c][Len(buf[c])] = Safe
     THEN /\ got' = Append(got, rec[c])
          /\ Release(c) /\ Go(c, "awake")
     ELSE Go(c, "recheck") /\ UNCHANGED <<got, locks>>
  /\ UNCHANGED <<shm, fifo, locals, bounded>>

\* if (do_check(*head_, *tail_)) clear();  -- do_check may clear as well
Recheck(c) ==
  /\ pc[c] = "recheck"
  /\ IF Valid(head, tail) THEN Go(c, "clear_pid") /\ UNCHANGED locks ELSE Reject(c)
  /\ UNCHANGED <<shm, fifo, locals, got, bounded>>

\* A notification is read, or the wait has timed out.
Wake(c) ==
  /\ pc[c] = "waiting"
  /\ fifo' = FALSE
  /\ Go(c, "awake")
  /\ UNCHANGED <<shm, locks, locals, got, bounded>>

-----------------------------------------------------------------------------
(* Processes are killed and started again. *)

\* The kernel releases the locks of a process that dies.
Die(p) ==
  /\ p \in Mortals /\ pc[p] # "dead" /\ deaths < MaxDeaths
  /\ deaths' = deaths + 1
  /\ pid' = IF pid = p THEN Dead ELSE pid
  /\ Release(p) /\ Go(p, "dead")
  /\ UNCHANGED <<head, tail, block, count, fifo, locals, got, made>>

\* CShmMQ::init attaches to the queue as it is; the proxy then clears it.
Start(p) ==
  /\ pc[p] = "dead"
  /\ pid' = None
  /\ Go(p, CASE p = Proxy -> "clear_pid"
             [] p # Proxy /\ p \in Producers -> "idle"
             [] OTHER -> "awake")
  /\ UNCHANGED <<head, tail, block, count, fifo, locks, locals, got, bounded>>

-----------------------------------------------------------------------------
Enqueue(p) ==
  \/ LoadHead(p) \/ LoadTailToWrite(p) \/ WriteHead(p) \/ WriteData(p)
  \/ Publish(p) \/ Count(p) \/ Notify(p)

Dequeue(c) ==
  \/ Poll(c) \/ Lock(c) \/ LoadHead(c) \/ LoadTailToRead(c) \/ Discount(c)
  \/ ReadHead(c) \/ ReadBadHead(c) \/ CopyOut(c) \/ Free(c) \/ CheckEnd(c)
  \/ LookOutside(c) \/ Recheck(c) \/ Wake(c)

Next ==
  \/ \E p \in Producers : Produce(p) \/ Enqueue(p)
  \/ \E c \in Consumers : Dequeue(c)
  \/ \E p \in Procs : Clear(p) \/ Die(p) \/ Start(p)

\* Every live process goes on with what it has begun, and one that dies is
\* started again by the controller.
Fairness ==
  /\ \A p \in Producers : WF_vars(Enqueue(p))
  /\ \A c \in Consumers : WF_vars(Dequeue(c))
  /\ \A p \in Procs : WF_vars(Clear(p)) /\ WF_vars(Start(p))

Spec == Init /\ [][Next]_vars
FairSpec == Spec /\ Fairness

-----------------------------------------------------------------------------
(* What the block holds: the records from *head_ to *tail_. *)

Broken == [flow |-> 0, len |-> 0]

\* The messages in the cells from position hd to position tl.
Stored(hd, tl, cells) ==
  LET end == hd + UsedLen(hd, tl)
      Records[used \in 0..BlockSize] ==
        LET first == cells[(end - used + 1) % BlockSize]
        IN  IF used = 0 THEN <<>>
            ELSE IF /\ first.kind = "head" /\ Total(first.msg) <= used
                    /\ \A k \in 0..Total(first.msg) - 1 :
                         cells[(end - used + k) % BlockSize] = RecordCell(first.msg, k)
                 THEN <<first.msg>> \o Records[used - Total(first.msg)]
                 ELSE <<Broken>>
  IN  IF hd = tl THEN <<>> ELSE Records[UsedLen(hd, tl)]

InQueue == Stored(head, tail, block)

\* The message a consumer has taken and not handed over yet.
InHand ==
  LET c == CHOOSE c \in Consumers : pc[c] = "check_end"
  IN  IF \E p \in Consumers : pc[p] = "check_end" THEN <<rec[c]>> ELSE <<>>

-----------------------------------------------------------------------------
(* Properties. *)

Cells == {Zero, Safe} \cup [kind : {"head"}, msg : Messages]
           \cup [kind : {"data"}, msg : Messages, at : 0..BlockSize]

Steps == {"idle", "head", "tail", "write_head", "write_data", "publish", "count",
          "notify", "awake", "waiting", "lock", "discount", "read_head", "copy",
          "free", "check_end", "recheck", "clear_pid", "clear_head",
          "clear_tail", "clear_done", "clear_count", "dead"}

\* Every variable keeps its type.  *head_ and *tail_ may hold any unsigned.
TypeOK ==
  /\ head \in 0..UIntSize - 1 /\ tail \in 0..UIntSize - 1
  /\ pid \in Procs \cup {None, Dead}
  /\ block \in [0..BlockSize - 1 -> Cells]
  /\ count \in Int /\ fifo \in BOOLEAN
  /\ plock \in Producers \cup {None} /\ clock \in Consumers \cup {None}
  /\ pc \in [Procs -> Steps]
  /\ h \in [Procs -> 0..UIntSize - 1] /\ t \in [Procs -> 0..UIntSize - 1]
  /\ rec \in [Procs -> Messages \cup {TooShort}]
  /\ \A p \in Producers : rec[p] \in Messages
  /\ buf \in [Consumers -> Seq(Cells)]
  /\ got \in Seq(Messages)
  /\ made \in 0..MaxMsgs /\ deaths \in 0..MaxDeaths

\* Whatever processes die, and whoever clears the queue meanwhile, no memcpy
\* of enqueue or dequeue leaves the block: the positions it starts from were
\* checked, and what it copies is no longer than the block.
InBounds ==
  /\ \A p \in Producers :
       pc[p] \in {"write_head", "write_data", "publish"} =>
         t[p] <= BlockSize /\ Total(rec[p]) <= BlockSize
  /\ \A c \in Consumers :
       /\ pc[c] \in {"discount", "read_head", "copy", "free"} => h[c] <= BlockSize
       /\ pc[c] \in {"discount", "read_head"} => t[c] <= BlockSize
       /\ pc[c] \in {"copy", "free"} => DataLen(rec[c]) <= BlockSize

\* msg_count, which the workers and the controller read without a lock, is the
\* number of messages in the queue, less those that are published and not
\* counted yet, less those that a consumer has begun to take, until a process
\* dies halfway.
CountAgrees ==
  deaths = 0 =>
    count = Len(InQueue)
              - Cardinality({p \in Producers : pc[p] = "count"})
              - Cardinality({c \in Consumers : pc[c] \in {"read_head", "copy", "free"}})

\* What a consumer copied out of the block is one message as it was sent, even
\* if producers and other consumers died halfway.
Whole ==
  \A c \in Consumers : pc[c] = "check_end" =>
    buf[c] = [i \in 1..DataLen(rec[c]) |-> RecordCell(rec[c], i + 1)]

\* Messages are handed over at most once and in the order they were sent in.
NotTwice == \A i, j \in DOMAIN got : i < j => got[i].flow < got[j].flow

\* The consumers never all wait for a notification that nobody is going to
\* send while there are messages in the queue, unless a process died.
NoSilentBacklog ==
  /\ deaths = 0 /\ InQueue # <<>>
  /\ (\A c \in Consumers : pc[c] = "waiting") /\ (\A p \in Producers : pc[p] = "idle")
  => fifo

\* While no consumer dies the queue is a FIFO channel, whatever becomes of the
\* producers.
F == INSTANCE ShmFifo WITH chan <- InQueue, got <- got \o InHand
ImplementsFifo == F!Spec

\* A message in the queue is handed over in the end, unless a process dies.
Delivered ==
  \A n \in 1..MaxMsgs :
    (\E i \in DOMAIN InQueue : InQueue[i].flow = n)
      ~> deaths > 0 \/ \E i \in DOMAIN got : got[i].flow = n
=============================================================================
