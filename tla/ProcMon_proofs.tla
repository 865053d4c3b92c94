--------------------------- MODULE ProcMon_proofs ---------------------------
(***************************************************************************)
(* What the controller knows of its processes, for any set of them and any *)
(* number and order of failures: none is forgotten that was not told to    *)
(* exit, and while no process has reported an exception curprocnum_ is the *)
(* number of the processes in the list, however the calls are nested.  If  *)
(* nothing is slow there are never more processes than were asked for, and *)
(* the first reload replaces every one of them while a worker is always    *)
(* there to serve requests.                                                *)
(***************************************************************************)
EXTENDS ProcMon, SequenceTheorems, FiniteSetTheorems, WellFoundedInduction, TLAPS

Kinds == {"starting", "ready", "exception"}
Messages == [pid : Pids, kind : Kinds]
Signals == {"quit", "reload"}
Counters == {"killed", "segvs", "hangs", "slow", "late", "reloads"}
Frames == [at : Steps, p : Pids \cup {0}, n : Int, todo : SUBSET Pids]

TypeInv ==
  /\ life \in [Pids -> Lives] /\ sig \in [Pids -> SUBSET Signals]
  /\ mq \in Seq(Messages)
  /\ listed \subseteq Pids /\ stale \subseteq Pids /\ tag \subseteq Pids
  /\ count \in Int
  /\ stack \in Seq(Frames)
  /\ bounds \in [Counters -> Nat]

\* A process in the list, or one that has sent a message, has been forked.
Known ==
  /\ \A p \in listed : life[p] # "unborn"
  /\ \A i \in DOMAIN mq : life[mq[i].pid] # "unborn"

\* What a frame of the call stack rests on, until it returns; lf and sg are the
\* processes' lives and signals.
Rests(f, lf, sg) ==
  /\ f.at \in {"segv_wait", "kill", "verify", "replace", "drop"} => f.p \in Pids
  /\ f.at = "replace" => lf[f.p] = "gone"
  /\ f.at = "drop" => lf[f.p] = "gone" \/ sg[f.p] # {}
StackInv == \A i \in DOMAIN stack : Rests(stack[i], life, sig)

\* Without haste a reload is asked for when none goes on, and then none is tagged.
ReloadInv ==
  /\ ~Hasty /\ hup => reload = PROC_RELOAD_NORMAL
  /\ reload = PROC_RELOAD_NORMAL => tag = {}

\* Before the first exception no process is dying of one, and none is reported.
NoneDying == \A p \in Pids : life[p] \notin {"dumping", "dying"}
NoneReported == \A i \in DOMAIN mq : mq[i].kind # "exception"

\* At most one process is dealt with at a time, and it is in the list until that
\* is done: above its frame messages are read, and no more.
Busy(f) == f.at \in {"kill", "verify", "replace", "drop"}
Orderly(st, known) ==
  \A i \in DOMAIN st :
    /\ st[i].at \notin {"segv_wait", "crashed"}
    /\ Busy(st[i]) => /\ st[i].p \in known
                      /\ \A k \in 1..i - 1 : st[k].at = "recv"
Matches == IsFiniteSet(listed) /\ count = Cardinality(listed)
Calm ==
  bounds["segvs"] = 0 => NoneDying /\ NoneReported /\ Orderly(stack, listed) /\ Matches

IInv == TypeInv /\ Known /\ StackInv /\ ReloadInv /\ Calm

\* No process comes back or is born again, and no signal is taken back.
Moves ==
  \A p \in Pids :
    /\ life[p] = "gone" => life'[p] = "gone"
    /\ life[p] # "unborn" => life'[p] # "unborn"
    /\ sig[p] # {} => sig'[p] # {}

-----------------------------------------------------------------------------
(* Sequences. *)

\* What a stack holds when its first frame has made way for others.
LEMMA Exchanged ==
  ASSUME NEW S, NEW s \in Seq(S), s # <<>>, NEW fs \in Seq(S), NEW t, t = fs \o Tail(s)
  PROVE  /\ t \in Seq(S) /\ DOMAIN t = 1..Len(t) /\ Len(t) \in Nat /\ Len(fs) \in Nat
         /\ DOMAIN s = 1..Len(s) /\ Len(s) \in Nat /\ DOMAIN fs = 1..Len(fs)
         /\ \A i \in DOMAIN fs : i \in DOMAIN t /\ t[i] = fs[i]
         /\ \A i \in DOMAIN t : i > Len(fs) =>
              i - Len(fs) + 1 \in DOMAIN s /\ t[i] = s[i - Len(fs) + 1]
<1> DEFINE r == Tail(s)
<1>1. /\ r \in Seq(S) /\ Len(r) = Len(s) - 1
      /\ \A i \in 1..Len(r) : r[i] = s[i + 1]
  BY HeadTailProperties
<1> HIDE DEF r
<1>2. /\ t \in Seq(S) /\ Len(t) = Len(fs) + Len(r)
      /\ \A i \in 1..Len(fs) + Len(r) :
           t[i] = IF i <= Len(fs) THEN fs[i] ELSE r[i - Len(fs)]
  <2>1. t = fs \o r
    BY DEF r
  <2> QED
    BY <1>1, <2>1, ConcatProperties, SMTT(40)
<1>3. /\ Len(fs) \in Nat /\ DOMAIN fs = 1..Len(fs) /\ Len(r) \in Nat
      /\ Len(t) \in Nat /\ DOMAIN t = 1..Len(t) /\ Len(s) \in Nat /\ DOMAIN s = 1..Len(s)
  BY <1>1, <1>2, LenProperties
<1>4. ASSUME NEW i \in DOMAIN fs PROVE i \in DOMAIN t /\ t[i] = fs[i]
  BY <1>2, <1>3
<1>5. ASSUME NEW i \in DOMAIN t, i > Len(fs)
      PROVE  i - Len(fs) + 1 \in DOMAIN s /\ t[i] = s[i - Len(fs) + 1]
  <2>1. i - Len(fs) \in 1..Len(r) /\ t[i] = r[i - Len(fs)]
    BY <1>2, <1>3, <1>5, SMTT(40)
  <2> QED
    BY <2>1, <1>1, <1>3, SMTT(40)
<1> QED
  BY <1>2, <1>3, <1>4, <1>5

\* A sequence without one of its elements.
LEMMA Parts ==
  ASSUME NEW S, NEW s \in Seq(S), NEW n \in DOMAIN s
  PROVE  LET t == SubSeq(s, 1, n - 1) \o SubSeq(s, n + 1, Len(s))
         IN  /\ t \in Seq(S) /\ DOMAIN t = 1..Len(s) - 1
             /\ DOMAIN s = 1..Len(s) /\ Len(s) \in Nat
             /\ \A i \in 1..n - 1 : t[i] = s[i]
             /\ \A i \in n..Len(s) - 1 : t[i] = s[i + 1]
<1> DEFINE t == SubSeq(s, 1, n - 1) \o SubSeq(s, n + 1, Len(s))
<1> HIDE DEF t
<1>1. DOMAIN s = 1..Len(s) /\ Len(s) \in Nat /\ n \in 1..Len(s)
      /\ \A i \in 1..Len(s) : s[i] \in S
  BY LenProperties, ElementOfSeq
<1> DEFINE a == SubSeq(s, 1, n - 1)
           b == SubSeq(s, n + 1, Len(s))
<1>2. /\ a \in Seq(S) /\ Len(a) = n - 1 /\ \A i \in 1..n - 1 : a[i] = s[i]
  <2>1. \A i \in 1..n - 1 : s[i] \in S
    BY <1>1
  <2>2. /\ a \in Seq(S) /\ Len(a) = IF 1 <= n - 1 THEN n - 1 - 1 + 1 ELSE 0
        /\ \A i \in 1..n - 1 - 1 + 1 : a[i] = s[1 + i - 1]
    BY <1>1, <2>1, SubSeqProperties
  <2> HIDE DEF a
  <2> QED
    BY <1>1, <2>2
<1>3. /\ b \in Seq(S) /\ Len(b) = Len(s) - n
      /\ \A i \in 1..Len(s) - n : b[i] = s[n + i]
  <2>1. \A i \in n + 1..Len(s) : s[i] \in S
    BY <1>1
  <2>2. /\ b \in Seq(S)
        /\ Len(b) = IF n + 1 <= Len(s) THEN Len(s) - (n + 1) + 1 ELSE 0
        /\ \A i \in 1..Len(s) - (n + 1) + 1 : b[i] = s[n + 1 + i - 1]
    BY <1>1, <2>1, SubSeqProperties
  <2> HIDE DEF b
  <2>3. Len(s) - (n + 1) + 1 = Len(s) - n
    BY <1>1
  <2>4. \A i \in 1..Len(s) - n : n + 1 + i - 1 = n + i
    BY <1>1
  <2>5. \A i \in 1..Len(s) - n : b[i] = s[n + i]
    BY <2>2, <2>3, <2>4
  <2>6. Len(b) = Len(s) - n
    BY <1>1, <2>2
  <2> QED
    BY <2>2, <2>5, <2>6
<1> HIDE DEF a, b
<1>4. /\ t \in Seq(S) /\ Len(t) = Len(a) + Len(b)
      /\ \A i \in 1..Len(a) + Len(b) : t[i] = IF i <= Len(a) THEN a[i] ELSE b[i - Len(a)]
  <2>1. t = a \o b
    BY DEF a, b, t
  <2>2. a \in Seq(S) /\ b \in Seq(S)
    BY <1>2, <1>3
  <2> QED
    BY <2>1, <2>2, ConcatProperties
<1>5. Len(t) = Len(s) - 1 /\ DOMAIN t = 1..Len(s) - 1 /\ Len(a) = n - 1
      /\ Len(a) + Len(b) = Len(s) - 1
  <2>1. DOMAIN t = 1..Len(t)
    BY <1>4, LenProperties
  <2> QED
    BY <1>1, <1>2, <1>3, <1>4, <2>1
<1>6. ASSUME NEW i \in 1..n - 1 PROVE t[i] = s[i]
  <2>1. i \in 1..Len(s) - 1 /\ i <= n - 1
    BY <1>1
  <2> QED
    BY <1>2, <1>4, <1>5, <2>1
<1>7. ASSUME NEW i \in n..Len(s) - 1 PROVE t[i] = s[i + 1]
  <2> DEFINE k == i - (n - 1)
  <2>1. i \in 1..Len(s) - 1 /\ ~(i <= n - 1) /\ k \in 1..Len(s) - n /\ n + k = i + 1
    BY <1>1
  <2>2. t[i] = b[k]
    BY <1>4, <1>5, <2>1
  <2> HIDE DEF k
  <2> QED
    BY <1>3, <2>1, <2>2
<1> QED
  BY <1>1, <1>4, <1>5, <1>6, <1>7 DEF t

LEMMA Shortened ==
  ASSUME NEW S, NEW s \in Seq(S), NEW n \in DOMAIN s
  PROVE  LET t == SubSeq(s, 1, n - 1) \o SubSeq(s, n + 1, Len(s))
         IN  /\ t \in Seq(S) /\ \A i \in DOMAIN t : \E j \in DOMAIN s : t[i] = s[j]
             /\ \A j \in DOMAIN s : j # n => \E i \in DOMAIN t : t[i] = s[j]
<1> DEFINE t == SubSeq(s, 1, n - 1) \o SubSeq(s, n + 1, Len(s))
<1> HIDE DEF t
<1>1. /\ t \in Seq(S) /\ DOMAIN t = 1..Len(s) - 1
      /\ DOMAIN s = 1..Len(s) /\ Len(s) \in Nat
      /\ \A i \in 1..n - 1 : t[i] = s[i]
      /\ \A i \in n..Len(s) - 1 : t[i] = s[i + 1]
  BY Parts DEF t
<1>2. ASSUME NEW i \in DOMAIN t PROVE \E j \in DOMAIN s : t[i] = s[j]
  <2>1. /\ i \in DOMAIN s /\ i + 1 \in DOMAIN s
        /\ i \in 1..n - 1 \/ i \in n..Len(s) - 1
    BY <1>1
  <2> QED
    BY <1>1, <2>1
<1>3. ASSUME NEW j \in DOMAIN s, j # n PROVE \E i \in DOMAIN t : t[i] = s[j]
  <2>1. CASE j < n
    <3>1. j \in 1..n - 1 /\ j \in DOMAIN t
      BY <1>1, <2>1
    <3> QED
      BY <1>1, <3>1
  <2>2. CASE j > n
    <3>1. j - 1 \in n..Len(s) - 1 /\ j - 1 \in DOMAIN t /\ j - 1 + 1 = j
      BY <1>1, <2>2
    <3> QED
      BY <1>1, <3>1
  <2> QED
    BY <1>1, <1>3, <2>1, <2>2
<1> QED
  BY <1>1, <1>2, <1>3 DEF t

\* A set of numbers that is not empty has a least one.
LEMMA Least ==
  ASSUME NEW T \in SUBSET Nat, T # {}
  PROVE  \E i \in T : \A j \in T : i <= j
<1>1. PICK i \in T : \A j \in T : ~(<<j, i>> \in OpToRel(<, Nat))
  BY WFMin, NatLessThanWellFounded
<1>2. \A j \in T : ~(j < i)
  BY <1>1 DEF OpToRel
<1> QED
  BY <1>2

-----------------------------------------------------------------------------
(* The queue of messages. *)

LEMMA Sent ==
  ASSUME TypeInv, Known, NEW p \in Pids, NEW kind \in Kinds, Send(p, kind),
         life[p] # "unborn", Moves
  PROVE  /\ mq' \in Seq(Messages)
         /\ \A i \in DOMAIN mq' : life'[mq'[i].pid] # "unborn"
         /\ NoneReported /\ kind # "exception" => NoneReported'
<1> DEFINE msg == [pid |-> p, kind |-> kind]
<1>1. msg \in Messages /\ msg.pid = p /\ msg.kind = kind
  BY DEF Messages
<1>2. mq' = mq \/ mq' = Append(mq, msg)
  BY DEF Send
<1>3. mq \in Seq(Messages)
  BY DEF TypeInv
<1>4. \A i \in DOMAIN mq : mq[i] \in Messages /\ mq[i].pid \in Pids
  <2>1. \A i \in DOMAIN mq : mq[i] \in Messages
    BY <1>3, LenProperties, ElementOfSeq
  <2> QED
    BY <2>1 DEF Messages
<1> HIDE DEF msg
<1>5. /\ mq' \in Seq(Messages)
      /\ \A i \in DOMAIN mq' : mq'[i] = msg \/ \E j \in DOMAIN mq : mq'[i] = mq[j]
  <2>1. CASE mq' = mq
    BY <2>1, <1>3
  <2>2. CASE mq' = Append(mq, msg)
    BY <2>2, <1>1, <1>3, AppendProperties, LenProperties
  <2> QED
    BY <1>2, <2>1, <2>2
<1>6. ASSUME NEW i \in DOMAIN mq'
      PROVE  /\ life'[mq'[i].pid] # "unborn"
             /\ NoneReported /\ kind # "exception" => mq'[i].kind # "exception"
  BY <1>1, <1>4, <1>5, <1>6 DEF Known, Moves, NoneReported
<1> QED
  BY <1>5, <1>6 DEF NoneReported

LEMMA Received ==
  ASSUME TypeInv, Known, NextMsg > 0, mq' = Without(NextMsg), UNCHANGED life
  PROVE  /\ NextMsg \in DOMAIN mq /\ mq[NextMsg] \in Messages
         /\ mq' \in Seq(Messages)
         /\ \A i \in DOMAIN mq' : life'[mq'[i].pid] # "unborn"
         /\ NoneReported => NoneReported'
<1> DEFINE n == NextMsg
<1>1. mq \in Seq(Messages) /\ DOMAIN mq = 1..Len(mq) /\ Len(mq) \in Nat
  BY LenProperties DEF TypeInv
<1>2. n \in DOMAIN mq
  <2> DEFINE mine == {i \in DOMAIN mq : Top.p \in {0, mq[i].pid}}
  <2>1. mine # {} /\ n = CHOOSE i \in mine : \A j \in mine : i <= j
    BY DEF NextMsg
  <2>2. mine \in SUBSET Nat
    BY <1>1
  <2> HIDE DEF mine, n
  <2>3. \E i \in mine : \A j \in mine : i <= j
    BY <2>1, <2>2, Least
  <2>4. n \in mine
    BY <2>1, <2>3
  <2> QED
    BY <2>4 DEF mine
<1>3. mq' = SubSeq(mq, 1, n - 1) \o SubSeq(mq, n + 1, Len(mq))
  BY DEF Without
<1>4. mq[n] \in Messages
  <2> HIDE DEF n
  <2> QED
    BY <1>1, <1>2, ElementOfSeq
<1> HIDE DEF n
<1>5. /\ mq' \in Seq(Messages)
      /\ \A i \in DOMAIN mq' : \E j \in DOMAIN mq : mq'[i] = mq[j]
  <2> DEFINE S == Messages
             q == mq'
  <2>1. mq \in Seq(S) /\ q = SubSeq(mq, 1, n - 1) \o SubSeq(mq, n + 1, Len(mq))
    BY <1>1, <1>3
  <2> HIDE DEF S, q
  <2>2. q \in Seq(S) /\ \A i \in DOMAIN q : \E j \in DOMAIN mq : q[i] = mq[j]
    BY <2>1, <1>2, Shortened
  <2> QED
    BY <2>2 DEF S, q
<1> QED
  BY <1>2, <1>4, <1>5 DEF Known, NoneReported, n

-----------------------------------------------------------------------------
(* The call stack. *)

LEMMA FrameType ==
  ASSUME NEW at \in Steps, NEW p \in Pids \cup {0}, NEW n \in Int, NEW todo \in SUBSET Pids
  PROVE  /\ Frame(at, p, n, todo) \in Frames
         /\ Frame(at, p, n, todo).at = at /\ Frame(at, p, n, todo).p = p
  BY DEF Frame, Frames

LEMMA TopType ==
  ASSUME TypeInv, stack # <<>>
  PROVE  /\ 1 \in DOMAIN stack /\ Top = stack[1] /\ Top \in Frames
         /\ Top.p \in Pids \cup {0} /\ Top.n \in Int /\ Top.todo \subseteq Pids
<1>1. stack \in Seq(Frames)
  BY DEF TypeInv
<1>2. 1 \in DOMAIN stack /\ Top = stack[1] /\ Top \in Frames
  BY <1>1, LenProperties, EmptySeq, HeadTailProperties, ElementOfSeq DEF Top
<1> QED
  BY <1>2 DEF Frames

\* A frame makes way for others: the frames below keep what they rest on, since no
\* process comes back and no signal is taken back.
LEMMA StackKept ==
  ASSUME TypeInv, StackInv, stack # <<>>, Moves,
         NEW fs \in Seq(Frames), stack' = fs \o Tail(stack),
         \A i \in DOMAIN fs : Rests(fs[i], life', sig')
  PROVE  stack' \in Seq(Frames) /\ StackInv'
<1>1. stack \in Seq(Frames)
  BY DEF TypeInv
<1>2. /\ stack' \in Seq(Frames) /\ DOMAIN stack' = 1..Len(stack') /\ Len(stack') \in Nat
      /\ Len(fs) \in Nat /\ DOMAIN fs = 1..Len(fs)
      /\ \A i \in DOMAIN fs : i \in DOMAIN stack' /\ stack'[i] = fs[i]
      /\ \A i \in DOMAIN stack' : i > Len(fs) =>
           i - Len(fs) + 1 \in DOMAIN stack /\ stack'[i] = stack[i - Len(fs) + 1]
  BY <1>1, Exchanged
<1>3. ASSUME NEW i \in DOMAIN stack' PROVE Rests(stack'[i], life', sig')
  <2>1. CASE i \in DOMAIN fs
    BY <2>1, <1>2
  <2>2. CASE i > Len(fs)
    <3> DEFINE j == i - Len(fs) + 1
    <3>1. j \in DOMAIN stack /\ stack'[i] = stack[j]
      BY <2>2, <1>2
    <3> HIDE DEF j
    <3>2. Rests(stack[j], life, sig)
      BY <3>1 DEF StackInv
    <3>3. Rests(stack[j], life', sig')
      BY <3>2 DEF Rests, Moves
    <3> QED
      BY <3>1, <3>3
  <2>3. i \in DOMAIN fs \/ i > Len(fs)
    BY <1>2
  <2> QED
    BY <2>1, <2>2, <2>3
<1> QED
  BY <1>2, <1>3 DEF StackInv

\* The running function, unless it reads messages, is the only one that deals with a
\* process.
LEMMA OrderKept ==
  ASSUME TypeInv, stack # <<>>, Orderly(stack, listed), Top.at # "recv",
         NEW fs \in Seq(Frames), stack' = fs \o Tail(stack), Orderly(fs, listed')
  PROVE  Orderly(stack', listed')
<1>1. stack \in Seq(Frames)
  BY DEF TypeInv
<1>2. /\ stack' \in Seq(Frames) /\ DOMAIN stack' = 1..Len(stack') /\ Len(stack') \in Nat
      /\ Len(fs) \in Nat /\ DOMAIN fs = 1..Len(fs) /\ DOMAIN stack = 1..Len(stack)
      /\ \A i \in DOMAIN fs : i \in DOMAIN stack' /\ stack'[i] = fs[i]
      /\ \A i \in DOMAIN stack' : i > Len(fs) =>
           i - Len(fs) + 1 \in DOMAIN stack /\ stack'[i] = stack[i - Len(fs) + 1]
  BY <1>1, Exchanged
<1>3. ASSUME NEW i \in DOMAIN stack'
      PROVE  /\ stack'[i].at \notin {"segv_wait", "crashed"}
             /\ Busy(stack'[i]) => /\ stack'[i].p \in listed'
                                   /\ \A k \in 1..i - 1 : stack'[k].at = "recv"
  <2>1. CASE i \in DOMAIN fs
    <3>1. \A k \in 1..i - 1 : k \in DOMAIN fs
      BY <2>1, <1>2
    <3> QED
      BY <2>1, <3>1, <1>2 DEF Orderly
  <2>2. CASE i > Len(fs)
    <3> DEFINE j == i - Len(fs) + 1
    <3>1. j \in DOMAIN stack /\ stack'[i] = stack[j] /\ 1 \in 1..j - 1
      BY <2>2, <1>2
    <3>2. Top = stack[1]
      BY TopType
    <3> HIDE DEF j
    <3>3. ~Busy(stack[j])
      BY <3>1, <3>2 DEF Orderly
    <3> QED
      BY <3>1, <3>3 DEF Orderly
  <2>3. i \in DOMAIN fs \/ i > Len(fs)
    BY <1>2
  <2> QED
    BY <2>1, <2>2, <2>3
<1> QED
  BY <1>3 DEF Orderly

\* The frames that a function leaves: none, one or two or three.
LEMMA NoFrame ==
  ASSUME TypeInv, stack # <<>>, Return
  PROVE  /\ <<>> \in Seq(Frames) /\ stack' = <<>> \o Tail(stack) /\ DOMAIN <<>> = {}
         /\ \A known : Orderly(<<>>, known)
<1>1. Tail(stack) \in Seq(Frames)
  BY HeadTailProperties DEF TypeInv
<1>2. <<>> \o Tail(stack) = Tail(stack)
  BY <1>1, ConcatEmptySeq
<1>3. DOMAIN <<>> = {}
  OBVIOUS
<1> QED
  BY <1>2, <1>3, EmptySeq DEF Return, Orderly

LEMMA OneFrame ==
  ASSUME NEW f \in Frames
  PROVE  /\ <<f>> \in Seq(Frames)
         /\ DOMAIN <<f>> = {1} /\ <<f>>[1] = f
  OBVIOUS

LEMMA TwoFrames ==
  ASSUME NEW f \in Frames, NEW g \in Frames
  PROVE  /\ <<f, g>> \in Seq(Frames)
         /\ DOMAIN <<f, g>> = {1, 2} /\ <<f, g>>[1] = f /\ <<f, g>>[2] = g
  OBVIOUS

LEMMA Joined ==
  ASSUME NEW f \in Frames, NEW g \in Frames
  PROVE  <<f>> \o <<g>> = <<f, g>> /\ <<>> \o <<g>> = <<g>>
<1>1. <<f>> \in Seq(Frames) /\ <<g>> \in Seq(Frames)
  BY OneFrame
<1>2. <<>> \o <<g>> = <<g>>
  BY <1>1, ConcatEmptySeq
<1> DEFINE s == <<f>> \o <<g>>
           t == <<f, g>>
<1>3. s \in Seq(Frames) /\ Len(s) = 2 /\ s[1] = f /\ s[2] = g
  BY <1>1, ConcatProperties
<1>4. t \in Seq(Frames) /\ Len(t) = 2 /\ t[1] = f /\ t[2] = g
  OBVIOUS
<1> HIDE DEF s, t
<1>5. \A i \in 1..2 : s[i] = t[i]
  BY <1>3, <1>4
<1>6. s = t
  BY <1>3, <1>4, <1>5, SeqEqual
<1> QED
  BY <1>2, <1>6 DEF s, t

LEMMA ThreeFrames ==
  ASSUME NEW f \in Frames, NEW g \in Frames, NEW h \in Frames
  PROVE  /\ <<f, g, h>> \in Seq(Frames)
         /\ DOMAIN <<f, g, h>> = {1, 2, 3}
         /\ <<f, g, h>>[1] = f /\ <<f, g, h>>[2] = g /\ <<f, g, h>>[3] = h
  OBVIOUS

\* What the frames of a function that runs and has reason to deal with p are.
LEMMA OneIsOrderly ==
  ASSUME NEW f \in Frames, NEW known, f.at \notin {"segv_wait", "crashed"},
         Busy(f) => f.p \in known
  PROVE  Orderly(<<f>>, known)
<1>1. DOMAIN <<f>> = {1} /\ <<f>>[1] = f
  BY OneFrame
<1>2. \A k \in 1..1 - 1 : FALSE
  OBVIOUS
<1> QED
  BY <1>1, <1>2 DEF Orderly

\* A function of the controller other than do_recv: what it has to keep.
LEMMA ControlStep ==
  ASSUME IInv, stack # <<>>, Top.at # "recv", Moves,
         NEW fs \in Seq(Frames), stack' = fs \o Tail(stack),
         \A i \in DOMAIN fs : Rests(fs[i], life', sig'),
         bounds["segvs"] = 0 => Orderly(fs, listed'),
         life' \in [Pids -> Lives], sig' \in [Pids -> SUBSET Signals],
         listed' \subseteq Pids, stale' \subseteq Pids, tag' \subseteq Pids,
         count' \in Int, UNCHANGED <<mq, bounds>>,
         \A p \in listed' : life'[p] # "unborn",
         ReloadInv',
         bounds["segvs"] = 0 /\ NoneDying => NoneDying',
         bounds["segvs"] = 0 /\ Matches => Matches'
  PROVE  IInv'
<1>1. stack' \in Seq(Frames) /\ StackInv'
  BY StackKept DEF IInv
<1>2. TypeInv'
  BY <1>1 DEF IInv, TypeInv
<1>3. Known'
  <2>1. \A i \in DOMAIN mq : mq[i].pid \in Pids
    <3>1. mq \in Seq(Messages)
      BY DEF IInv, TypeInv
    <3>2. \A i \in DOMAIN mq : mq[i] \in Messages
      BY <3>1, LenProperties, ElementOfSeq
    <3> QED
      BY <3>2 DEF Messages
  <2> QED
    BY <2>1 DEF IInv, Known, Moves
<1>4. ASSUME bounds["segvs"] = 0 PROVE Orderly(stack', listed')
  BY <1>4, OrderKept DEF IInv, Calm
<1>5. Calm'
  BY <1>4 DEF IInv, Calm, NoneReported
<1> QED
  BY <1>1, <1>2, <1>3, <1>5 DEF IInv

LEMMA Forked ==
  ASSUME TypeInv, NEW n, Fork(n), UNCHANGED sig
  PROVE  /\ life' \in [Pids -> Lives] /\ Moves
         /\ \A p \in Pids : \/ life'[p] = life[p]
                            \/ life[p] = "unborn" /\ life'[p] = "forked"
         /\ NoneDying => NoneDying'
<1>1. \A p \in Pids : \/ life'[p] = life[p]
                      \/ life[p] = "unborn" /\ life'[p] = "forked"
  BY DEF Fork
<1>2. life' \in [Pids -> Lives]
  BY DEF Fork, TypeInv, Lives
<1> QED
  BY <1>1, <1>2 DEF Moves, NoneDying

LEMMA Signalled ==
  ASSUME TypeInv, NEW T \in SUBSET Pids, NEW s \in Signals, Kill(T, s), UNCHANGED life
  PROVE  /\ sig' \in [Pids -> SUBSET Signals] /\ Moves
         /\ \A p \in T : life[p] # "unborn" => life'[p] = "gone" \/ sig'[p] # {}
<1>1. \A p \in Pids : sig'[p] = IF p \in T \cap Alive THEN sig[p] \cup {s} ELSE sig[p]
  BY DEF Kill
<1>2. sig' \in [Pids -> SUBSET Signals]
  BY DEF Kill, TypeInv
<1>3. \A p \in T : life[p] # "unborn" => life'[p] = "gone" \/ sig'[p] # {}
  BY <1>1 DEF Alive
<1>4. Moves
  BY <1>1 DEF Moves
<1> QED
  BY <1>2, <1>3, <1>4

LEMMA Still ==
  ASSUME TypeInv, UNCHANGED <<life, sig>>
  PROVE  /\ life' \in [Pids -> Lives] /\ sig' \in [Pids -> SUBSET Signals] /\ Moves
         /\ NoneDying => NoneDying'
  BY DEF TypeInv, Moves, NoneDying

-----------------------------------------------------------------------------
(* The actions of the controller. *)

\* A function returns and has changed nothing that matters here.
LEMMA OnlyReturn ==
  ASSUME IInv, stack # <<>>, Top.at # "recv", Return,
         UNCHANGED <<procs, mq, group, tag, reload, bounds>>, hup' => hup
  PROVE  IInv'
<1>1. <<>> \in Seq(Frames) /\ stack' = <<>> \o Tail(stack) /\ DOMAIN <<>> = {}
      /\ Orderly(<<>>, listed')
  BY NoFrame DEF IInv
<1>2. /\ life' \in [Pids -> Lives] /\ sig' \in [Pids -> SUBSET Signals] /\ Moves
      /\ NoneDying => NoneDying'
  BY Still DEF IInv, procs
<1>3. /\ listed' \subseteq Pids /\ stale' \subseteq Pids /\ tag' \subseteq Pids /\ count' \in Int
      /\ \A p \in listed' : life'[p] # "unborn"
      /\ ReloadInv' /\ (Matches => Matches') /\ UNCHANGED <<mq, bounds>>
  BY DEF IInv, TypeInv, Known, ReloadInv, Matches, procs, group
<1>4. \A i \in DOMAIN <<>> : Rests(<<>>[i], life', sig')
  BY <1>1
<1> QED
  BY <1>1, <1>2, <1>3, <1>4, ControlStep

\* A function goes on to others and has changed nothing that matters here.
LEMMA OnlyContinue ==
  ASSUME IInv, stack # <<>>, Top.at # "recv",
         NEW fs \in Seq(Frames), Continue(fs),
         \A i \in DOMAIN fs : Rests(fs[i], life', sig'),
         bounds["segvs"] = 0 => Orderly(fs, listed),
         Moves, life' \in [Pids -> Lives], sig' \in [Pids -> SUBSET Signals],
         NoneDying => NoneDying',
         UNCHANGED <<mq, group, tag, reload, hup, bounds>>
  PROVE  IInv'
<1>1. stack' = fs \o Tail(stack) /\ listed' = listed
  BY DEF Continue, group
<1>2. /\ listed' \subseteq Pids /\ stale' \subseteq Pids /\ tag' \subseteq Pids /\ count' \in Int
      /\ \A p \in listed' : life'[p] # "unborn"
      /\ ReloadInv' /\ (Matches => Matches') /\ UNCHANGED <<mq, bounds>>
  BY DEF IInv, TypeInv, Known, ReloadInv, Matches, group, Moves
<1> QED
  BY <1>1, <1>2, ControlStep

LEMMA ProcessExceptionInv == ASSUME IInv, ProcessException PROVE IInv'
<1>1. stack # <<>> /\ Top.at = "segv_wait"
      /\ UNCHANGED <<procs, mq, group, tag, reload, hup, bounds>>
  BY DEF ProcessException, At, Top, hot
<1>2. CASE Top.p \in listed
  <2> DEFINE f == Frame("kill", Top.p, 0, {})
  <2>1. f \in Frames /\ f.at = "kill" /\ f.p = Top.p /\ Top.p \in Pids
    BY <1>2, FrameType DEF IInv, TypeInv, Steps
  <2>2. Continue(<<f>>)
    BY <1>2 DEF ProcessException
  <2> HIDE DEF f
  <2>3. <<f>> \in Seq(Frames) /\ DOMAIN <<f>> = {1} /\ <<f>>[1] = f
    BY <2>1, OneFrame
  <2>4. Orderly(<<f>>, listed)
    BY <1>2, <2>1, OneIsOrderly
  <2>5. Rests(f, life', sig')
    BY <2>1 DEF Rests
  <2>6. /\ life' \in [Pids -> Lives] /\ sig' \in [Pids -> SUBSET Signals] /\ Moves
        /\ NoneDying => NoneDying'
    BY <1>1, Still DEF IInv, procs
  <2> QED
    BY <1>1, <2>2, <2>3, <2>4, <2>5, <2>6, OnlyContinue
<1>3. CASE Top.p \notin listed
  BY <1>1, <1>3, OnlyReturn DEF ProcessException
<1> QED
  BY <1>2, <1>3

LEMMA KillDeadInv == ASSUME IInv, KillDead PROVE IInv'
<1>1. stack # <<>> /\ Top.at = "kill" /\ Kill({Top.p}, "quit")
      /\ UNCHANGED <<life, mq, group, tag, reload, hup, bounds>>
  BY DEF KillDead, At, Top, hot
<1>2. Top.p \in Pids /\ (bounds["segvs"] = 0 => Top.p \in listed)
  BY <1>1, TopType DEF IInv, StackInv, Rests, Calm, Orderly, Busy
<1> DEFINE f == Frame("verify", Top.p, 0, {})
<1>3. f \in Frames /\ f.at = "verify" /\ f.p = Top.p
  BY <1>2, FrameType DEF Steps
<1>4. Continue(<<f>>)
  BY DEF KillDead
<1> HIDE DEF f
<1>5. <<f>> \in Seq(Frames) /\ DOMAIN <<f>> = {1} /\ <<f>>[1] = f
  BY <1>3, OneFrame
<1>6. bounds["segvs"] = 0 => Orderly(<<f>>, listed)
  BY <1>2, <1>3, OneIsOrderly
<1>7. Rests(f, life', sig')
  BY <1>2, <1>3 DEF Rests
<1>8. /\ life' \in [Pids -> Lives] /\ sig' \in [Pids -> SUBSET Signals] /\ Moves
      /\ NoneDying => NoneDying'
  <2>1. {Top.p} \in SUBSET Pids /\ "quit" \in Signals
    BY <1>2 DEF Signals
  <2>2. sig' \in [Pids -> SUBSET Signals] /\ Moves
    BY <1>1, <2>1, Signalled DEF IInv
  <2> QED
    BY <1>1, <2>2 DEF IInv, TypeInv, NoneDying
<1> QED
  BY <1>1, <1>4, <1>5, <1>6, <1>7, <1>8, OnlyContinue

LEMMA VerifyDeadInv == ASSUME IInv, VerifyDead PROVE IInv'
<1>1. stack # <<>> /\ Top.at = "verify"
      /\ UNCHANGED <<procs, mq, group, tag, reload, hup, bounds>>
  BY DEF VerifyDead, At, Top, hot
<1>2. Top.p \in Pids /\ (bounds["segvs"] = 0 => Top.p \in listed)
  BY <1>1, TopType DEF IInv, StackInv, Rests, Calm, Orderly, Busy
<1>3. CASE IsGone(Top.p)
  <2> DEFINE f == RecvOf(Top.p)
             g == Frame("replace", Top.p, 0, {})
  <2>1. /\ f \in Frames /\ f.at = "recv"
        /\ g \in Frames /\ g.at = "replace" /\ g.p = Top.p
    BY <1>2, FrameType DEF Steps, RecvOf
  <2>2. Continue(<<f, g>>)
    BY <1>3 DEF VerifyDead
  <2>3. life[Top.p] = "gone"
    BY <1>3 DEF IsGone
  <2> HIDE DEF f, g
  <2>4. /\ <<f, g>> \in Seq(Frames) /\ DOMAIN <<f, g>> = {1, 2}
        /\ <<f, g>>[1] = f /\ <<f, g>>[2] = g
    BY <2>1, TwoFrames
  <2>5. bounds["segvs"] = 0 => Orderly(<<f, g>>, listed)
    <3>1. \A k \in 1..2 - 1 : k = 1
      OBVIOUS
    <3> QED
      BY <1>2, <2>1, <2>4, <3>1 DEF Orderly, Busy
  <2>6. /\ life' \in [Pids -> Lives] /\ sig' \in [Pids -> SUBSET Signals] /\ Moves
        /\ NoneDying => NoneDying'
    BY <1>1, Still DEF IInv, procs
  <2>7. Rests(f, life', sig') /\ Rests(g, life', sig')
    BY <1>1, <1>2, <2>1, <2>3 DEF Rests, procs
  <2>8. \A i \in DOMAIN <<f, g>> : Rests(<<f, g>>[i], life', sig')
    BY <2>4, <2>7
  <2> QED
    BY <1>1, <2>2, <2>4, <2>5, <2>6, <2>8, OnlyContinue
<1>4. CASE ~IsGone(Top.p)
  BY <1>1, <1>4, OnlyReturn DEF VerifyDead
<1> QED
  BY <1>3, <1>4

LEMMA Deleted ==
  ASSUME TypeInv, NEW p \in Pids, Del(p)
  PROVE  /\ listed' \subseteq Pids /\ listed' \subseteq listed /\ stale' \subseteq Pids
         /\ count' \in Int
         /\ Matches /\ p \in listed => Matches'
<1>1. ASSUME Matches, p \in listed PROVE Matches'
  BY <1>1, FS_RemoveElement DEF Matches, Del
<1> QED
  BY <1>1 DEF Del, TypeInv

LEMMA ReplaceInv == ASSUME IInv, Replace PROVE IInv'
<1>1. stack # <<>> /\ Top.at = "replace"
      /\ UNCHANGED <<sig, mq, tag, reload, hup, bounds>>
  BY DEF Replace, At, Top, hot
<1>2. Top.p \in Pids /\ (bounds["segvs"] = 0 => Top.p \in listed)
  BY <1>1, TopType DEF IInv, StackInv, Rests, Calm, Orderly, Busy
<1>3. ASSUME Fork(1), Return, listed' \subseteq listed, stale' \subseteq Pids, count' \in Int,
             bounds["segvs"] = 0 /\ Matches => Matches'
      PROVE  IInv'
  <2>1. <<>> \in Seq(Frames) /\ stack' = <<>> \o Tail(stack) /\ DOMAIN <<>> = {}
        /\ Orderly(<<>>, listed')
    BY <1>1, <1>3, NoFrame DEF IInv
  <2>2. life' \in [Pids -> Lives] /\ Moves /\ (NoneDying => NoneDying')
    BY <1>1, <1>3, Forked DEF IInv
  <2>3. /\ listed' \subseteq Pids /\ tag' \subseteq Pids
        /\ sig' \in [Pids -> SUBSET Signals]
        /\ \A p \in listed' : life'[p] # "unborn"
    BY <1>1, <1>3, <2>2 DEF IInv, TypeInv, Known, Moves
  <2>4. ReloadInv'
    BY <1>1 DEF IInv, ReloadInv
  <2>5. \A i \in DOMAIN <<>> : Rests(<<>>[i], life', sig')
    BY <2>1
  <2> QED
    BY <1>1, <1>3, <2>1, <2>2, <2>3, <2>4, <2>5, ControlStep
<1>4. CASE Top.p \in listed /\ Del(Top.p) /\ Fork(1) /\ Return
  BY <1>2, <1>3, <1>4, Deleted DEF IInv
<1>5. CASE Top.p \notin listed /\ Fork(1) /\ Return
           /\ count' \in {count, count - 1} /\ UNCHANGED <<listed, stale>>
  BY <1>2, <1>3, <1>5 DEF IInv, TypeInv
<1>6. CASE Top.p \notin listed /\ stack' = <<Frame("crashed", 0, 0, {})>>
           /\ UNCHANGED <<life, count, listed, stale>>
  <2> DEFINE f == Frame("crashed", 0, 0, {})
  <2>1. f \in Frames /\ f.at = "crashed"
    BY FrameType DEF Steps
  <2>2. stack' = <<f>>
    BY <1>6
  <2> HIDE DEF f
  <2>3. stack' \in Seq(Frames) /\ DOMAIN stack' = {1} /\ stack'[1] = f
    BY <2>1, <2>2, OneFrame
  <2>4. StackInv'
    BY <2>1, <2>3 DEF StackInv, Rests
  <2>5. TypeInv' /\ Known' /\ ReloadInv'
    BY <1>1, <1>6, <2>3 DEF IInv, TypeInv, Known, ReloadInv
  <2>6. Calm'
    BY <1>1, <1>2, <1>6 DEF IInv, Calm
  <2> QED
    BY <2>4, <2>5, <2>6 DEF IInv
<1> QED
  BY <1>4, <1>5, <1>6 DEF Replace

LEMMA CheckGroupInv == ASSUME IInv, CheckGroup PROVE IInv'
<1>1. stack # <<>> /\ Top.at = "check"
      /\ UNCHANGED <<sig, mq, group, tag, reload, hup, bounds>>
  BY DEF CheckGroup, At, Top, hot
<1>2. /\ life' \in [Pids -> Lives] /\ sig' \in [Pids -> SUBSET Signals] /\ Moves
      /\ NoneDying => NoneDying'
  <2>1. CASE Missing
    <3>1. Fork(ProcNum - count)
      BY <2>1 DEF CheckGroup
    <3>2. life' \in [Pids -> Lives] /\ Moves /\ (NoneDying => NoneDying')
      BY <1>1, <3>1, Forked DEF IInv
    <3> QED
      BY <1>1, <3>2 DEF IInv, TypeInv
  <2>2. CASE ~Missing
    BY <1>1, <2>2, Still DEF IInv, CheckGroup
  <2> QED
    BY <2>1, <2>2
<1> DEFINE f == Frame("surplus", 0, count - ProcNum, {})
           g == Frame("procs", 0, 0, listed)
<1>3. /\ f \in Frames /\ f.at = "surplus"
      /\ g \in Frames /\ g.at = "procs"
  BY FrameType, PidsAssumption DEF IInv, TypeInv, Steps
<1>4. Continue(<<f, g>>) \/ Continue(<<g>>)
  <2>1. Continue((IF Surplus THEN <<f>> ELSE <<>>) \o <<g>>)
    BY DEF CheckGroup
  <2>2. <<f>> \o <<g>> = <<f, g>> /\ <<>> \o <<g>> = <<g>>
    BY <1>3, Joined
  <2> QED
    BY <2>1, <2>2
<1> HIDE DEF f, g
<1>5. /\ <<f, g>> \in Seq(Frames) /\ DOMAIN <<f, g>> = {1, 2}
      /\ <<f, g>>[1] = f /\ <<f, g>>[2] = g
      /\ <<g>> \in Seq(Frames) /\ DOMAIN <<g>> = {1} /\ <<g>>[1] = g
  BY <1>3, OneFrame, TwoFrames
<1>6. Rests(f, life', sig') /\ Rests(g, life', sig')
  BY <1>3 DEF Rests
<1>7. Orderly(<<f, g>>, listed) /\ Orderly(<<g>>, listed)
  BY <1>3, <1>5 DEF Orderly, Busy
<1>8. /\ \A i \in DOMAIN <<f, g>> : Rests(<<f, g>>[i], life', sig')
      /\ \A i \in DOMAIN <<g>> : Rests(<<g>>[i], life', sig')
  BY <1>5, <1>6
<1>9. CASE Continue(<<f, g>>)
  BY <1>1, <1>2, <1>5, <1>7, <1>8, <1>9, OnlyContinue
<1>10. CASE Continue(<<g>>)
  BY <1>1, <1>2, <1>5, <1>7, <1>8, <1>10, OnlyContinue
<1> QED
  BY <1>4, <1>9, <1>10

LEMMA TellSurplusInv == ASSUME IInv, TellSurplus PROVE IInv'
<1>1. stack # <<>> /\ Top.at = "surplus" /\ Top.n \in Int
      /\ UNCHANGED <<life, mq, group, tag, reload, hup, bounds>>
  BY TopType DEF IInv, TellSurplus, At, Top, hot
<1> DEFINE f(p) == RecvOf(p)
           g(p) == Frame("drop", p, 0, {})
           h == Frame("surplus", 0, Top.n - 1, {})
<1>2. PICK p \in listed : Tell(p) /\ Continue(<<f(p), g(p), h>>)
  BY DEF TellSurplus
<1>3. p \in Pids /\ life[p] # "unborn"
  BY DEF IInv, TypeInv, Known
<1>4. /\ f(p) \in Frames /\ f(p).at = "recv"
      /\ g(p) \in Frames /\ g(p).at = "drop" /\ g(p).p = p
      /\ h \in Frames /\ h.at = "surplus"
  <2>1. Top.n - 1 \in Int
    BY <1>1
  <2> QED
    BY <1>3, <2>1, FrameType DEF Steps, RecvOf
<1>5. /\ life' \in [Pids -> Lives] /\ sig' \in [Pids -> SUBSET Signals] /\ Moves
      /\ NoneDying => NoneDying'
      /\ life'[p] = "gone" \/ sig'[p] # {}
  <2>1. {p} \in SUBSET Pids /\ "quit" \in Signals /\ Kill({p}, "quit")
    BY <1>2, <1>3 DEF Signals, Tell
  <2>2. /\ sig' \in [Pids -> SUBSET Signals] /\ Moves
        /\ life'[p] = "gone" \/ sig'[p] # {}
    BY <1>1, <1>3, <2>1, Signalled DEF IInv
  <2> QED
    BY <1>1, <2>2 DEF IInv, TypeInv, NoneDying
<1> DEFINE fs == <<f(p), g(p), h>>
<1>6. Continue(fs)
  BY <1>2
<1> HIDE DEF f, g, h
<1>7. /\ fs \in Seq(Frames) /\ DOMAIN fs = {1, 2, 3}
      /\ fs[1] = f(p) /\ fs[2] = g(p) /\ fs[3] = h
  BY <1>4, ThreeFrames
<1> HIDE DEF fs
<1>8. Rests(f(p), life', sig') /\ Rests(g(p), life', sig') /\ Rests(h, life', sig')
  BY <1>3, <1>4, <1>5 DEF Rests
<1>9. \A i \in DOMAIN fs : Rests(fs[i], life', sig')
  BY <1>7, <1>8
<1>10. Orderly(fs, listed)
  <2>1. \A k \in 1..2 - 1 : k = 1
    OBVIOUS
  <2> QED
    BY <1>4, <1>7, <2>1 DEF Orderly, Busy
<1> QED
  BY <1>1, <1>5, <1>6, <1>7, <1>9, <1>10, OnlyContinue

LEMMA DropInv == ASSUME IInv, Drop PROVE IInv'
<1>1. stack # <<>> /\ Top.at = "drop" /\ Del(Top.p) /\ Return
      /\ UNCHANGED <<life, sig, mq, tag, reload, hup, bounds>>
  BY DEF Drop, At, Top, hot, procs
<1>2. Top.p \in Pids /\ (bounds["segvs"] = 0 => Top.p \in listed)
  BY <1>1, TopType DEF IInv, StackInv, Rests, Calm, Orderly, Busy
<1>3. <<>> \in Seq(Frames) /\ stack' = <<>> \o Tail(stack) /\ DOMAIN <<>> = {}
      /\ Orderly(<<>>, listed')
  BY <1>1, NoFrame DEF IInv
<1>4. /\ life' \in [Pids -> Lives] /\ sig' \in [Pids -> SUBSET Signals] /\ Moves
      /\ NoneDying => NoneDying'
  BY <1>1, Still DEF IInv
<1>5. /\ listed' \subseteq Pids /\ listed' \subseteq listed /\ stale' \subseteq Pids
      /\ count' \in Int
      /\ bounds["segvs"] = 0 /\ Matches => Matches'
  BY <1>1, <1>2, Deleted DEF IInv
<1>6. /\ tag' \subseteq Pids /\ ReloadInv'
      /\ \A p \in listed' : life'[p] # "unborn"
  BY <1>1, <1>5 DEF IInv, TypeInv, Known, ReloadInv
<1>7. \A i \in DOMAIN <<>> : Rests(<<>>[i], life', sig')
  BY <1>3
<1> QED
  BY <1>1, <1>3, <1>4, <1>5, <1>6, <1>7, ControlStep

LEMMA CheckProcInv == ASSUME IInv, CheckProc PROVE IInv'
<1>1. stack # <<>> /\ Top.at = "procs" /\ Top.todo \subseteq Pids
      /\ UNCHANGED <<procs, mq, group, tag, reload, hup, bounds>>
  BY TopType DEF IInv, CheckProc, At, Top, hot
<1> DEFINE f(p) == Frame("kill", p, 0, {})
           g(p) == Frame("procs", 0, 0, Top.todo \ {p})
<1>2. PICK p \in Silent : Continue(<<f(p), g(p)>>)
  BY DEF CheckProc
<1>3. p \in Pids /\ p \in listed
  BY DEF Silent, IInv, TypeInv
<1>4. /\ f(p) \in Frames /\ f(p).at = "kill" /\ f(p).p = p
      /\ g(p) \in Frames /\ g(p).at = "procs"
  <2>1. Top.todo \ {p} \in SUBSET Pids
    BY <1>1
  <2> QED
    BY <1>3, <2>1, FrameType DEF Steps
<1>5. /\ life' \in [Pids -> Lives] /\ sig' \in [Pids -> SUBSET Signals] /\ Moves
      /\ NoneDying => NoneDying'
  BY <1>1, Still DEF IInv, procs
<1> DEFINE fs == <<f(p), g(p)>>
<1>6. Continue(fs)
  BY <1>2
<1> HIDE DEF f, g
<1>7. /\ fs \in Seq(Frames) /\ DOMAIN fs = {1, 2} /\ fs[1] = f(p) /\ fs[2] = g(p)
  BY <1>4, TwoFrames
<1> HIDE DEF fs
<1>8. Rests(f(p), life', sig') /\ Rests(g(p), life', sig')
  BY <1>3, <1>4 DEF Rests
<1>9. \A i \in DOMAIN fs : Rests(fs[i], life', sig')
  BY <1>7, <1>8
<1>10. Orderly(fs, listed)
  <2>1. \A k \in 1..1 - 1 : FALSE
    OBVIOUS
  <2> QED
    BY <1>3, <1>4, <1>7, <2>1 DEF Orderly, Busy
<1> QED
  BY <1>1, <1>5, <1>6, <1>7, <1>9, <1>10, OnlyContinue

\* The functions that only return.
LEMMA ReturnsInv ==
  ASSUME IInv, CheckUnused \/ SurplusTold \/ ProcsChecked
  PROVE  IInv'
<1>1. /\ stack # <<>> /\ Top.at \in {"check", "surplus", "procs"} /\ Return
      /\ UNCHANGED <<procs, mq, group, tag, reload, hup, bounds>>
  BY DEF CheckUnused, SurplusTold, ProcsChecked, At, Top, hot
<1> QED
  BY <1>1, OnlyReturn

LEMMA CheckSignalsInv == ASSUME IInv, CheckSignals PROVE IInv'
<1>1. stack # <<>> /\ Top.at = "signals" /\ hup' = FALSE
      /\ UNCHANGED <<life, sig, mq, bounds>>
  BY DEF CheckSignals, At, Top, procs
<1>2. /\ life' \in [Pids -> Lives] /\ sig' \in [Pids -> SUBSET Signals] /\ Moves
      /\ NoneDying => NoneDying'
  BY <1>1, Still DEF IInv
<1>3. CASE hup
  <2>1. /\ tag' = listed /\ reload' = PROC_RELOAD_START
        /\ listed' = {} /\ stale' = {} /\ count' = 0
        /\ Continue(<<RecvAll, DoCheck>>)
    BY <1>3 DEF CheckSignals, TagsOf
  <2> DEFINE f == RecvAll
             g == DoCheck
             fs == <<f, g>>
  <2>2. /\ f \in Frames /\ f.at = "recv" /\ g \in Frames /\ g.at = "check"
    BY FrameType DEF Steps, RecvAll, DoCheck
  <2>3. stack' = fs \o Tail(stack)
    BY <2>1 DEF Continue
  <2> HIDE DEF f, g
  <2>4. fs \in Seq(Frames) /\ DOMAIN fs = {1, 2} /\ fs[1] = f /\ fs[2] = g
    BY <2>2, TwoFrames
  <2> HIDE DEF fs
  <2>5. \A i \in DOMAIN fs : Rests(fs[i], life', sig')
    BY <2>2, <2>4 DEF Rests
  <2>6. Orderly(fs, listed')
    BY <2>2, <2>4 DEF Orderly, Busy
  <2>7. Matches'
    BY <2>1, FS_EmptySet DEF Matches
  <2>8. /\ listed' \subseteq Pids /\ stale' \subseteq Pids /\ tag' \subseteq Pids
        /\ count' \in Int
        /\ \A p \in listed' : life'[p] # "unborn"
        /\ ReloadInv'
    BY <1>1, <2>1 DEF IInv, TypeInv, ReloadInv, PROC_RELOAD_START, PROC_RELOAD_NORMAL
  <2> QED
    BY <1>1, <1>2, <2>3, <2>4, <2>5, <2>6, <2>7, <2>8, ControlStep
<1>4. CASE ~hup
  BY <1>1, <1>4, OnlyReturn DEF CheckSignals, hot, procs
<1> QED
  BY <1>3, <1>4

LEMMA ReloadStepInv ==
  ASSUME IInv, ReloadStart \/ ReloadWaitNew \/ ReloadKillOld \/ ReloadClear
  PROVE  IInv'
<1>1. /\ stack # <<>> /\ Top.at = "check" /\ Return
      /\ UNCHANGED <<mq, group, hup, bounds>>
  BY DEF ReloadStart, ReloadWaitNew, ReloadKillOld, ReloadClear, CheckReload, At, Top
<1>2. <<>> \in Seq(Frames) /\ stack' = <<>> \o Tail(stack) /\ DOMAIN <<>> = {}
      /\ Orderly(<<>>, listed')
  BY <1>1, NoFrame DEF IInv
<1>3. \A i \in DOMAIN <<>> : Rests(<<>>[i], life', sig')
  BY <1>2
<1>4. /\ listed' \subseteq Pids /\ stale' \subseteq Pids /\ count' \in Int
      /\ Matches => Matches'
  BY <1>1 DEF IInv, TypeInv, Matches, group
<1>5. ASSUME life' \in [Pids -> Lives], sig' \in [Pids -> SUBSET Signals], Moves,
             NoneDying => NoneDying', tag' \subseteq Pids, ReloadInv'
      PROVE  IInv'
  <2>1. \A p \in listed' : life'[p] # "unborn"
    BY <1>1, <1>5 DEF IInv, TypeInv, Known, Moves, group
  <2> QED
    BY <1>1, <1>2, <1>3, <1>4, <1>5, <2>1, ControlStep
<1>6. CASE ReloadStart
  <2>1. /\ Fork(ProcNum) /\ UNCHANGED <<sig, tag>>
        /\ reload = PROC_RELOAD_START /\ reload' = PROC_RELOAD_WAIT_NEW
    BY <1>6 DEF ReloadStart, CheckReload
  <2>2. life' \in [Pids -> Lives] /\ Moves /\ (NoneDying => NoneDying')
    BY <2>1, Forked DEF IInv
  <2>3. ReloadInv'
    BY <1>1, <2>1 DEF IInv, ReloadInv, PROC_RELOAD_START, PROC_RELOAD_NORMAL,
                      PROC_RELOAD_WAIT_NEW
  <2> QED
    BY <1>5, <2>1, <2>2, <2>3 DEF IInv, TypeInv
<1>7. CASE ReloadWaitNew \/ ReloadKillOld
  <2>1. /\ UNCHANGED <<life, tag>> /\ (Kill(tag, "reload") \/ UNCHANGED sig)
        /\ reload \in {PROC_RELOAD_WAIT_NEW, PROC_RELOAD_KILLOLD}
        /\ reload' \in {reload, PROC_RELOAD_KILLOLD, PROC_RELOAD_CLEAR}
    BY <1>7 DEF ReloadWaitNew, ReloadKillOld, CheckReload
  <2>2. sig' \in [Pids -> SUBSET Signals] /\ Moves
    <3>1. CASE Kill(tag, "reload")
      <4>1. tag \in SUBSET Pids /\ "reload" \in Signals
        BY DEF IInv, TypeInv, Signals
      <4> QED
        BY <2>1, <3>1, <4>1, Signalled DEF IInv
    <3>2. CASE UNCHANGED sig
      BY <2>1, <3>2, Still DEF IInv
    <3> QED
      BY <2>1, <3>1, <3>2
  <2>3. ReloadInv'
    BY <1>1, <2>1 DEF IInv, ReloadInv, PROC_RELOAD_NORMAL, PROC_RELOAD_WAIT_NEW,
                      PROC_RELOAD_KILLOLD, PROC_RELOAD_CLEAR
  <2>4. life' \in [Pids -> Lives] /\ tag' \subseteq Pids /\ (NoneDying => NoneDying')
    BY <2>1 DEF IInv, TypeInv, NoneDying
  <2> QED
    BY <1>5, <2>2, <2>3, <2>4
<1>8. CASE ReloadClear
  <2>1. UNCHANGED sig /\ reload = PROC_RELOAD_CLEAR
    BY <1>8 DEF ReloadClear, CheckReload
  <2>2. CASE OldGone
    <3>1. UNCHANGED life /\ tag' = {} /\ reload' = PROC_RELOAD_NORMAL
      BY <1>8, <2>2 DEF ReloadClear
    <3>2. /\ life' \in [Pids -> Lives] /\ sig' \in [Pids -> SUBSET Signals] /\ Moves
          /\ NoneDying => NoneDying'
      BY <2>1, <3>1, Still DEF IInv
    <3>3. ReloadInv' /\ tag' \subseteq Pids
      BY <3>1 DEF ReloadInv
    <3> QED
      BY <1>5, <3>2, <3>3
  <2>3. CASE ~OldGone
    <3>1. /\ life' = [p \in Pids |-> IF aged /\ p \in tag THEN "gone" ELSE life[p]]
          /\ UNCHANGED <<tag, reload>>
      BY <1>8, <2>3 DEF ReloadClear
    <3>2. /\ life' \in [Pids -> Lives]
          /\ \A p \in Pids : life'[p] = life[p] \/ life'[p] = "gone"
      BY <3>1 DEF IInv, TypeInv, Lives
    <3>3. Moves /\ (NoneDying => NoneDying')
      BY <2>1, <3>2 DEF Moves, NoneDying
    <3>4. ReloadInv' /\ tag' \subseteq Pids /\ sig' \in [Pids -> SUBSET Signals]
      BY <1>1, <2>1, <3>1 DEF IInv, TypeInv, ReloadInv
    <3> QED
      BY <1>5, <3>2, <3>3, <3>4
  <2> QED
    BY <2>2, <2>3
<1> QED
  BY <1>6, <1>7, <1>8

\* Nothing runs: the cycle begins.
LEMMA RunInv == ASSUME IInv, Run PROVE IInv'
<1> DEFINE f == RecvAll
           g == DoCheck
           h == Frame("signals", 0, 0, {})
           fs == <<f, g, h>>
<1>1. stack' = fs /\ UNCHANGED <<procs, mq, group, tag, reload, hup, bounds>>
  BY DEF Run, hot
<1>2. /\ f \in Frames /\ f.at = "recv" /\ g \in Frames /\ g.at = "check"
      /\ h \in Frames /\ h.at = "signals"
  BY FrameType DEF Steps, RecvAll, DoCheck
<1> HIDE DEF f, g, h
<1>3. fs \in Seq(Frames) /\ DOMAIN fs = {1, 2, 3} /\ fs[1] = f /\ fs[2] = g /\ fs[3] = h
  BY <1>2, ThreeFrames
<1> HIDE DEF fs
<1>4. StackInv' /\ Orderly(stack', listed')
  BY <1>1, <1>2, <1>3 DEF StackInv, Rests, Orderly, Busy
<1>5. TypeInv' /\ Known' /\ ReloadInv'
  BY <1>1, <1>3 DEF IInv, TypeInv, Known, ReloadInv, procs, group
<1>6. Calm'
  BY <1>1, <1>4 DEF IInv, Calm, NoneDying, NoneReported, Matches, procs, group
<1> QED
  BY <1>4, <1>5, <1>6 DEF IInv

\* do_recv has read all messages there are.
LEMMA RecvDoneInv == ASSUME IInv, RecvDone PROVE IInv'
<1>1. /\ stack # <<>> /\ Top.at = "recv" /\ Return
      /\ UNCHANGED <<procs, mq, group, tag, reload, hup, bounds>>
  BY DEF RecvDone, At, Top, hot
<1>2. /\ <<>> \in Seq(Frames) /\ stack' = <<>> \o Tail(stack) /\ DOMAIN <<>> = {}
  BY <1>1, NoFrame DEF IInv
<1>3. \A i \in DOMAIN <<>> : Rests(<<>>[i], life', sig')
  BY <1>2
<1>4. Moves
  BY <1>1, Still DEF IInv, procs
<1>5. stack' \in Seq(Frames) /\ StackInv'
  BY <1>1, <1>2, <1>3, <1>4, StackKept DEF IInv
<1>6. TypeInv' /\ Known' /\ ReloadInv'
  BY <1>1, <1>5 DEF IInv, TypeInv, Known, ReloadInv, procs, group
<1>7. ASSUME Orderly(stack, listed) PROVE Orderly(stack', listed)
  <2>1. stack \in Seq(Frames) /\ Tail(stack) = stack'
    BY <1>1 DEF IInv, TypeInv, Return
  <2>2. \A i \in DOMAIN stack' : i \in Nat /\ i + 1 \in DOMAIN stack /\ stack'[i] = stack[i + 1]
    <3>1. /\ Len(stack') = Len(stack) - 1 /\ DOMAIN stack' = 1..Len(stack')
          /\ DOMAIN stack = 1..Len(stack) /\ Len(stack) \in Nat
          /\ \A i \in 1..Len(stack') : stack'[i] = stack[i + 1]
      BY <1>1, <1>5, <2>1, HeadTailProperties, LenProperties
    <3> QED
      BY <3>1
  <2>3. ASSUME NEW i \in DOMAIN stack', Busy(stack'[i]), NEW k \in 1..i - 1
        PROVE  stack'[k].at = "recv"
    <3>1. i + 1 \in DOMAIN stack /\ Busy(stack[i + 1]) /\ k + 1 \in 1..(i + 1) - 1
      BY <2>2, <2>3
    <3>2. stack[k + 1].at = "recv"
      BY <1>7, <3>1 DEF Orderly
    <3>3. k \in DOMAIN stack'
      <4>1. DOMAIN stack' = 1..Len(stack') /\ Len(stack') \in Nat
        BY <1>5, LenProperties
      <4> QED
        BY <4>1
    <3> QED
      BY <2>2, <3>2, <3>3
  <2>4. \A i \in DOMAIN stack' :
          /\ stack'[i].at \notin {"segv_wait", "crashed"}
          /\ Busy(stack'[i]) => stack'[i].p \in listed
    BY <1>7, <2>2 DEF Orderly
  <2> QED
    BY <2>3, <2>4 DEF Orderly
<1>8. Calm'
  BY <1>1, <1>7 DEF IInv, Calm, NoneDying, NoneReported, Matches, procs, group
<1> QED
  BY <1>5, <1>6, <1>8 DEF IInv

\* do_recv reads a message: a report may put its process on the list, the report of an
\* exception has it dealt with.
LEMMA RecvInv == ASSUME IInv, Recv PROVE IInv'
<1> DEFINE msg == mq[NextMsg]
<1>1. /\ stack # <<>> /\ Top.at = "recv" /\ NextMsg > 0 /\ mq' = Without(NextMsg)
      /\ UNCHANGED <<life, sig, tag, reload, hup, bounds>>
  BY DEF Recv, At, Top, procs, hot
<1>2. /\ msg \in Messages /\ NextMsg \in DOMAIN mq /\ mq' \in Seq(Messages)
      /\ \A i \in DOMAIN mq' : life'[mq'[i].pid] # "unborn"
      /\ NoneReported => NoneReported'
  BY <1>1, Received DEF IInv
<1>3. msg.pid \in Pids /\ life[msg.pid] # "unborn"
  BY <1>2 DEF IInv, Known, Messages
<1>4. NoneReported => msg.kind # "exception"
  BY <1>2 DEF NoneReported
<1> HIDE DEF msg
<1>5. ReloadInv' /\ (NoneDying => NoneDying')
  BY <1>1 DEF IInv, ReloadInv, NoneDying
<1>6. ASSUME UNCHANGED stack, listed' \subseteq Pids, stale' \subseteq Pids, count' \in Int,
             listed \subseteq listed', listed' \subseteq listed \cup {msg.pid},
             Matches => Matches'
      PROVE  IInv'
  <2>1. TypeInv' /\ Known'
    BY <1>1, <1>2, <1>3, <1>6 DEF IInv, TypeInv, Known
  <2>2. StackInv'
    BY <1>1, <1>6 DEF IInv, StackInv
  <2>3. Orderly(stack, listed) => Orderly(stack', listed')
    BY <1>6 DEF Orderly
  <2>4. Calm'
    BY <1>1, <1>2, <1>5, <1>6, <2>3 DEF IInv, Calm
  <2> QED
    BY <1>5, <2>1, <2>2, <2>4 DEF IInv
<1>7. CASE UNCHANGED <<group, stack>>
  BY <1>6, <1>7 DEF IInv, TypeInv, Matches, group
<1>8. CASE Note(msg) /\ UNCHANGED stack
  <2>1. CASE msg.pid \in listed /\ stale' = stale \ {msg.pid} /\ UNCHANGED <<listed, count>>
    BY <1>6, <1>8, <2>1 DEF IInv, TypeInv, Matches
  <2>2. CASE /\ msg.pid \notin listed
             /\ listed' = listed \cup {msg.pid} /\ count' = count + 1 /\ UNCHANGED stale
    <3>1. Matches => Matches'
      BY <2>2, FS_AddElement DEF Matches
    <3> QED
      BY <1>3, <1>6, <1>8, <2>2, <3>1 DEF IInv, TypeInv
  <2>3. CASE UNCHANGED group
    BY <1>7, <1>8, <2>3
  <2> QED
    BY <1>8, <2>1, <2>2, <2>3 DEF Note
<1>9. CASE /\ msg.kind = "exception" /\ UNCHANGED group
           /\ Continue(<<Frame("segv_wait", msg.pid, 0, {}), Top>>)
  <2> DEFINE f == Frame("segv_wait", msg.pid, 0, {})
             g == Top
             fs == <<f, g>>
  <2>1. f \in Frames /\ f.at = "segv_wait" /\ f.p = msg.pid /\ g \in Frames
    BY <1>1, <1>3, FrameType, TopType DEF IInv, Steps
  <2>2. stack' = fs \o Tail(stack)
    BY <1>9 DEF Continue
  <2>3. Rests(g, life, sig)
    BY <1>1, TopType DEF IInv, StackInv
  <2> HIDE DEF f, g
  <2>4. fs \in Seq(Frames) /\ DOMAIN fs = {1, 2} /\ fs[1] = f /\ fs[2] = g
    BY <2>1, TwoFrames
  <2> HIDE DEF fs
  <2>5. Moves
    BY <1>1, Still DEF IInv
  <2>6. \A i \in DOMAIN fs : Rests(fs[i], life', sig')
    BY <1>1, <1>3, <2>1, <2>3, <2>4 DEF Rests
  <2>7. stack' \in Seq(Frames) /\ StackInv'
    BY <1>1, <2>2, <2>4, <2>5, <2>6, StackKept DEF IInv
  <2>8. TypeInv' /\ Known'
    BY <1>1, <1>2, <1>9, <2>7 DEF IInv, TypeInv, Known, group
  <2>9. Calm'
    BY <1>1, <1>4, <1>9 DEF IInv, Calm
  <2> QED
    BY <1>5, <2>7, <2>8, <2>9 DEF IInv
<1> QED
  BY <1>7, <1>8, <1>9 DEF Recv, msg

LEMMA ControllerInv == ASSUME IInv, Controller PROVE IInv'
  BY RunInv, CheckSignalsInv, RecvInv, RecvDoneInv, ProcessExceptionInv, KillDeadInv,
     VerifyDeadInv, ReplaceInv, CheckGroupInv, TellSurplusInv, DropInv, CheckProcInv,
     ReturnsInv, ReloadStepInv DEF Controller

-----------------------------------------------------------------------------
(* The processes, time and the user. *)

\* Steps that leave the controller alone.
LEMMA ProcessStep ==
  ASSUME IInv, UNCHANGED <<sig, controller>>,
         life' \in [Pids -> Lives], Moves, bounds' \in [Counters -> Nat],
         mq' \in Seq(Messages), \A i \in DOMAIN mq' : life'[mq'[i].pid] # "unborn",
         bounds'["segvs"] = 0 => bounds["segvs"] = 0,
         bounds'["segvs"] = 0 /\ NoneDying => NoneDying' /\ (NoneReported => NoneReported')
  PROVE  IInv'
<1>1. UNCHANGED <<listed, stale, count, tag, reload, hup, stack, sig>>
  BY DEF controller, group, hot
<1>2. TypeInv'
  BY <1>1 DEF IInv, TypeInv
<1>3. Known' /\ ReloadInv'
  BY <1>1 DEF IInv, TypeInv, Known, ReloadInv, Moves
<1>4. StackInv'
  <2>1. ASSUME NEW i \in DOMAIN stack PROVE Rests(stack[i], life', sig')
    <3>1. Rests(stack[i], life, sig)
      BY DEF IInv, StackInv
    <3> QED
      BY <3>1 DEF Rests, Moves
  <2> QED
    BY <1>1, <2>1 DEF StackInv
<1>5. Calm'
  BY <1>1 DEF IInv, Calm, Matches
<1> QED
  BY <1>2, <1>3, <1>4, <1>5 DEF IInv

LEMMA CountedType ==
  ASSUME TypeInv, NEW b \in Counters, NEW max, Counted(b, max)
  PROVE  /\ bounds' \in [Counters -> Nat]
         /\ b = "segvs" => bounds'["segvs"] # 0
         /\ b # "segvs" => bounds'["segvs"] = bounds["segvs"]
<1>1. bounds \in [Counters -> Nat] /\ bounds' = [bounds EXCEPT ![b] = @ + 1]
      /\ "segvs" \in Counters
  BY DEF TypeInv, Counted, Counters
<1> QED
  BY <1>1

\* A process' life goes on; no message is sent.
LEMMA LifeStep ==
  ASSUME IInv, NEW p \in Pids, NEW l \in Lives,
         life' = [life EXCEPT ![p] = l], l # "unborn", life[p] # "gone" \/ l = "gone",
         UNCHANGED <<sig, mq, controller>>, bounds' \in [Counters -> Nat],
         bounds'["segvs"] = 0 => bounds["segvs"] = 0,
         bounds'["segvs"] = 0 /\ NoneDying => l \notin {"dumping", "dying"}
  PROVE  IInv'
<1>1. life' \in [Pids -> Lives] /\ \A q \in Pids : life'[q] = IF q = p THEN l ELSE life[q]
  BY DEF IInv, TypeInv
<1>2. Moves
  BY <1>1 DEF Moves
<1>3. mq' \in Seq(Messages) /\ \A i \in DOMAIN mq : mq[i].pid \in Pids
  <2>1. mq \in Seq(Messages)
    BY DEF IInv, TypeInv
  <2>2. \A i \in DOMAIN mq : mq[i] \in Messages
    BY <2>1, LenProperties, ElementOfSeq
  <2> QED
    BY <2>1, <2>2 DEF Messages
<1>4. \A i \in DOMAIN mq' : life'[mq'[i].pid] # "unborn"
  BY <1>1, <1>3 DEF IInv, Known
<1>5. bounds'["segvs"] = 0 /\ NoneDying => NoneDying' /\ (NoneReported => NoneReported')
  BY <1>1 DEF NoneDying, NoneReported
<1> QED
  BY <1>1, <1>2, <1>3, <1>4, <1>5, ProcessStep

\* A process sends a message, and its life may go on.
LEMMA SendStep ==
  ASSUME IInv, NEW p \in Pids, NEW kind \in Kinds, Send(p, kind), life[p] # "unborn",
         NEW l \in Lives, life' = [life EXCEPT ![p] = l], l # "unborn",
         life[p] # "gone" \/ l = "gone",
         UNCHANGED <<sig, controller>>, bounds' \in [Counters -> Nat],
         bounds'["segvs"] = bounds["segvs"],
         NoneDying => l \notin {"dumping", "dying"} /\ kind # "exception"
  PROVE  IInv'
<1>1. life' \in [Pids -> Lives] /\ \A q \in Pids : life'[q] = IF q = p THEN l ELSE life[q]
  BY DEF IInv, TypeInv
<1>2. Moves
  BY <1>1 DEF Moves
<1>3. /\ mq' \in Seq(Messages)
      /\ \A i \in DOMAIN mq' : life'[mq'[i].pid] # "unborn"
      /\ NoneReported /\ kind # "exception" => NoneReported'
  BY <1>2, Sent DEF IInv
<1>4. NoneDying => NoneDying' /\ (NoneReported => NoneReported')
  BY <1>1, <1>3 DEF NoneDying
<1> QED
  BY <1>1, <1>2, <1>3, <1>4, ProcessStep

LEMMA WorkerInv ==
  ASSUME IInv, NEW p \in Pids,
         Starts(p) \/ Loop(p) \/ Recover(p) \/ Dies(p) \/ Fails(p)
  PROVE  IInv'
<1>1. /\ bounds \in [Counters -> Nat] /\ "segvs" \in Counters
      /\ life \in [Pids -> Lives] /\ life = [life EXCEPT ![p] = life[p]]
  BY DEF IInv, TypeInv, Counters
<1>2. CASE FirstReport(p)
  <2>1. /\ life[p] = "forked" /\ life' = [life EXCEPT ![p] = "init"] /\ Send(p, "starting")
        /\ UNCHANGED <<sig, controller, bounds>>
    BY <1>2 DEF FirstReport, Become
  <2> QED
    BY <1>1, <2>1, SendStep DEF Lives, Kinds
<1>3. CASE InitDone(p)
  <2>1. /\ life[p] = "init" /\ life' = [life EXCEPT ![p] = "up"]
        /\ UNCHANGED <<sig, mq, controller, bounds>>
    BY <1>3 DEF InitDone, Become
  <2> QED
    BY <1>1, <2>1, LifeStep DEF Lives
<1>4. CASE Report(p)
  <2>1. /\ life[p] = "up" /\ UNCHANGED life /\ Send(p, "ready")
        /\ UNCHANGED <<sig, controller, bounds>>
    BY <1>4 DEF Report, procs
  <2>2. life' = [life EXCEPT ![p] = "up"]
    BY <1>1, <2>1
  <2> QED
    BY <1>1, <2>1, <2>2, SendStep DEF Lives, Kinds
<1>5. CASE LateReport(p)
  <2>1. /\ life[p] = "up" /\ UNCHANGED life /\ Send(p, "ready")
        /\ UNCHANGED <<sig, controller>> /\ Counted("late", MaxLate)
    BY <1>5 DEF LateReport, procs
  <2>2. life' = [life EXCEPT ![p] = "up"]
    BY <1>1, <2>1
  <2>3. bounds' \in [Counters -> Nat] /\ bounds'["segvs"] = bounds["segvs"]
    BY <2>1, CountedType DEF IInv, Counters
  <2> QED
    BY <2>1, <2>2, <2>3, SendStep DEF Lives, Kinds
<1>6. CASE Quit(p)
  <2>1. /\ life[p] = "up" /\ life' = [life EXCEPT ![p] = "gone"]
        /\ UNCHANGED <<sig, mq, controller, bounds>>
    BY <1>6 DEF Quit, Become
  <2> QED
    BY <1>1, <2>1, LifeStep DEF Lives
<1>7. CASE Hang(p)
  <2>1. /\ life[p] = "up" /\ life' = [life EXCEPT ![p] = "hung"]
        /\ UNCHANGED <<sig, mq, controller>> /\ Counted("hangs", MaxHangs)
    BY <1>7 DEF Hang, Become
  <2>2. bounds' \in [Counters -> Nat] /\ bounds'["segvs"] = bounds["segvs"]
    BY <2>1, CountedType DEF IInv, Counters
  <2> QED
    BY <2>1, <2>2, LifeStep DEF Lives
<1>8. CASE Recover(p)
  <2>1. /\ life[p] = "hung" /\ life' = [life EXCEPT ![p] = "up"]
        /\ UNCHANGED <<sig, mq, controller, bounds>>
    BY <1>8 DEF Recover, Become
  <2> QED
    BY <1>1, <2>1, LifeStep DEF Lives
<1>9. CASE Killed(p)
  <2>1. /\ life' = [life EXCEPT ![p] = "gone"]
        /\ UNCHANGED <<sig, mq, controller>> /\ Counted("killed", MaxKilled)
    BY <1>9 DEF Killed
  <2>2. bounds' \in [Counters -> Nat] /\ bounds'["segvs"] = bounds["segvs"]
    BY <2>1, CountedType DEF IInv, Counters
  <2> QED
    BY <2>1, <2>2, LifeStep DEF Lives
<1>10. CASE Segv(p)
  <2>1. /\ life[p] # "gone" /\ life' = [life EXCEPT ![p] = "dumping"]
        /\ UNCHANGED <<sig, mq, controller>> /\ Counted("segvs", MaxSegvs)
    BY <1>10 DEF Segv
  <2>2. bounds' \in [Counters -> Nat] /\ bounds'["segvs"] # 0
    BY <2>1, CountedType DEF IInv, Counters
  <2> QED
    BY <2>1, <2>2, LifeStep DEF Lives
<1>11. CASE ReportException(p)
  <2>1. /\ life[p] = "dumping" /\ life' = [life EXCEPT ![p] = "dying"]
        /\ Send(p, "exception") /\ UNCHANGED <<sig, controller, bounds>>
    BY <1>11 DEF ReportException, Become
  <2>2. ~NoneDying
    BY <2>1 DEF NoneDying
  <2> QED
    BY <1>1, <2>1, <2>2, SendStep DEF Lives, Kinds
<1>12. CASE Die(p)
  <2>1. /\ life[p] = "dying" /\ life' = [life EXCEPT ![p] = "gone"]
        /\ UNCHANGED <<sig, mq, controller, bounds>>
    BY <1>12 DEF Die, Become
  <2> QED
    BY <1>1, <2>1, LifeStep DEF Lives
<1> QED
  BY <1>2, <1>3, <1>4, <1>5, <1>6, <1>7, <1>8, <1>9, <1>10, <1>11, <1>12
     DEF Starts, Loop, Dies, Fails

\* Steps that leave the processes and the calls alone.
LEMMA OutsideStep ==
  ASSUME IInv, UNCHANGED <<procs, mq, listed, count, tag, reload, stack>>,
         stale' \subseteq Pids, bounds' \in [Counters -> Nat],
         bounds'["segvs"] = bounds["segvs"], ReloadInv'
  PROVE  IInv'
<1>1. TypeInv' /\ Known'
  BY DEF IInv, TypeInv, Known, procs
<1>2. StackInv' /\ Calm'
  BY DEF IInv, StackInv, Calm, NoneDying, NoneReported, Matches, procs
<1> QED
  BY <1>1, <1>2 DEF IInv

LEMMA TimeInv == ASSUME IInv, TimePasses PROVE IInv'
<1>1. ASSUME UNCHANGED bounds \/ Counted("slow", MaxSlow)
      PROVE  bounds' \in [Counters -> Nat] /\ bounds'["segvs"] = bounds["segvs"]
  BY <1>1, CountedType DEF IInv, TypeInv, Counters
<1>2. CASE \E p \in Pids : Expire(p)
  <2>1. PICK p \in Pids : Expire(p)
    BY <1>2
  <2>2. /\ UNCHANGED <<procs, mq, listed, count, tag, reload, hup, stack>>
        /\ UNCHANGED bounds \/ Counted("slow", MaxSlow)
        /\ stale' = stale \cup {p}
    BY <2>1 DEF Expire, hot
  <2>3. stale' \subseteq Pids /\ ReloadInv'
    BY <2>2 DEF IInv, TypeInv, ReloadInv
  <2> QED
    BY <1>1, <2>2, <2>3, OutsideStep
<1>3. CASE AdjustDelayPasses \/ ReloadDelayPasses
  <2>1. /\ UNCHANGED <<procs, mq, group, tag, reload, hup, stack>>
        /\ UNCHANGED bounds \/ Counted("slow", MaxSlow)
    BY <1>3 DEF AdjustDelayPasses, ReloadDelayPasses, hot
  <2>2. stale' \subseteq Pids /\ ReloadInv' /\ UNCHANGED <<listed, count>>
    BY <2>1 DEF IInv, TypeInv, ReloadInv, group
  <2> QED
    BY <1>1, <2>1, <2>2, OutsideStep
<1> QED
  BY <1>2, <1>3 DEF TimePasses

LEMMA AskReloadInv == ASSUME IInv, AskReload PROVE IInv'
<1>1. /\ UNCHANGED <<procs, mq, group, tag, reload, stack>>
      /\ Counted("reloads", MaxReloads) /\ (Hasty \/ reload = PROC_RELOAD_NORMAL)
  BY DEF AskReload, hot
<1>2. bounds' \in [Counters -> Nat] /\ bounds'["segvs"] = bounds["segvs"]
  BY <1>1, CountedType DEF IInv, Counters
<1>3. stale' \subseteq Pids /\ ReloadInv' /\ UNCHANGED <<listed, count>>
  BY <1>1 DEF IInv, TypeInv, ReloadInv, group
<1> QED
  BY <1>1, <1>2, <1>3, OutsideStep

-----------------------------------------------------------------------------
(* The invariant. *)

LEMMA InitInv == ASSUME Init PROVE IInv
<1>1. TypeInv
  <2>1. mq \in Seq(Messages) /\ stack \in Seq(Frames)
    BY EmptySeq DEF Init
  <2>2. life \in [Pids -> Lives] /\ sig \in [Pids -> SUBSET Signals]
    BY DEF Init, Lives
  <2>3. bounds \in [Counters -> Nat]
    BY DEF Init, Counters
  <2> QED
    BY <2>1, <2>2, <2>3 DEF Init, TypeInv
<1>2. DOMAIN mq = {} /\ DOMAIN stack = {} /\ listed = {}
  BY DEF Init
<1>3. Known /\ StackInv /\ ReloadInv
  BY <1>2 DEF Init, Known, StackInv, ReloadInv
<1>4. Calm
  <2>1. NoneDying
    BY DEF Init, NoneDying
  <2>2. Matches
    BY FS_EmptySet DEF Init, Matches
  <2> QED
    BY <1>2, <2>1, <2>2 DEF Calm, NoneReported, Orderly
<1> QED
  BY <1>1, <1>3, <1>4 DEF IInv

LEMMA NextInv == ASSUME IInv, [Next]_vars PROVE IInv'
<1>1. CASE Next
  BY <1>1, ControllerInv, WorkerInv, TimeInv, AskReloadInv DEF Next
<1>2. CASE UNCHANGED vars
  <2>1. UNCHANGED <<procs, mq, group, hot, hup, stack, bounds>>
    BY <1>2 DEF vars
  <2>2. stale' \subseteq Pids /\ ReloadInv' /\ bounds' \in [Counters -> Nat]
        /\ UNCHANGED <<listed, count, tag, reload>>
    BY <2>1 DEF IInv, TypeInv, ReloadInv, group, hot
  <2> QED
    BY <2>1, <2>2, OutsideStep
<1> QED
  BY <1>1, <1>2

LEMMA Invariant == Spec => []IInv
  BY InitInv, NextInv, PTL DEF Spec

-----------------------------------------------------------------------------
(* The theorems. *)

(* As long as no process has reported an exception curprocnum_ is the number of the
   processes in bucket_, for any set of processes, any number of failures and reloads,
   and however do_recv, do_event and check_proc are nested: check_group never forks too
   many because of a wrong count. *)
THEOREM CountCorrect == Spec => []CountMatches
<1>1. IInv => CountMatches
  BY DEF IInv, Calm, Matches, CountMatches, CurProcNum
<1> QED
  BY <1>1, Invariant, PTL

\* A step that takes a process off the list and off the tags.
LEMMA ForgettingStep ==
  ASSUME IInv, [Next]_vars, ~Hasty, NEW p \in Pids, Forgotten(p)
  PROVE  life'[p] = "gone" \/ sig'[p] # {}
<1>1. p \in listed \cup tag /\ p \notin listed' \cup tag'
  BY DEF Forgotten
<1>2. ~UNCHANGED <<listed, tag>>
  BY <1>1
<1>3. CASE CheckSignals
  <2>1. hup /\ tag' = listed
    BY <1>2, <1>3 DEF CheckSignals, TagsOf, group, hot
  <2>2. tag = {}
    BY <2>1 DEF IInv, ReloadInv
  <2> QED
    BY <1>1, <2>1, <2>2
<1>4. CASE Recv
  <2>1. UNCHANGED tag /\ listed \subseteq listed'
    BY <1>4 DEF Recv, Note, group, hot
  <2> QED
    BY <1>1, <2>1
<1>5. CASE Replace
  <2>1. /\ stack # <<>> /\ Top.at = "replace" /\ UNCHANGED tag
        /\ UNCHANGED listed \/ (listed' = listed \ {Top.p} /\ Fork(1) /\ UNCHANGED sig)
    BY <1>5 DEF Replace, At, Top, hot, Del
  <2>2. life[Top.p] = "gone" /\ p = Top.p /\ Fork(1) /\ UNCHANGED sig
    BY <1>1, <2>1, TopType DEF IInv, StackInv, Rests
  <2> QED
    BY <2>2, Forked DEF IInv, Moves
<1>6. CASE Drop
  <2>1. /\ stack # <<>> /\ Top.at = "drop" /\ UNCHANGED <<tag, life, sig>>
        /\ listed' = listed \ {Top.p}
    BY <1>6 DEF Drop, At, Top, hot, procs, Del
  <2> QED
    BY <1>1, <2>1, TopType DEF IInv, StackInv, Rests
<1>7. CASE ReloadClear
  <2>1. UNCHANGED listed /\ OldGone /\ UNCHANGED life
    BY <1>2, <1>7 DEF ReloadClear, CheckReload, group
  <2> QED
    BY <1>1, <2>1 DEF OldGone
<1>8. CASE /\ [Next]_vars
           /\ ~(CheckSignals \/ Recv \/ Replace \/ Drop \/ ReloadClear)
  <2>1. CASE UNCHANGED vars
    BY <1>2, <2>1 DEF vars, group, hot
  <2>2. CASE AskReload \/ TimePasses
    BY <1>2, <2>2 DEF AskReload, TimePasses, Expire, AdjustDelayPasses, ReloadDelayPasses,
                      group, hot
  <2>3. CASE \E q \in Pids : Starts(q) \/ Loop(q) \/ Recover(q) \/ Dies(q) \/ Fails(q)
    <3>1. UNCHANGED controller
      BY <2>3 DEF Starts, FirstReport, InitDone, Loop, Report, LateReport, Quit, Recover,
                  Dies, ReportException, Die, Fails, Hang, Killed, Segv
    <3> QED
      BY <1>2, <3>1 DEF controller, group, hot
  <2>4. CASE Controller
    <3>1. CASE \/ Run \/ RecvDone \/ ProcessException \/ KillDead \/ VerifyDead
               \/ CheckGroup \/ CheckUnused \/ TellSurplus \/ SurplusTold
               \/ CheckProc \/ ProcsChecked
      BY <1>2, <3>1 DEF Run, RecvDone, ProcessException, KillDead, VerifyDead, CheckGroup,
                        CheckUnused, TellSurplus, SurplusTold, CheckProc, ProcsChecked,
                        group, hot
    <3>2. CASE ReloadStart \/ ReloadWaitNew \/ ReloadKillOld
      BY <1>2, <3>2 DEF ReloadStart, ReloadWaitNew, ReloadKillOld, CheckReload, group
    <3> QED
      BY <1>8, <2>4, <3>1, <3>2 DEF Controller
  <2> QED
    BY <1>8, <2>1, <2>2, <2>3, <2>4 DEF Next
<1> QED
  BY <1>3, <1>4, <1>5, <1>6, <1>7, <1>8

(* A process is only forgotten, neither in the list nor tagged by a reload, when it is
   gone or has been told to exit: whatever fails, and when a reload is only asked for
   while none is missing, no worker goes on running that the controller does not know. *)
THEOREM NothingForgotten ==
  ASSUME ~Hasty
  PROVE  Spec => NoOrphan
<1>1. ASSUME IInv, [Next]_vars
      PROVE  [\A p \in Pids : Forgotten(p) => life'[p] = "gone" \/ sig'[p] # {}]_vars
  BY <1>1, ForgettingStep
<1> QED
  BY <1>1, Invariant, PTL DEF Spec, NoOrphan

-----------------------------------------------------------------------------
(* How many processes there are. *)

\* The processes with a message in the queue, and all that may count: do_recv will put
\* on the list what it reads of.
Senders == {mq[i].pid : i \in DOMAIN mq}
Charged == listed \cup Alive \cup Senders

\* What has been heard of has begun to run.
Started ==
  /\ gen \in Nat
  /\ \A p \in listed \cup Senders : life[p] \notin {"unborn", "forked"}

\* No exception, nothing slow and no reload so far.
Quiet == bounds["segvs"] = 0 /\ bounds["slow"] = 0 /\ gen = 0

Few == IsFiniteSet(Charged) /\ Cardinality(Charged) <= ProcNum
Heard ==
  \A p \in Pids : life[p] \notin {"unborn", "forked", "gone"} => p \in listed \cup Senders

\* While a process is being replaced check_group waits, and the messages it sent before
\* it died are read before its place is filled.
InPlace(st, set, senders) ==
  \A i \in DOMAIN st :
    /\ st[i].at \notin {"surplus", "drop"}
    /\ Busy(st[i]) => ~set
    /\ st[i].at = "replace" /\ st[i].p \in senders =>
         st[1].at = "recv" /\ st[1].p = st[i].p

QuietInv ==
  Quiet => /\ reload = PROC_RELOAD_NORMAL
           /\ Few
           /\ Heard
           /\ settled => Charged \subseteq listed
           /\ InPlace(stack, settled, Senders)

CountInv == Started /\ QuietInv

LEMMA SendersKnown ==
  ASSUME IInv
  PROVE  Senders \subseteq Pids /\ Charged \subseteq Pids
<1>1. mq \in Seq(Messages)
  BY DEF IInv, TypeInv
<1>2. \A i \in DOMAIN mq : mq[i] \in Messages
  BY <1>1, LenProperties, ElementOfSeq
<1> QED
  BY <1>2 DEF Senders, Charged, Messages, Alive, IInv, TypeInv

\* What a message does to the set of those who have sent one.
LEMMA SentBy ==
  ASSUME IInv, NEW p \in Pids, NEW kind \in Kinds, Send(p, kind)
  PROVE  Senders' = Senders \cup {p}
<1> DEFINE msg == [pid |-> p, kind |-> kind]
<1>1. mq \in Seq(Messages) /\ msg \in Messages /\ msg.pid = p
  BY DEF IInv, TypeInv, Messages
<1>2. \/ mq' = mq /\ \E i \in DOMAIN mq : mq[i] = msg
      \/ mq' = Append(mq, msg)
  BY DEF Send
<1> HIDE DEF msg
<1>3. CASE mq' = mq /\ \E i \in DOMAIN mq : mq[i] = msg
  BY <1>1, <1>3 DEF Senders
<1>4. CASE mq' = Append(mq, msg)
  <2>1. /\ DOMAIN mq = 1..Len(mq) /\ Len(mq) \in Nat
        /\ DOMAIN mq' = 1..Len(mq) + 1
        /\ \A i \in 1..Len(mq) : mq'[i] = mq[i]
        /\ mq'[Len(mq) + 1] = msg
    BY <1>1, <1>4, AppendProperties, LenProperties
  <2>2. ASSUME NEW q PROVE q \in Senders' <=> q \in Senders \cup {p}
    <3>1. ASSUME q \in Senders' PROVE q \in Senders \cup {p}
      <4>1. PICK i \in 1..Len(mq) + 1 : q = mq'[i].pid
        BY <2>1, <3>1 DEF Senders
      <4>2. i \in 1..Len(mq) \/ i = Len(mq) + 1
        BY <2>1
      <4> QED
        BY <1>1, <2>1, <4>1, <4>2 DEF Senders
    <3>2. ASSUME q \in Senders PROVE q \in Senders'
      <4>1. PICK i \in 1..Len(mq) : q = mq[i].pid
        BY <2>1, <3>2 DEF Senders
      <4>2. i \in DOMAIN mq' /\ mq'[i] = mq[i]
        BY <2>1
      <4> QED
        BY <4>1, <4>2 DEF Senders
    <3>3. p \in Senders'
      <4>1. Len(mq) + 1 \in DOMAIN mq'
        BY <2>1
      <4> QED
        BY <1>1, <2>1, <4>1 DEF Senders
    <3> QED
      BY <3>1, <3>2, <3>3
  <2> QED
    BY <2>2
<1> QED
  BY <1>2, <1>3, <1>4

LEMMA ReadFrom ==
  ASSUME IInv, NextMsg > 0, mq' = Without(NextMsg), UNCHANGED life
  PROVE  /\ mq[NextMsg].pid \in Senders /\ Senders' \subseteq Senders
         /\ Senders \subseteq Senders' \cup {mq[NextMsg].pid}
<1> DEFINE n == NextMsg
<1>1. n \in DOMAIN mq
  BY Received DEF IInv
<1>2. mq \in Seq(Messages) /\ mq' = SubSeq(mq, 1, n - 1) \o SubSeq(mq, n + 1, Len(mq))
  BY DEF IInv, TypeInv, Without
<1> DEFINE S == Messages
           t == mq'
<1> HIDE DEF n, S, t
<1>3. mq \in Seq(S) /\ t = SubSeq(mq, 1, n - 1) \o SubSeq(mq, n + 1, Len(mq))
  BY <1>2 DEF S, t
<1>4. \A i \in DOMAIN t : \E j \in DOMAIN mq : t[i] = mq[j]
  BY <1>1, <1>3, Shortened
<1>5. \A j \in DOMAIN mq : j # n => \E i \in DOMAIN t : t[i] = mq[j]
  BY <1>1, <1>3, Shortened
<1>6. Senders' \subseteq Senders
  BY <1>4 DEF Senders, t
<1>7. Senders \subseteq Senders' \cup {mq[n].pid}
  BY <1>5 DEF Senders, t
<1> QED
  BY <1>1, <1>6, <1>7 DEF Senders, n

\* do_fork starts no more processes than it is asked for.
Newborn == {p \in Pids : life[p] = "unborn" /\ life'[p] = "forked"}

LEMMA FewForked ==
  ASSUME NEW n \in Nat, Fork(n)
  PROVE  IsFiniteSet(Newborn) /\ Cardinality(Newborn) <= n
<1> DEFINE unborn == {p \in Pids : life[p] = "unborn"}
           below(p) == {q \in unborn : q < p}
           next == {p \in unborn : Cardinality(below(p)) < n}
           f == [p \in next |-> Cardinality(below(p))]
<1>1. Newborn \subseteq next
  BY DEF Fork, Newborn
<1>2. ASSUME NEW p \in unborn PROVE IsFiniteSet(below(p)) /\ Cardinality(below(p)) \in Nat
  <2>1. p \in Nat /\ unborn \subseteq Nat
    BY PidsAssumption
  <2>2. IsFiniteSet(below(p))
    <3> DEFINE B == below(p)
    <3> HIDE DEF unborn
    <3>1. \A q \in unborn : q < p => q \in Nat /\ q <= p
      BY <2>1
    <3>a. B \in SUBSET Nat /\ \A q \in B : q <= p
      BY <3>1
    <3> HIDE DEF B
    <3>2. IsFiniteSet(B)
      BY <2>1, <3>a, FS_BoundedSetOfNaturals
    <3> QED
      BY <3>2 DEF B
  <2> QED
    BY <2>2, FS_CardinalityType
<1>3. f \in [next -> 0..n - 1]
  BY <1>2
<1>4. ASSUME NEW p \in next, NEW q \in next, p < q PROVE f[p] # f[q]
  <2>1. p \in unborn /\ q \in unborn /\ unborn \subseteq Nat
    BY PidsAssumption
  <2>2. below(p) \in SUBSET below(q) /\ p \in below(q) /\ p \notin below(p)
    <3> HIDE DEF unborn
    <3>1. \A r \in unborn : r < p => r < q
      BY <1>4, <2>1
    <3>2. ~(p < p)
      BY <2>1
    <3> QED
      BY <1>4, <2>1, <3>1, <3>2
  <2>3. IsFiniteSet(below(q))
    BY <1>2
  <2> HIDE DEF below
  <2>4. Cardinality(below(q)) # Cardinality(below(p))
    BY <2>2, <2>3, FS_Subset
  <2> QED
    BY <2>4
<1>5. \A p, q \in next : p # q => f[p] # f[q]
  <2>1. \A p, q \in next : p # q => p < q \/ q < p
    BY PidsAssumption
  <2> HIDE DEF f, next
  <2> QED
    BY <1>4, <2>1
<1> DEFINE T == 0..n - 1
<1>6. IsFiniteSet(T) /\ Cardinality(T) = n
  BY FS_Interval
<1>7. f \in Injection(next, T)
  <2> HIDE DEF f, next, T
  <2>1. f \in [next -> T]
    BY <1>3 DEF T
  <2> QED
    BY <1>5, <2>1 DEF Injection, IsInjective
<1>8. IsFiniteSet(next) /\ Cardinality(next) <= n
  <2> HIDE DEF next, f, T
  <2> QED
    BY <1>6, <1>7, FS_Injection
<1> HIDE DEF next
<1> QED
  BY <1>1, <1>8, FS_Subset, FS_CardinalityType

LEMMA ForkedAlive ==
  ASSUME TypeInv, NEW n, Fork(n), UNCHANGED sig
  PROVE  Alive' \subseteq Alive \cup Newborn
  BY Forked DEF Alive, Newborn

\* A part of what was charged, and a process for each one that is gone.
LEMMA FewMore ==
  ASSUME NEW S, IsFiniteSet(S), NEW N, IsFiniteSet(N), NEW T, T \subseteq S \cup N,
         NEW n \in Nat, Cardinality(S) + Cardinality(N) <= n
  PROVE  IsFiniteSet(T) /\ Cardinality(T) <= n
<1>1. /\ IsFiniteSet(S \cup N)
      /\ Cardinality(S \cup N) = Cardinality(S) + Cardinality(N) - Cardinality(S \cap N)
  BY FS_Union
<1>2. IsFiniteSet(S \cap N) /\ Cardinality(S \cap N) \in Nat
  BY FS_Intersection, FS_CardinalityType
<1>3. IsFiniteSet(T) /\ Cardinality(T) <= Cardinality(S \cup N)
  BY <1>1, FS_Subset
<1>4. Cardinality(T) \in Nat /\ Cardinality(S) \in Nat /\ Cardinality(N) \in Nat
  BY <1>3, FS_CardinalityType
<1> QED
  BY <1>1, <1>2, <1>3, <1>4

-----------------------------------------------------------------------------
(* The processes. *)

\* Steps that leave the controller alone: nobody is charged who was not.
LEMMA CountOutside ==
  ASSUME IInv, CountInv, UNCHANGED <<listed, reload, settled, stack>>,
         Quiet' => Quiet /\ Heard',
         Charged' \subseteq Charged,
         \A p \in Senders' \ Senders : life[p] # "gone",
         Started'
  PROVE  CountInv'
<1>1. ASSUME Quiet' PROVE QuietInv'
  <2>1. Quiet /\ Heard' /\ reload' = PROC_RELOAD_NORMAL /\ Few /\ InPlace(stack, settled, Senders)
    BY <1>1 DEF CountInv, QuietInv
  <2>2. Few'
    BY <2>1, FS_Subset, FS_CardinalityType, PidsAssumption DEF Few
  <2>3. settled' => Charged' \subseteq listed'
    BY <1>1, <2>1 DEF CountInv, QuietInv
  <2>4. InPlace(stack, settled, Senders')
    <3>1. ASSUME NEW i \in DOMAIN stack, stack[i].at = "replace", stack[i].p \in Senders'
          PROVE  stack[i].p \in Senders
      BY <3>1 DEF IInv, StackInv, Rests
    <3> QED
      BY <2>1, <3>1 DEF InPlace
  <2> QED
    BY <2>1, <2>2, <2>3, <2>4 DEF QuietInv
<1> QED
  BY <1>1 DEF CountInv, QuietInv

\* A process' life goes on, and it may send a message.
LEMMA LifeCount ==
  ASSUME IInv, CountInv, NEW p \in Pids, NEW l \in Lives \ {"unborn", "forked"},
         life' = [life EXCEPT ![p] = l], life[p] \notin {"unborn", "gone"},
         UNCHANGED <<listed, reload, gen, settled, stack>>, Quiet' => Quiet,
         \/ Senders' = Senders \cup {p}
         \/ Senders' = Senders /\ (life[p] # "forked" \/ l = "gone")
  PROVE  CountInv'
<1>1. \A q \in Pids : life'[q] = IF q = p THEN l ELSE life[q]
  BY DEF IInv, TypeInv
<1>2. Charged' \subseteq Charged
  BY <1>1 DEF Charged, Alive
<1>3. Started'
  <2>1. listed \cup Senders \subseteq Pids
    BY SendersKnown DEF IInv, TypeInv
  <2> QED
    BY <1>1, <2>1 DEF CountInv, Started
<1>4. ASSUME Quiet' PROVE Heard'
  <2>1. Heard
    BY <1>4 DEF CountInv, QuietInv
  <2> QED
    BY <1>1, <2>1 DEF Heard
<1>5. \A q \in Senders' \ Senders : life[q] # "gone"
  OBVIOUS
<1> QED
  BY <1>2, <1>3, <1>4, <1>5, CountOutside

\* The counters only grow.
LEMMA CountedUp ==
  ASSUME TypeInv, NEW b \in Counters, NEW max, Counted(b, max)
  PROVE  \A c \in Counters : bounds'[c] = IF c = b THEN bounds[c] + 1 ELSE bounds[c]
  BY DEF TypeInv, Counted

LEMMA StillQuiet ==
  ASSUME IInv, UNCHANGED gen, UNCHANGED bounds \/ \E b \in Counters : \E max : Counted(b, max)
  PROVE  Quiet' => Quiet
<1>1. CASE UNCHANGED bounds
  BY <1>1 DEF Quiet
<1>2. CASE \E b \in Counters : \E max : Counted(b, max)
  <2>1. \A c \in Counters : bounds[c] \in Nat /\ bounds'[c] \in {bounds[c], bounds[c] + 1}
    BY <1>2, CountedUp DEF IInv, TypeInv
  <2>2. "segvs" \in Counters /\ "slow" \in Counters
    BY DEF Counters
  <2> QED
    BY <2>1, <2>2 DEF Quiet
<1> QED
  BY <1>1, <1>2

LEMMA WorkerCount ==
  ASSUME IInv, CountInv, NEW p \in Pids,
         Starts(p) \/ Loop(p) \/ Recover(p) \/ Dies(p) \/ Fails(p)
  PROVE  CountInv'
<1>1. life \in [Pids -> Lives] /\ life = [life EXCEPT ![p] = life[p]]
  BY DEF IInv, TypeInv
<1>2. /\ UNCHANGED <<listed, reload, gen, settled, stack>>
      /\ UNCHANGED bounds \/ \E b \in Counters : \E max : Counted(b, max)
  <2>1. UNCHANGED controller
    BY DEF Starts, FirstReport, InitDone, Loop, Report, LateReport, Quit, Recover,
           Dies, ReportException, Die, Fails, Hang, Killed, Segv
  <2>2. UNCHANGED bounds \/ \E b \in Counters : \E max : Counted(b, max)
    BY DEF Starts, FirstReport, InitDone, Loop, Report, LateReport, Quit, Recover,
           Dies, ReportException, Die, Fails, Hang, Killed, Segv, Counters
  <2> QED
    BY <2>1, <2>2 DEF controller, group, hot
<1>3. Quiet' => Quiet
  BY <1>2, StillQuiet
<1>4. ASSUME NEW kind \in Kinds, Send(p, kind), NEW l \in Lives \ {"unborn", "forked"},
             life' = [life EXCEPT ![p] = l], life[p] \notin {"unborn", "gone"}
      PROVE  CountInv'
  <2>1. Senders' = Senders \cup {p}
    BY <1>4, SentBy
  <2> QED
    BY <1>2, <1>3, <1>4, <2>1, LifeCount
<1>5. ASSUME UNCHANGED mq, NEW l \in Lives \ {"unborn", "forked"},
             life' = [life EXCEPT ![p] = l], life[p] \notin {"unborn", "gone"},
             life[p] # "forked" \/ l = "gone"
      PROVE  CountInv'
  <2>1. Senders' = Senders
    BY <1>5 DEF Senders
  <2> QED
    BY <1>2, <1>3, <1>5, <2>1, LifeCount
<1>6. CASE FirstReport(p)
  BY <1>4, <1>6 DEF FirstReport, Become, Lives, Kinds
<1>7. CASE Report(p) \/ LateReport(p)
  <2>1. /\ life[p] = "up" /\ life' = [life EXCEPT ![p] = "up"] /\ Send(p, "ready")
    BY <1>1, <1>7 DEF Report, LateReport, procs
  <2> QED
    BY <1>4, <2>1 DEF Lives, Kinds
<1>8. CASE ReportException(p)
  BY <1>4, <1>8 DEF ReportException, Become, Lives, Kinds
<1>9. CASE InitDone(p) \/ Quit(p) \/ Hang(p) \/ Recover(p) \/ Segv(p) \/ Die(p)
  BY <1>5, <1>9 DEF InitDone, Quit, Hang, Recover, Segv, Die, Become, Lives
<1>10. CASE Killed(p)
  <2>1. life[p] \notin {"unborn", "gone"} /\ life' = [life EXCEPT ![p] = "gone"] /\ UNCHANGED mq
    BY <1>10 DEF Killed, Alive
  <2> QED
    BY <1>5, <2>1 DEF Lives
<1> QED
  BY <1>6, <1>7, <1>8, <1>9, <1>10 DEF Starts, Loop, Dies, Fails

-----------------------------------------------------------------------------
(* Time and the user. *)

\* With no message on its way and no process that has yet to report, all are on the list.
LEMMA HeardOfAll ==
  ASSUME AllHeardOf, Heard
  PROVE  Charged \subseteq listed
<1>1. mq = <<>> /\ \A p \in Pids : life[p] # "forked"
  BY DEF AllHeardOf
<1>2. Senders = {}
  BY <1>1 DEF Senders
<1> QED
  BY <1>1, <1>2 DEF Heard, Charged, Alive

\* Steps that change nothing of this.
LEMMA CountSame ==
  ASSUME CountInv, UNCHANGED <<life, mq, listed, reload, settled, stack, gen>>,
         Quiet' => Quiet
  PROVE  CountInv'
<1>1. Senders' = Senders /\ Charged' = Charged
  BY DEF Senders, Charged, Alive
<1> QED
  BY <1>1 DEF CountInv, Started, QuietInv, Few, Heard

LEMMA TimeCount == ASSUME IInv, CountInv, TimePasses PROVE CountInv'
<1>1. /\ UNCHANGED <<life, mq, listed, reload, stack, gen>>
      /\ UNCHANGED bounds \/ \E b \in Counters : \E max : Counted(b, max)
  BY DEF TimePasses, Expire, AdjustDelayPasses, ReloadDelayPasses, procs, group, hot, Counters
<1>2. Quiet' => Quiet
  BY <1>1, StillQuiet
<1>3. CASE UNCHANGED settled
  BY <1>1, <1>2, <1>3, CountSame
<1>4. CASE AdjustDelayPasses
  <2>1. Senders' = Senders /\ Charged' = Charged
    BY <1>1 DEF Senders, Charged, Alive
  <2>2. ASSUME Quiet' PROVE QuietInv'
    <3>1. AllHeardOf
      <4>1. ASSUME Counted("slow", MaxSlow) PROVE FALSE
        <5>1. bounds'["slow"] = bounds["slow"] + 1 /\ bounds["slow"] \in Nat
          BY <4>1, CountedUp DEF IInv, TypeInv, Counters
        <5> QED
          BY <5>1, <2>2 DEF Quiet
      <4> QED
        BY <1>4, <4>1 DEF AdjustDelayPasses
    <3>2. Quiet /\ Few /\ Heard /\ reload = PROC_RELOAD_NORMAL
      BY <1>2, <2>2 DEF CountInv, QuietInv
    <3>3. Charged \subseteq listed
      BY <3>1, <3>2, HeardOfAll
    <3>4. stack' = <<>>
      BY <1>1, <1>4 DEF AdjustDelayPasses
    <3>5. InPlace(stack', settled', Senders')
      BY <3>4 DEF InPlace
    <3> QED
      BY <1>1, <2>1, <3>2, <3>3, <3>5 DEF QuietInv, Few, Heard
  <2> QED
    BY <1>1, <2>1, <2>2 DEF CountInv, Started, QuietInv
<1> QED
  BY <1>3, <1>4 DEF TimePasses, Expire, ReloadDelayPasses

LEMMA AskCount == ASSUME IInv, CountInv, AskReload PROVE CountInv'
<1>1. /\ UNCHANGED <<life, mq, listed, reload, settled, stack, gen>>
      /\ \E b \in Counters : \E max : Counted(b, max)
  BY DEF AskReload, procs, group, hot, Counters
<1> QED
  BY <1>1, StillQuiet, CountSame

-----------------------------------------------------------------------------
(* The controller. *)

LEMMA QuietStack ==
  ASSUME IInv, Quiet, QuietInv, stack # <<>>
  PROVE  /\ Top.at \notin {"surplus", "drop", "segv_wait", "crashed"}
         /\ Busy(Top) => ~settled /\ Top.p \in listed
         /\ Top.at = "replace" => Top.p \notin Senders
         /\ Top = stack[1] /\ 1 \in DOMAIN stack
         /\ count = Cardinality(listed) /\ IsFiniteSet(listed) /\ count <= ProcNum
         /\ count \in Nat
<1>1. Top = stack[1] /\ 1 \in DOMAIN stack
  BY TopType DEF IInv
<1>2. Orderly(stack, listed) /\ Matches
  BY DEF IInv, Calm, Quiet
<1>3. /\ InPlace(stack, settled, Senders) /\ Few
  BY DEF QuietInv
<1>4. listed \in SUBSET Charged
  BY DEF Charged
<1>5. Cardinality(listed) <= Cardinality(Charged) /\ Cardinality(listed) \in Nat
      /\ Cardinality(Charged) \in Nat
  BY <1>2, <1>3, <1>4, FS_Subset, FS_CardinalityType DEF Few, Matches
<1>6. Cardinality(listed) <= ProcNum
  BY <1>3, <1>5, PidsAssumption DEF Few
<1>7. Top.at = "replace" => Top.p \notin Senders
  BY <1>1, <1>3 DEF InPlace
<1> QED
  BY <1>1, <1>2, <1>3, <1>5, <1>6, <1>7 DEF Orderly, InPlace, Matches

\* A function other than do_recv makes way for others: no frame below deals with a
\* process.
LEMMA PlaceKept ==
  ASSUME IInv, Quiet, QuietInv, stack # <<>>, Top.at # "recv",
         NEW fs \in Seq(Frames), stack' = fs \o Tail(stack), UNCHANGED mq,
         \A i \in DOMAIN fs :
           /\ fs[i].at \notin {"surplus", "drop"}
           /\ Busy(fs[i]) => ~settled'
           /\ fs[i].at = "replace" => fs[1].at = "recv" /\ fs[1].p = fs[i].p
  PROVE  InPlace(stack', settled', Senders')
<1>1. stack \in Seq(Frames)
  BY DEF IInv, TypeInv
<1>2. /\ DOMAIN stack' = 1..Len(stack') /\ Len(stack') \in Nat
      /\ Len(fs) \in Nat /\ DOMAIN fs = 1..Len(fs) /\ DOMAIN stack = 1..Len(stack)
      /\ \A i \in DOMAIN fs : i \in DOMAIN stack' /\ stack'[i] = fs[i]
      /\ \A i \in DOMAIN stack' : i > Len(fs) =>
           i - Len(fs) + 1 \in DOMAIN stack /\ stack'[i] = stack[i - Len(fs) + 1]
  BY <1>1, Exchanged
<1>3. Orderly(stack, listed) /\ InPlace(stack, settled, Senders)
  BY DEF IInv, Calm, Quiet, QuietInv
<1>4. ASSUME NEW i \in DOMAIN stack'
      PROVE  /\ stack'[i].at \notin {"surplus", "drop"}
             /\ Busy(stack'[i]) => ~settled'
             /\ stack'[i].at = "replace" => stack'[1].at = "recv" /\ stack'[1].p = stack'[i].p
  <2>1. CASE i \in DOMAIN fs
    <3>1. 1 \in DOMAIN fs
      BY <1>2, <2>1
    <3> QED
      BY <1>2, <2>1, <3>1
  <2>2. CASE i > Len(fs)
    <3> DEFINE j == i - Len(fs) + 1
    <3>1. j \in DOMAIN stack /\ stack'[i] = stack[j] /\ 1 \in 1..j - 1
      BY <2>2, <1>2
    <3>2. Top = stack[1]
      BY TopType DEF IInv
    <3> HIDE DEF j
    <3>3. ~Busy(stack[j])
      BY <1>3, <3>1, <3>2 DEF Orderly
    <3> QED
      BY <1>3, <3>1, <3>3 DEF InPlace, Busy
  <2>3. i \in DOMAIN fs \/ i > Len(fs)
    BY <1>2
  <2> QED
    BY <2>1, <2>2, <2>3
<1> QED
  BY <1>4 DEF InPlace

\* A function of the controller that starts no process and takes none off the list.
LEMMA CountControl ==
  ASSUME IInv, CountInv, stack # <<>>, Top.at # "recv", UNCHANGED <<life, mq, listed, gen, bounds>>,
         Quiet => /\ UNCHANGED reload /\ (settled' => settled)
                  /\ InPlace(stack', settled', Senders')
  PROVE  CountInv'
<1>1. Senders' = Senders /\ Charged' = Charged
  BY DEF Senders, Charged, Alive
<1>2. Quiet' => Quiet
  BY DEF Quiet
<1> QED
  BY <1>1, <1>2 DEF CountInv, Started, QuietInv, Few, Heard

\* A function that returns.
LEMMA CountReturn ==
  ASSUME IInv, CountInv, stack # <<>>, Top.at # "recv", Return,
         UNCHANGED <<life, mq, listed, gen, bounds>>,
         Quiet => UNCHANGED <<reload, settled>>
  PROVE  CountInv'
<1>1. ASSUME Quiet PROVE InPlace(stack', settled', Senders')
  <2>1. <<>> \in Seq(Frames) /\ stack' = <<>> \o Tail(stack) /\ DOMAIN <<>> = {}
    BY NoFrame DEF IInv
  <2>2. \A i \in DOMAIN <<>> :
           /\ <<>>[i].at \notin {"surplus", "drop"}
           /\ Busy(<<>>[i]) => ~settled'
           /\ <<>>[i].at = "replace" => <<>>[1].at = "recv" /\ <<>>[1].p = <<>>[i].p
    BY <2>1
  <2> QED
    BY <1>1, <2>1, <2>2, PlaceKept DEF CountInv
<1> QED
  BY <1>1, CountControl

LEMMA CheckSignalsCount == ASSUME IInv, CountInv, CheckSignals PROVE CountInv'
<1>1. stack # <<>> /\ Top.at = "signals" /\ UNCHANGED <<life, mq, bounds>>
  BY DEF CheckSignals, At, Top, procs
<1>2. CASE hup
  <2>1. listed' = {} /\ gen' = gen + 1 /\ gen \in Nat
    BY <1>2 DEF CheckSignals, CountInv, Started
  <2>2. Senders' = Senders /\ ~Quiet'
    BY <1>1, <2>1 DEF Senders, Quiet
  <2> QED
    BY <1>1, <2>1, <2>2 DEF CountInv, Started, QuietInv
<1>3. CASE ~hup
  BY <1>1, <1>3, CountReturn DEF CheckSignals, group, hot
<1> QED
  BY <1>2, <1>3

LEMMA KillDeadCount == ASSUME IInv, CountInv, KillDead PROVE CountInv'
<1>1. /\ stack # <<>> /\ Top.at = "kill"
      /\ UNCHANGED <<life, mq, listed, gen, bounds, reload, settled>>
  BY DEF KillDead, At, Top, hot, group
<1>2. ASSUME Quiet PROVE InPlace(stack', settled', Senders')
  <2> DEFINE f == Frame("verify", Top.p, 0, {})
             fs == <<f>>
  <2>1. f \in Frames /\ f.at = "verify"
    <3>1. Top.p \in Pids \cup {0}
      BY <1>1, TopType DEF IInv
    <3> QED
      BY <3>1, FrameType DEF Steps
  <2>2. stack' = fs \o Tail(stack)
    BY DEF KillDead, Continue
  <2> HIDE DEF f
  <2>3. fs \in Seq(Frames) /\ DOMAIN fs = {1} /\ fs[1] = f
    BY <2>1, OneFrame
  <2>4. ~settled'
    BY <1>1, <1>2, QuietStack DEF CountInv, Busy
  <2> HIDE DEF fs
  <2> QED
    BY <1>1, <1>2, <2>1, <2>2, <2>3, <2>4, PlaceKept DEF CountInv
<1> QED
  BY <1>1, <1>2, CountControl

LEMMA VerifyDeadCount == ASSUME IInv, CountInv, VerifyDead PROVE CountInv'
<1>1. /\ stack # <<>> /\ Top.at = "verify"
      /\ UNCHANGED <<life, mq, listed, gen, bounds, reload, settled>>
  BY DEF VerifyDead, At, Top, hot, group, procs
<1>2. CASE IsGone(Top.p)
  <2>1. ASSUME Quiet PROVE InPlace(stack', settled', Senders')
    <3> DEFINE f == RecvOf(Top.p)
               g == Frame("replace", Top.p, 0, {})
               fs == <<f, g>>
    <3>1. /\ f \in Frames /\ f.at = "recv" /\ f.p = Top.p
          /\ g \in Frames /\ g.at = "replace" /\ g.p = Top.p
      <4>1. Top.p \in Pids \cup {0}
        BY <1>1, TopType DEF IInv
      <4> QED
        BY <4>1, FrameType DEF Steps, RecvOf
    <3>2. stack' = fs \o Tail(stack)
      BY <1>2 DEF VerifyDead, Continue
    <3> HIDE DEF f, g
    <3>3. fs \in Seq(Frames) /\ DOMAIN fs = {1, 2} /\ fs[1] = f /\ fs[2] = g
      BY <3>1, TwoFrames
    <3>4. ~settled'
      BY <1>1, <2>1, QuietStack DEF CountInv, Busy
    <3> HIDE DEF fs
    <3> QED
      BY <1>1, <2>1, <3>1, <3>2, <3>3, <3>4, PlaceKept DEF CountInv
  <2> QED
    BY <1>1, <2>1, CountControl
<1>3. CASE ~IsGone(Top.p)
  BY <1>1, <1>3, CountReturn DEF VerifyDead
<1> QED
  BY <1>2, <1>3

LEMMA CheckProcCount == ASSUME IInv, CountInv, CheckProc PROVE CountInv'
<1>1. /\ stack # <<>> /\ Top.at = "procs" /\ Top.todo \subseteq Pids
      /\ UNCHANGED <<life, mq, listed, gen, bounds, reload>> /\ settled' = FALSE
  BY TopType DEF IInv, CheckProc, At, Top, hot, group, procs
<1>2. ASSUME Quiet PROVE InPlace(stack', settled', Senders')
  <2> DEFINE f(p) == Frame("kill", p, 0, {})
             g(p) == Frame("procs", 0, 0, Top.todo \ {p})
  <2>1. PICK p \in Silent : Continue(<<f(p), g(p)>>)
    BY DEF CheckProc
  <2>2. /\ f(p) \in Frames /\ f(p).at = "kill"
        /\ g(p) \in Frames /\ g(p).at = "procs"
    <3>1. p \in Pids /\ Top.todo \ {p} \in SUBSET Pids
      BY <1>1 DEF Silent
    <3> QED
      BY <3>1, FrameType DEF Steps
  <2> DEFINE fs == <<f(p), g(p)>>
  <2>3. stack' = fs \o Tail(stack)
    BY <2>1 DEF Continue
  <2> HIDE DEF f, g
  <2>4. fs \in Seq(Frames) /\ DOMAIN fs = {1, 2} /\ fs[1] = f(p) /\ fs[2] = g(p)
    BY <2>2, TwoFrames
  <2> HIDE DEF fs
  <2> QED
    BY <1>1, <1>2, <2>2, <2>3, <2>4, PlaceKept DEF CountInv
<1> QED
  BY <1>1, <1>2, CountControl

\* check_group forks what is missing, and only when all that were forked before have been
\* heard of or are gone.
LEMMA CheckGroupCount == ASSUME IInv, CountInv, CheckGroup PROVE CountInv'
<1>1. /\ stack # <<>> /\ Top.at = "check"
      /\ UNCHANGED <<sig, mq, listed, count, gen, bounds, reload>>
  BY DEF CheckGroup, At, Top, hot, group
<1>2. Senders' = Senders
  BY <1>1 DEF Senders
<1>3. Started'
  <2>1. \A p \in Pids : life'[p] = life[p] \/ life[p] = "unborn"
    BY DEF CheckGroup, Fork
  <2>2. listed \cup Senders \subseteq Pids
    BY SendersKnown DEF IInv, TypeInv
  <2> QED
    BY <1>1, <1>2, <2>1, <2>2 DEF CountInv, Started
<1>4. ASSUME Quiet PROVE QuietInv'
  <2>1. /\ count = Cardinality(listed) /\ IsFiniteSet(listed) /\ count <= ProcNum /\ count \in Nat
        /\ ProcNum \in Nat
    BY <1>1, <1>4, QuietStack, PidsAssumption DEF CountInv
  <2>2. ~Surplus
    BY <2>1 DEF Surplus
  <2>3. InPlace(stack', settled', Senders')
    <3> DEFINE g == Frame("procs", 0, 0, listed)
               fs == <<g>>
    <3>1. g \in Frames /\ g.at = "procs"
      <4>1. listed \in SUBSET Pids
        BY DEF IInv, TypeInv
      <4> QED
        BY <4>1, FrameType DEF Steps
    <3>2. stack' = fs \o Tail(stack)
      <4>1. Continue(<<>> \o fs)
        BY <2>2 DEF CheckGroup
      <4>2. <<>> \o <<g>> = <<g>>
        BY <3>1, Joined
      <4> QED
        BY <4>1, <4>2 DEF Continue
    <3> HIDE DEF g
    <3>3. fs \in Seq(Frames) /\ DOMAIN fs = {1} /\ fs[1] = g
      BY <3>1, OneFrame
    <3> HIDE DEF fs
    <3>4. \A i \in DOMAIN fs : fs[i].at \notin {"surplus", "drop", "replace"} /\ ~Busy(fs[i])
      BY <3>1, <3>3 DEF Busy
    <3> QED
      BY <1>1, <1>4, <3>2, <3>3, <3>4, PlaceKept DEF CountInv
  <2>4. CASE Missing
    <3>1. settled' = FALSE /\ Fork(ProcNum - count) /\ ProcNum - count \in Nat
      BY <2>1, <2>4 DEF CheckGroup, Missing
    <3>2. Charged \subseteq listed
      BY <1>4, <2>4 DEF CountInv, QuietInv, Missing
    <3>3. Charged' \subseteq listed \cup Newborn
      <4>1. Alive' \subseteq Alive \cup Newborn
        BY <1>1, <3>1, ForkedAlive DEF IInv
      <4> QED
        BY <1>1, <1>2, <3>2, <4>1 DEF Charged
    <3>4. IsFiniteSet(Newborn) /\ Cardinality(Newborn) <= ProcNum - count
      BY <3>1, FewForked
    <3>5. Cardinality(listed) + Cardinality(Newborn) <= ProcNum
      BY <2>1, <3>4, FS_CardinalityType
    <3>6. Few'
      BY <2>1, <3>3, <3>4, <3>5, FewMore DEF Few
    <3>7. Heard'
      <4>1. \A p \in Pids : life'[p] = life[p] \/ life'[p] = "forked"
        BY <3>1 DEF Fork
      <4> QED
        BY <1>1, <1>2, <1>4, <4>1 DEF CountInv, QuietInv, Heard
    <3> QED
      BY <1>1, <1>4, <2>3, <3>1, <3>6, <3>7 DEF CountInv, QuietInv
  <2>5. CASE ~Missing
    <3>1. UNCHANGED <<life, settled>>
      BY <2>2, <2>5 DEF CheckGroup
    <3>2. Charged' = Charged
      BY <1>1, <1>2, <3>1 DEF Charged, Alive
    <3> QED
      BY <1>1, <1>2, <1>4, <2>3, <3>1, <3>2 DEF CountInv, QuietInv, Few, Heard
  <2> QED
    BY <2>4, <2>5
<1>5. Quiet' => Quiet
  BY <1>1 DEF Quiet
<1> QED
  BY <1>3, <1>4, <1>5 DEF CountInv, QuietInv

\* A process takes the place of one that is gone, and of whom nothing more is heard.
LEMMA ReplaceCount == ASSUME IInv, CountInv, Replace PROVE CountInv'
<1>1. /\ stack # <<>> /\ Top.at = "replace"
      /\ UNCHANGED <<sig, mq, gen, bounds, reload, settled>>
  BY DEF Replace, At, Top, hot
<1>2. Senders' = Senders
  BY <1>1 DEF Senders
<1>3. listed' \subseteq listed /\ \A p \in Pids : life'[p] = life[p] \/ life[p] = "unborn"
  BY DEF Replace, Del, Fork
<1>4. Started'
  <2>1. listed \cup Senders \subseteq Pids
    BY SendersKnown DEF IInv, TypeInv
  <2> QED
    BY <1>1, <1>2, <1>3, <2>1 DEF CountInv, Started
<1>5. ASSUME Quiet PROVE QuietInv'
  <2> DEFINE p == Top.p
  <2>1. p \in listed /\ ~settled /\ p \notin Senders /\ ProcNum \in Nat
    BY <1>1, <1>5, QuietStack, PidsAssumption DEF CountInv, Busy
  <2>2. life[p] = "gone" /\ p \in Pids
    BY <1>1, TopType DEF IInv, StackInv, Rests
  <2>3. listed' = listed \ {p} /\ Fork(1) /\ Return
    BY <2>1 DEF Replace, Del
  <2>4. InPlace(stack', settled', Senders')
    <3>1. <<>> \in Seq(Frames) /\ stack' = <<>> \o Tail(stack) /\ DOMAIN <<>> = {}
      BY <1>1, <2>3, NoFrame DEF IInv
    <3>2. \A i \in DOMAIN <<>> :
             /\ <<>>[i].at \notin {"surplus", "drop"}
             /\ Busy(<<>>[i]) => ~settled'
             /\ <<>>[i].at = "replace" => <<>>[1].at = "recv" /\ <<>>[1].p = <<>>[i].p
      BY <3>1
    <3> QED
      BY <1>1, <1>5, <3>1, <3>2, PlaceKept DEF CountInv
  <2> HIDE DEF p
  <2>5. Charged' \subseteq (Charged \ {p}) \cup Newborn
    <3>1. Alive' \subseteq Alive \cup Newborn
      BY <1>1, <2>3, ForkedAlive DEF IInv
    <3>2. p \notin Alive
      BY <2>2 DEF Alive
    <3> QED
      BY <1>2, <2>1, <2>3, <3>1, <3>2 DEF Charged
  <2>6. IsFiniteSet(Newborn) /\ Cardinality(Newborn) <= 1
    BY <2>3, FewForked
  <2>7. /\ IsFiniteSet(Charged \ {p}) /\ Cardinality(Charged \ {p}) = Cardinality(Charged) - 1
        /\ IsFiniteSet(Charged) /\ Cardinality(Charged) <= ProcNum
    <3>1. p \in Charged /\ IsFiniteSet(Charged) /\ Cardinality(Charged) <= ProcNum
      BY <1>5, <2>1 DEF Charged, CountInv, QuietInv, Few
    <3> QED
      BY <3>1, FS_RemoveElement
  <2>8. Cardinality(Charged \ {p}) + Cardinality(Newborn) <= ProcNum
    BY <2>1, <2>6, <2>7, FS_CardinalityType
  <2>9. Few'
    <3> DEFINE S == Charged \ {p}
               T == Charged'
    <3>1. IsFiniteSet(S) /\ T \subseteq S \cup Newborn
          /\ Cardinality(S) + Cardinality(Newborn) <= ProcNum
      BY <2>5, <2>7, <2>8
    <3> HIDE DEF S, T
    <3>2. IsFiniteSet(T) /\ Cardinality(T) <= ProcNum
      BY <2>1, <2>6, <3>1, FewMore
    <3> QED
      BY <3>2 DEF Few, T
  <2>10. Heard'
    <3>1. \A q \in Pids : life'[q] = life[q] \/ life'[q] = "forked"
      BY <2>3 DEF Fork
    <3> QED
      BY <1>2, <1>5, <2>2, <2>3, <3>1 DEF CountInv, QuietInv, Heard
  <2> QED
    BY <1>1, <1>5, <2>1, <2>4, <2>9, <2>10 DEF CountInv, QuietInv
<1>6. Quiet' => Quiet
  BY <1>1 DEF Quiet
<1> QED
  BY <1>4, <1>5, <1>6 DEF CountInv, QuietInv

\* The functions that do not run while all is quiet: no process is one too many, none
\* has reported an exception, and no reload goes on.
LEMMA UnquietCount ==
  ASSUME IInv, CountInv,
         \/ ProcessException \/ TellSurplus \/ Drop
         \/ ReloadStart \/ ReloadWaitNew \/ ReloadKillOld \/ ReloadClear
  PROVE  CountInv'
<1>1. stack # <<>> /\ UNCHANGED <<mq, gen, bounds>>
  BY DEF ProcessException, TellSurplus, Drop, ReloadStart, ReloadWaitNew, ReloadKillOld,
         ReloadClear, CheckReload, At, hot
<1>2. ~Quiet
  <2>1. CASE ProcessException \/ TellSurplus \/ Drop
    <3>1. Top.at \in {"surplus", "drop", "segv_wait"}
      BY <2>1 DEF ProcessException, TellSurplus, Drop, At, Top
    <3> QED
      BY <1>1, <3>1, QuietStack DEF CountInv
  <2>2. CASE ReloadStart \/ ReloadWaitNew \/ ReloadKillOld \/ ReloadClear
    <3>1. reload # PROC_RELOAD_NORMAL
      BY <2>2 DEF ReloadStart, ReloadWaitNew, ReloadKillOld, ReloadClear, CheckReload,
                  PROC_RELOAD_START, PROC_RELOAD_WAIT_NEW, PROC_RELOAD_KILLOLD,
                  PROC_RELOAD_CLEAR, PROC_RELOAD_NORMAL
    <3> QED
      BY <3>1 DEF CountInv, QuietInv
  <2> QED
    BY <2>1, <2>2
<1>3. ~Quiet'
  BY <1>1, <1>2 DEF Quiet
<1>4. Senders' = Senders
  BY <1>1 DEF Senders
<1>5. listed' \subseteq listed
  BY DEF ProcessException, TellSurplus, Drop, Del, ReloadStart, ReloadWaitNew, ReloadKillOld,
         ReloadClear, CheckReload, group
<1>6. \A p \in Pids : life'[p] = life[p] \/ life[p] = "unborn" \/ life'[p] = "gone"
  BY DEF ProcessException, TellSurplus, Drop, ReloadStart, ReloadWaitNew, ReloadKillOld,
         ReloadClear, Fork, procs
<1>7. listed \cup Senders \subseteq Pids
  BY SendersKnown DEF IInv, TypeInv
<1> QED
  BY <1>1, <1>3, <1>4, <1>5, <1>6, <1>7 DEF CountInv, Started, QuietInv

LEMMA ReturnsCount ==
  ASSUME IInv, CountInv, CheckUnused \/ SurplusTold \/ ProcsChecked
  PROVE  CountInv'
<1>1. /\ stack # <<>> /\ Top.at \in {"check", "surplus", "procs"} /\ Return
      /\ UNCHANGED <<life, mq, listed, gen, bounds, reload, settled>>
  BY DEF CheckUnused, SurplusTold, ProcsChecked, At, Top, hot, group, procs
<1> QED
  BY <1>1, CountReturn

LEMMA RunCount == ASSUME IInv, CountInv, Run PROVE CountInv'
<1>1. UNCHANGED <<life, mq, listed, gen, bounds, reload, settled>>
  BY DEF Run, procs, group, hot
<1>2. InPlace(stack', settled', Senders')
  <2>1. \A i \in DOMAIN stack' : stack'[i].at \in {"recv", "check", "signals"}
    BY DEF Run, RecvAll, DoCheck, Frame
  <2> QED
    BY <2>1 DEF InPlace, Busy
<1>3. Senders' = Senders /\ Charged' = Charged
  BY <1>1 DEF Senders, Charged, Alive
<1>4. Quiet' => Quiet
  BY <1>1 DEF Quiet
<1> QED
  BY <1>1, <1>2, <1>3, <1>4 DEF CountInv, Started, QuietInv, Few, Heard

LEMMA RecvDoneCount == ASSUME IInv, CountInv, RecvDone PROVE CountInv'
<1>1. /\ stack # <<>> /\ Top.at = "recv" /\ NextMsg = 0 /\ Return
      /\ UNCHANGED <<life, mq, listed, gen, bounds, reload, settled>>
  BY DEF RecvDone, At, Top, hot, group, procs
<1>2. Senders' = Senders /\ Charged' = Charged
  BY <1>1 DEF Senders, Charged, Alive
<1>3. Top.p \notin Senders
  <2> SUFFICES ASSUME Top.p \in Senders PROVE FALSE
    OBVIOUS
  <2> DEFINE mine == {i \in DOMAIN mq : Top.p \in {0, mq[i].pid}}
  <2>1. mine # {}
    BY DEF Senders
  <2>2. mine \in SUBSET Nat /\ \A i \in mine : i > 0
    <3>1. mq \in Seq(Messages)
      BY DEF IInv, TypeInv
    <3>2. DOMAIN mq = 1..Len(mq) /\ Len(mq) \in Nat
      BY <3>1, LenProperties
    <3> QED
      BY <3>2
  <2>3. 0 = CHOOSE i \in mine : \A j \in mine : i <= j
    BY <1>1, <2>1 DEF NextMsg
  <2> HIDE DEF mine
  <2>4. \E i \in mine : \A j \in mine : i <= j
    BY <2>1, <2>2, Least
  <2>5. 0 \in mine
    BY <2>3, <2>4
  <2> QED
    BY <2>2, <2>5
<1>4. ASSUME InPlace(stack, settled, Senders) PROVE InPlace(stack', settled', Senders')
  <2>1. /\ stack \in Seq(Frames) /\ stack' = Tail(stack) /\ Top = stack[1]
    BY <1>1, TopType DEF IInv, TypeInv, Return
  <2>2. \A i \in DOMAIN stack' : i + 1 \in DOMAIN stack /\ stack'[i] = stack[i + 1]
    <3>1. /\ stack' \in Seq(Frames) /\ Len(stack') = Len(stack) - 1
          /\ \A i \in 1..Len(stack') : stack'[i] = stack[i + 1]
      BY <1>1, <2>1, HeadTailProperties
    <3>2. /\ DOMAIN stack' = 1..Len(stack') /\ Len(stack') \in Nat
          /\ DOMAIN stack = 1..Len(stack) /\ Len(stack) \in Nat
      BY <2>1, <3>1, LenProperties
    <3> QED
      BY <3>1, <3>2
  <2>3. ASSUME NEW i \in DOMAIN stack'
        PROVE  /\ stack'[i].at \notin {"surplus", "drop"}
               /\ Busy(stack'[i]) => ~settled'
               /\ stack'[i].at = "replace" => stack'[i].p \notin Senders'
    BY <1>1, <1>2, <1>3, <1>4, <2>1, <2>2 DEF InPlace
  <2> QED
    BY <2>3 DEF InPlace
<1>5. Quiet' => Quiet
  BY <1>1 DEF Quiet
<1> QED
  BY <1>1, <1>2, <1>4, <1>5 DEF CountInv, Started, QuietInv, Few, Heard

\* What is read goes on the list: nobody is charged who was not.
LEMMA RecvCount == ASSUME IInv, CountInv, Recv PROVE CountInv'
<1> DEFINE msg == mq[NextMsg]
<1>1. /\ stack # <<>> /\ Top.at = "recv" /\ NextMsg > 0 /\ mq' = Without(NextMsg)
      /\ UNCHANGED <<life, gen, bounds, reload, settled>>
  BY DEF Recv, At, Top, procs, hot
<1>2. /\ msg.pid \in Senders /\ Senders' \subseteq Senders
      /\ Senders \subseteq Senders' \cup {msg.pid}
  BY <1>1, ReadFrom
<1>3. NextMsg \in DOMAIN mq
  BY <1>1, Received DEF IInv
<1>4. listed' \subseteq listed \cup {msg.pid}
  BY DEF Recv, Note, group
<1>5. ASSUME Quiet
      PROVE  /\ listed' = listed \cup {msg.pid} /\ UNCHANGED stack
             /\ msg.pid \in listed => UNCHANGED count
  <2>1. count \in Nat /\ GROUP_UNUSED \notin Nat
    BY <1>1, <1>5, QuietStack DEF CountInv, GROUP_UNUSED
  <2>2. msg.kind # "exception"
    BY <1>3, <1>5 DEF IInv, Calm, Quiet, NoneReported
  <2>3. Note(msg) /\ UNCHANGED stack
    BY <2>1, <2>2 DEF Recv
  <2>4. IsNew(msg)
    BY <1>5 DEF CountInv, QuietInv, IsNew
  <2> HIDE DEF msg
  <2> QED
    BY <2>3, <2>4 DEF Note
<1> HIDE DEF msg
<1>6. Started'
  BY <1>1, <1>2, <1>4 DEF CountInv, Started
<1>7. ASSUME Quiet PROVE QuietInv'
  <2>1. Charged' \subseteq Charged
    BY <1>1, <1>2, <1>4 DEF Charged, Alive
  <2>2. Few'
    <3>1. IsFiniteSet(Charged) /\ Cardinality(Charged) <= ProcNum
      BY <1>7 DEF CountInv, QuietInv, Few
    <3>2. IsFiniteSet(Charged') /\ Cardinality(Charged') <= Cardinality(Charged)
      BY <2>1, <3>1, FS_Subset
    <3>3. Cardinality(Charged) \in Nat /\ Cardinality(Charged') \in Nat /\ ProcNum \in Nat
      BY <3>1, <3>2, FS_CardinalityType, PidsAssumption
    <3> QED
      BY <3>1, <3>2, <3>3 DEF Few
  <2>3. Heard'
    BY <1>1, <1>2, <1>5, <1>7 DEF CountInv, QuietInv, Heard
  <2>4. settled' => Charged' \subseteq listed'
    BY <1>1, <1>5, <1>7, <2>1 DEF CountInv, QuietInv
  <2>5. InPlace(stack', settled', Senders')
    BY <1>1, <1>2, <1>5, <1>7 DEF CountInv, QuietInv, InPlace
  <2> QED
    BY <1>1, <1>7, <2>2, <2>3, <2>4, <2>5 DEF CountInv, QuietInv
<1>8. Quiet' => Quiet
  BY <1>1 DEF Quiet
<1> QED
  BY <1>6, <1>7, <1>8 DEF CountInv, QuietInv

LEMMA ControllerCount == ASSUME IInv, CountInv, Controller PROVE CountInv'
  BY RunCount, CheckSignalsCount, RecvCount, RecvDoneCount, KillDeadCount, VerifyDeadCount,
     ReplaceCount, CheckGroupCount, CheckProcCount, ReturnsCount, UnquietCount
     DEF Controller

LEMMA InitCount == ASSUME Init PROVE CountInv
<1>1. Senders = {} /\ Alive = {} /\ listed = {} /\ stack = <<>> /\ gen = 0
  BY DEF Init, Senders, Alive
<1>2. Charged = {}
  BY <1>1 DEF Charged
<1>3. Few
  BY <1>2, FS_EmptySet, PidsAssumption DEF Few
<1>4. Heard
  BY DEF Init, Heard
<1>5. InPlace(stack, settled, Senders)
  BY <1>1 DEF InPlace
<1>6. reload = PROC_RELOAD_NORMAL
  BY DEF Init
<1> QED
  BY <1>1, <1>2, <1>3, <1>4, <1>5, <1>6 DEF CountInv, Started, QuietInv

LEMMA NextCount == ASSUME IInv, CountInv, [Next]_vars PROVE CountInv'
<1>1. CASE Next
  BY <1>1, ControllerCount, WorkerCount, TimeCount, AskCount DEF Next
<1>2. CASE UNCHANGED vars
  <2>1. UNCHANGED <<life, mq, listed, reload, settled, stack, gen, bounds>>
    BY <1>2 DEF vars, procs, group, hot
  <2>2. Quiet' => Quiet
    BY <2>1 DEF Quiet
  <2> QED
    BY <2>1, <2>2, CountSame
<1> QED
  BY <1>1, <1>2

LEMMA CountInvariant == Spec => []CountInv
  BY InitCount, NextCount, Invariant, PTL DEF Spec

(* As long as no exception was reported, nothing was slow and no reload has begun, there
   are never more processes than were asked for, for any set of them, however many are
   killed or hang and whatever reports come late: the place of a process is only filled
   when it is gone and all it had sent has been read, and check_group only forks what is
   missing when everybody forked before is on the list or gone. *)
THEOREM GroupKeepsSize == Spec => []NeverTooMany
<1>1. ASSUME IInv, CountInv PROVE NeverTooMany
  <2> SUFFICES ASSUME Quiet PROVE Cardinality(Alive) <= ProcNum
    BY DEF NeverTooMany, Quiet
  <2>1. IsFiniteSet(Charged) /\ Cardinality(Charged) <= ProcNum /\ ProcNum \in Nat
    BY <1>1, PidsAssumption DEF CountInv, QuietInv, Few
  <2>2. Alive \in SUBSET Charged
    BY DEF Charged
  <2>3. IsFiniteSet(Alive) /\ Cardinality(Alive) <= Cardinality(Charged)
    BY <2>1, <2>2, FS_Subset
  <2>4. Cardinality(Alive) \in Nat /\ Cardinality(Charged) \in Nat
    BY <2>1, <2>3, FS_CardinalityType
  <2> QED
    BY <2>1, <2>3, <2>4
<1> QED
  BY <1>1, Invariant, CountInvariant, PTL

-----------------------------------------------------------------------------
(* The first reload. *)

\* Nothing has failed or been slow, and no reload has begun: nobody was told to exit, the
\* controller has nobody to deal with, and a reload that was asked for finds the group
\* complete and known.
Peace == Quiet /\ bounds["killed"] = 0 /\ bounds["hangs"] = 0
Working(f) == f.at \in {"recv", "check", "signals", "procs"}
PeaceInv ==
  Peace => /\ \A p \in Pids : sig[p] = {} /\ life[p] \in {"unborn", "forked", "init", "up"}
           /\ stale = {}
           /\ \A i \in DOMAIN stack : Working(stack[i])
           /\ hup /\ ~Hasty => Charged \subseteq listed /\ count = ProcNum

\* In the first reload those who were forked before it are tagged.
OldTagged ==
  ~Hasty /\ gen = 1 /\ NoFailures /\ bounds["slow"] = 0 =>
    \A p \in Alive : born[p] = gen \/ p \in tag

FirstInv == PeaceInv /\ OldTagged

LEMMA StillPeace ==
  ASSUME IInv, UNCHANGED gen, UNCHANGED bounds \/ \E b \in Counters : \E max : Counted(b, max)
  PROVE  /\ Peace' => Peace
         /\ (NoFailures /\ bounds["slow"] = 0)' => NoFailures /\ bounds["slow"] = 0
<1>1. CASE UNCHANGED bounds
  BY <1>1 DEF Quiet, Peace, NoFailures
<1>2. CASE \E b \in Counters : \E max : Counted(b, max)
  <2>1. \A c \in Counters : bounds[c] \in Nat /\ bounds'[c] \in {bounds[c], bounds[c] + 1}
    BY <1>2, CountedUp DEF IInv, TypeInv
  <2>2. {"segvs", "slow", "killed", "hangs"} \subseteq Counters
    BY DEF Counters
  <2>3. \A c \in {"segvs", "slow", "killed", "hangs"} : bounds'[c] = 0 => bounds[c] = 0
    BY <2>1, <2>2
  <2> QED
    BY <2>3 DEF Quiet, Peace, NoFailures
<1> QED
  BY <1>1, <1>2

\* Nobody who was forked before a reload comes back, and tags stay.
LEMMA StillTagged ==
  ASSUME OldTagged, UNCHANGED <<gen, born, tag>>, Alive' \subseteq Alive,
         (NoFailures /\ bounds["slow"] = 0)' => NoFailures /\ bounds["slow"] = 0
  PROVE  OldTagged'
  BY DEF OldTagged, NoFailures

LEMMA ForkTagged ==
  ASSUME IInv, OldTagged, NEW n, Fork(n), UNCHANGED <<sig, gen, tag, bounds>>
  PROVE  OldTagged'
<1>1. Alive' \subseteq Alive \cup Newborn
  BY ForkedAlive DEF IInv
<1>2. \A p \in Pids : IF p \in Newborn THEN born'[p] = gen ELSE p \in Alive' => born'[p] = born[p]
  BY DEF Fork, Newborn, Alive
<1>3. Alive' \subseteq Pids
  BY DEF Alive
<1> QED
  BY <1>1, <1>2, <1>3 DEF OldTagged, NoFailures

\* The processes: none fails while all is at peace, and none is new to the list.
LEMMA WorkerFirst ==
  ASSUME IInv, CountInv, FirstInv, NEW p \in Pids,
         Starts(p) \/ Loop(p) \/ Recover(p) \/ Dies(p) \/ Fails(p)
  PROVE  FirstInv'
<1>1. /\ UNCHANGED <<listed, stale, count, reload, gen, tag, stack, hup, sig, born>>
      /\ UNCHANGED bounds \/ \E b \in Counters : \E max : Counted(b, max)
  <2>1. UNCHANGED <<controller, sig, born>>
    BY DEF Starts, FirstReport, InitDone, Loop, Report, LateReport, Quit, Recover,
           Dies, ReportException, Die, Fails, Hang, Killed, Segv, procs
  <2>2. UNCHANGED bounds \/ \E b \in Counters : \E max : Counted(b, max)
    BY DEF Starts, FirstReport, InitDone, Loop, Report, LateReport, Quit, Recover,
           Dies, ReportException, Die, Fails, Hang, Killed, Segv, Counters
  <2> QED
    BY <2>1, <2>2 DEF controller, group, hot
<1>2. /\ Peace' => Peace
      /\ (NoFailures /\ bounds["slow"] = 0)' => NoFailures /\ bounds["slow"] = 0
  BY <1>1, StillPeace
<1>3. Alive' \subseteq Alive
  <2>1. life[p] \notin {"unborn", "gone"}
    BY DEF Starts, FirstReport, InitDone, Loop, Report, LateReport, Quit, Recover,
           Dies, ReportException, Die, Fails, Hang, Killed, Segv, Become, Alive
  <2>2. \A q \in Pids : q # p => life'[q] = life[q]
    BY DEF Starts, FirstReport, InitDone, Loop, Report, LateReport, Quit, Recover,
           Dies, ReportException, Die, Fails, Hang, Killed, Segv, Become, procs, IInv, TypeInv
  <2> QED
    BY <2>1, <2>2 DEF Alive
<1>4. OldTagged'
  BY <1>1, <1>2, <1>3, StillTagged DEF FirstInv
<1>5. ASSUME Peace' PROVE PeaceInv'
  <2>1. /\ \A q \in Pids : sig[q] = {} /\ life[q] \in {"unborn", "forked", "init", "up"}
        /\ stale = {}
        /\ \A i \in DOMAIN stack : Working(stack[i])
        /\ hup /\ ~Hasty => Charged \subseteq listed /\ count = ProcNum
    BY <1>2, <1>5 DEF FirstInv, PeaceInv
  <2>2. ~\E b \in {"killed", "hangs", "segvs"} : \E max : Counted(b, max)
    <3>1. ASSUME NEW b \in {"killed", "hangs", "segvs"}, NEW max, Counted(b, max) PROVE FALSE
      <4>1. b \in Counters
        BY DEF Counters
      <4>2. bounds'[b] = bounds[b] + 1 /\ bounds[b] \in Nat
        BY <3>1, <4>1, CountedUp DEF IInv, TypeInv
      <4> QED
        BY <4>2, <1>5 DEF Peace, Quiet
    <3> QED
      BY <3>1
  <2>3. FirstReport(p) \/ InitDone(p) \/ Report(p)
    BY <2>1, <2>2 DEF Starts, Loop, LateReport, Quit, Recover, Dies, ReportException, Die,
                      Fails, Hang, Killed, Segv, Become
  <2>4. /\ \A q \in Pids : life'[q] \in {"unborn", "forked", "init", "up"}
        /\ p \in Alive
    BY <2>1, <2>3 DEF FirstReport, InitDone, Report, Become, procs, IInv, TypeInv, Alive
  <2>5. Senders' \subseteq Senders \cup {p}
    <3>1. CASE FirstReport(p)
      BY <3>1, SentBy DEF FirstReport, Kinds
    <3>2. CASE Report(p)
      BY <3>2, SentBy DEF Report, Kinds
    <3>3. CASE InitDone(p)
      BY <3>3 DEF InitDone, Senders
    <3> QED
      BY <2>3, <3>1, <3>2, <3>3
  <2>6. Charged' \subseteq Charged
    BY <1>1, <1>3, <2>4, <2>5 DEF Charged
  <2> QED
    BY <1>1, <2>1, <2>4, <2>6 DEF PeaceInv
<1> QED
  BY <1>4, <1>5 DEF FirstInv, PeaceInv

LEMMA TimeFirst == ASSUME IInv, CountInv, FirstInv, TimePasses PROVE FirstInv'
<1>1. /\ UNCHANGED <<life, sig, born, mq, listed, count, tag, gen, hup, stack>>
      /\ UNCHANGED bounds \/ \E b \in Counters : \E max : Counted(b, max)
  BY DEF TimePasses, Expire, AdjustDelayPasses, ReloadDelayPasses, procs, group, hot, Counters
<1>2. /\ Peace' => Peace
      /\ (NoFailures /\ bounds["slow"] = 0)' => NoFailures /\ bounds["slow"] = 0
  BY <1>1, StillPeace
<1>3. Alive' = Alive /\ Senders' = Senders /\ Charged' = Charged
  BY <1>1 DEF Alive, Senders, Charged
<1>4. OldTagged'
  BY <1>1, <1>2, <1>3, StillTagged DEF FirstInv
<1>5. ASSUME Peace', NEW p \in Pids, Expire(p) PROVE FALSE
  <2>1. p \in listed /\ life[p] # "up" /\ (life[p] = "init" => Counted("slow", MaxSlow))
    BY <1>5 DEF Expire
  <2>2. life[p] = "init"
    BY <1>2, <1>5, <2>1 DEF FirstInv, PeaceInv, CountInv, Started
  <2>3. bounds'["slow"] = bounds["slow"] + 1 /\ bounds["slow"] \in Nat
    BY <2>1, <2>2, CountedUp DEF IInv, TypeInv, Counters
  <2> QED
    BY <1>5, <2>3 DEF Peace, Quiet
<1>6. Peace' => UNCHANGED stale
  BY <1>5 DEF TimePasses, AdjustDelayPasses, ReloadDelayPasses, group
<1> QED
  BY <1>1, <1>2, <1>3, <1>4, <1>6 DEF FirstInv, PeaceInv

LEMMA AskFirst == ASSUME IInv, CountInv, FirstInv, AskReload PROVE FirstInv'
<1>1. /\ UNCHANGED <<life, sig, born, mq, listed, stale, count, tag, gen, stack>>
      /\ \E b \in Counters : \E max : Counted(b, max)
      /\ Hasty \/ (AllHeardOf /\ count = ProcNum)
  BY DEF AskReload, procs, group, hot, Counters
<1>2. /\ Peace' => Peace
      /\ (NoFailures /\ bounds["slow"] = 0)' => NoFailures /\ bounds["slow"] = 0
  BY <1>1, StillPeace
<1>3. Alive' = Alive /\ Senders' = Senders /\ Charged' = Charged
  BY <1>1 DEF Alive, Senders, Charged
<1>4. OldTagged'
  BY <1>1, <1>2, <1>3, StillTagged DEF FirstInv
<1>5. ASSUME Peace, ~Hasty PROVE Charged \subseteq listed
  BY <1>1, <1>5, HeardOfAll DEF Peace, CountInv, QuietInv
<1> QED
  BY <1>1, <1>2, <1>3, <1>4, <1>5 DEF FirstInv, PeaceInv

\* What the controller does in peace.
LEMMA PeaceStack ==
  ASSUME IInv, CountInv, PeaceInv, Peace, stack # <<>>
  PROVE  /\ Working(Top) /\ reload = PROC_RELOAD_NORMAL
         /\ ~Surplus /\ Silent = {}
         /\ count \in Nat
<1>1. Top = stack[1] /\ 1 \in DOMAIN stack /\ count <= ProcNum /\ count \in Nat
  BY QuietStack DEF Peace, CountInv
<1>2. Working(Top) /\ stale = {}
  BY <1>1 DEF PeaceInv
<1> QED
  BY <1>1, <1>2, PidsAssumption DEF Peace, CountInv, QuietInv, Surplus, Silent

LEMMA WorkKept ==
  ASSUME IInv, stack # <<>>, NEW fs \in Seq(Frames), stack' = fs \o Tail(stack),
         \A i \in DOMAIN fs : Working(fs[i]), \A i \in DOMAIN stack : Working(stack[i])
  PROVE  \A i \in DOMAIN stack' : Working(stack'[i])
<1>1. stack \in Seq(Frames)
  BY DEF IInv, TypeInv
<1>2. /\ DOMAIN stack' = 1..Len(stack') /\ Len(stack') \in Nat
      /\ Len(fs) \in Nat /\ DOMAIN fs = 1..Len(fs)
      /\ \A i \in DOMAIN fs : i \in DOMAIN stack' /\ stack'[i] = fs[i]
      /\ \A i \in DOMAIN stack' : i > Len(fs) =>
           i - Len(fs) + 1 \in DOMAIN stack /\ stack'[i] = stack[i - Len(fs) + 1]
  BY <1>1, Exchanged
<1>3. \A i \in DOMAIN stack' : i \in DOMAIN fs \/ i > Len(fs)
  BY <1>2
<1> QED
  BY <1>2, <1>3

\* A step that leaves the processes, the group and the wish for a reload as they are.
LEMMA PeaceControl ==
  ASSUME PeaceInv, Peace => /\ \A i \in DOMAIN stack' : Working(stack'[i])
                            /\ UNCHANGED <<life, sig, stale, listed, count, mq>>
                            /\ hup' => hup,
         UNCHANGED <<gen, bounds>>
  PROVE  PeaceInv'
<1>1. Peace' => Peace
  BY DEF Peace, Quiet
<1>2. UNCHANGED <<life, listed, mq>> => Charged' = Charged
  BY DEF Charged, Alive, Senders
<1> QED
  BY <1>1, <1>2 DEF PeaceInv

LEMMA SignalsFirst == ASSUME IInv, CountInv, FirstInv, CheckSignals PROVE FirstInv'
<1>1. /\ stack # <<>> /\ Top.at = "signals"
      /\ UNCHANGED <<life, sig, born, mq, bounds>>
  BY DEF CheckSignals, At, Top, procs
<1>2. Alive' = Alive
  BY <1>1 DEF Alive
<1>3. CASE hup
  <2>1. tag' = listed /\ gen' = gen + 1 /\ gen \in Nat
    BY <1>3 DEF CheckSignals, TagsOf, CountInv, Started
  <2>2. PeaceInv'
    BY <2>1 DEF PeaceInv, Peace, Quiet
  <2>3. OldTagged'
    <3> SUFFICES ASSUME ~Hasty, gen' = 1, NoFailures', bounds'["slow"] = 0
                 PROVE  \A p \in Alive' : p \in tag'
      BY DEF OldTagged
    <3>1. Peace
      BY <1>1, <2>1 DEF Peace, Quiet, NoFailures
    <3> QED
      BY <1>2, <1>3, <2>1, <3>1 DEF FirstInv, PeaceInv, Charged
  <2> QED
    BY <2>2, <2>3 DEF FirstInv
<1>4. CASE ~hup
  <2>1. Return /\ UNCHANGED <<listed, stale, count, tag, gen>> /\ ~hup'
    BY <1>4 DEF CheckSignals, group, hot
  <2>2. <<>> \in Seq(Frames) /\ stack' = <<>> \o Tail(stack) /\ DOMAIN <<>> = {}
    BY <1>1, <2>1, NoFrame DEF IInv
  <2>3. \A i \in DOMAIN <<>> : Working(<<>>[i])
    BY <2>2
  <2>4. Peace => \A i \in DOMAIN stack' : Working(stack'[i])
    BY <1>1, <2>2, <2>3, WorkKept DEF FirstInv, PeaceInv
  <2>5. PeaceInv'
    BY <1>1, <2>1, <2>4, PeaceControl DEF FirstInv
  <2>6. OldTagged'
    BY <1>1, <1>2, <2>1, StillTagged DEF FirstInv, NoFailures
  <2> QED
    BY <2>5, <2>6 DEF FirstInv
<1> QED
  BY <1>3, <1>4

LEMMA RecvFirst == ASSUME IInv, CountInv, FirstInv, Recv PROVE FirstInv'
<1> DEFINE msg == mq[NextMsg]
<1>1. /\ stack # <<>> /\ Top.at = "recv" /\ NextMsg > 0 /\ mq' = Without(NextMsg)
      /\ UNCHANGED <<life, sig, born, gen, bounds, tag, hup>>
  BY DEF Recv, At, Top, procs, hot
<1>2. msg.pid \in Senders /\ Senders' \subseteq Senders
  BY <1>1, ReadFrom
<1>3. NextMsg \in DOMAIN mq
  BY <1>1, Received DEF IInv
<1>4. Alive' = Alive
  BY <1>1 DEF Alive
<1>5. OldTagged'
  BY <1>1, <1>4, StillTagged DEF FirstInv, NoFailures
<1>6. ASSUME Peace PROVE PeaceInv'
  <2>1. count \in Nat /\ GROUP_UNUSED \notin Nat
    BY <1>1, <1>6, PeaceStack DEF FirstInv, GROUP_UNUSED
  <2>2. msg.kind # "exception"
    BY <1>3, <1>6 DEF IInv, Calm, Peace, Quiet, NoneReported
  <2>3. Note(msg) /\ UNCHANGED stack
    BY <2>1, <2>2 DEF Recv
  <2>4. stale = {}
    BY <1>6 DEF FirstInv, PeaceInv
  <2> HIDE DEF msg
  <2>5. stale' = {} /\ (msg.pid \in listed => UNCHANGED <<listed, count>>)
    BY <2>3, <2>4 DEF Note, group
  <2>6. ASSUME hup, ~Hasty PROVE Charged' \subseteq listed' /\ count' = ProcNum
    <3>1. Charged \subseteq listed /\ count = ProcNum
      BY <1>6, <2>6 DEF FirstInv, PeaceInv
    <3> QED
      BY <1>2, <1>4, <2>5, <3>1 DEF Charged
  <2> QED
    BY <1>1, <1>6, <2>3, <2>5, <2>6 DEF FirstInv, PeaceInv
<1>7. Peace' => Peace
  BY <1>1 DEF Peace, Quiet
<1> QED
  BY <1>5, <1>6, <1>7 DEF FirstInv, PeaceInv

LEMMA GroupFirst == ASSUME IInv, CountInv, FirstInv, CheckGroup PROVE FirstInv'
<1>1. /\ stack # <<>> /\ Top.at = "check"
      /\ UNCHANGED <<sig, mq, listed, stale, count, gen, tag, hup, bounds>>
      /\ Missing => Fork(ProcNum - count)
      /\ ~Missing => UNCHANGED <<life, born>>
  BY DEF CheckGroup, At, Top, hot, group
<1>2. OldTagged'
  <2>1. CASE Missing
    BY <1>1, <2>1, ForkTagged DEF FirstInv
  <2>2. CASE ~Missing
    <3>1. Alive' = Alive
      BY <1>1, <2>2 DEF Alive
    <3> QED
      BY <1>1, <2>2, <3>1, StillTagged DEF FirstInv, NoFailures
  <2> QED
    BY <2>1, <2>2
<1>3. ASSUME Peace PROVE PeaceInv'
  <2>1. ~Surplus
    BY <1>1, <1>3, PeaceStack DEF FirstInv
  <2>2. \A i \in DOMAIN stack' : Working(stack'[i])
    <3> DEFINE g == Frame("procs", 0, 0, listed)
               fs == <<g>>
    <3>1. g \in Frames /\ g.at = "procs"
      <4>1. listed \in SUBSET Pids
        BY DEF IInv, TypeInv
      <4> QED
        BY <4>1, FrameType DEF Steps
    <3>2. stack' = fs \o Tail(stack)
      <4>1. Continue(<<>> \o fs)
        BY <2>1 DEF CheckGroup
      <4>2. <<>> \o <<g>> = <<g>>
        BY <3>1, Joined
      <4> QED
        BY <4>1, <4>2 DEF Continue
    <3> HIDE DEF g
    <3>3. fs \in Seq(Frames) /\ DOMAIN fs = {1} /\ fs[1] = g
      BY <3>1, OneFrame
    <3> HIDE DEF fs
    <3>4. \A i \in DOMAIN fs : Working(fs[i])
      BY <3>1, <3>3 DEF Working
    <3> QED
      BY <1>1, <1>3, <3>2, <3>3, <3>4, WorkKept DEF FirstInv, PeaceInv
  <2>3. \A p \in Pids : life'[p] \in {life[p], "forked"}
    BY <1>1 DEF Fork
  <2>4. ASSUME hup, ~Hasty PROVE Charged' \subseteq listed /\ count = ProcNum
    <3>1. Charged \subseteq listed /\ count = ProcNum /\ ProcNum \in Nat
      BY <1>3, <2>4, PidsAssumption DEF FirstInv, PeaceInv
    <3>2. ~Missing
      BY <3>1 DEF Missing
    <3> QED
      BY <1>1, <3>1, <3>2 DEF Charged, Alive, Senders
  <2> QED
    BY <1>1, <1>3, <2>2, <2>3, <2>4 DEF FirstInv, PeaceInv
<1>4. Peace' => Peace
  BY <1>1 DEF Peace, Quiet
<1> QED
  BY <1>2, <1>3, <1>4 DEF FirstInv, PeaceInv

\* The functions that only return.
LEMMA ReturnsFirst ==
  ASSUME IInv, CountInv, FirstInv, RecvDone \/ CheckUnused \/ ProcsChecked
  PROVE  FirstInv'
<1>1. /\ stack # <<>> /\ Return
      /\ UNCHANGED <<life, sig, born, mq, listed, stale, count, gen, tag, hup, bounds>>
  BY DEF RecvDone, CheckUnused, ProcsChecked, At, procs, group, hot
<1>2. <<>> \in Seq(Frames) /\ stack' = <<>> \o Tail(stack) /\ DOMAIN <<>> = {}
  BY <1>1, NoFrame DEF IInv
<1>3. \A i \in DOMAIN <<>> : Working(<<>>[i])
  BY <1>2
<1>4. Peace => \A i \in DOMAIN stack' : Working(stack'[i])
  BY <1>1, <1>2, <1>3, WorkKept DEF FirstInv, PeaceInv
<1>5. PeaceInv'
  BY <1>1, <1>4, PeaceControl DEF FirstInv
<1>6. Alive' = Alive
  BY <1>1 DEF Alive
<1> QED
  BY <1>1, <1>5, <1>6, StillTagged DEF FirstInv, NoFailures

LEMMA RunFirst == ASSUME IInv, CountInv, FirstInv, Run PROVE FirstInv'
<1>1. UNCHANGED <<life, sig, born, mq, listed, stale, count, gen, tag, hup, bounds>>
  BY DEF Run, procs, group, hot
<1>2. \A i \in DOMAIN stack' : Working(stack'[i])
  BY DEF Run, RecvAll, DoCheck, Frame, Working
<1>3. PeaceInv'
  BY <1>1, <1>2, PeaceControl DEF FirstInv
<1>4. Alive' = Alive
  BY <1>1 DEF Alive
<1> QED
  BY <1>1, <1>3, <1>4, StillTagged DEF FirstInv, NoFailures

\* What the controller has no cause to do in peace.
LEMMA OthersFirst ==
  ASSUME IInv, CountInv, FirstInv,
         \/ ProcessException \/ KillDead \/ VerifyDead \/ Replace
         \/ TellSurplus \/ Drop \/ SurplusTold \/ CheckProc
         \/ ReloadStart \/ ReloadWaitNew \/ ReloadKillOld \/ ReloadClear
  PROVE  FirstInv'
<1>1. stack # <<>> /\ UNCHANGED <<gen, bounds>>
  BY DEF ProcessException, KillDead, VerifyDead, Replace, TellSurplus, Drop, SurplusTold,
         CheckProc, ReloadStart, ReloadWaitNew, ReloadKillOld, ReloadClear, CheckReload,
         At, hot
<1>2. ~Peace
  <2>1. CASE \/ ProcessException \/ KillDead \/ VerifyDead \/ Replace
             \/ TellSurplus \/ Drop \/ SurplusTold \/ CheckProc
    <3>1. ~Working(Top) \/ Silent # {}
      BY <2>1 DEF ProcessException, KillDead, VerifyDead, Replace, TellSurplus, Drop,
                  SurplusTold, CheckProc, At, Top, Working
    <3> QED
      BY <1>1, <3>1, PeaceStack DEF FirstInv
  <2>2. CASE ReloadStart \/ ReloadWaitNew \/ ReloadKillOld \/ ReloadClear
    <3>1. reload # PROC_RELOAD_NORMAL
      BY <2>2 DEF ReloadStart, ReloadWaitNew, ReloadKillOld, ReloadClear, CheckReload,
                  PROC_RELOAD_START, PROC_RELOAD_WAIT_NEW, PROC_RELOAD_KILLOLD,
                  PROC_RELOAD_CLEAR, PROC_RELOAD_NORMAL
    <3> QED
      BY <1>1, <3>1, PeaceStack DEF FirstInv
  <2> QED
    BY <2>1, <2>2
<1>3. PeaceInv'
  BY <1>1, <1>2 DEF PeaceInv, Peace, Quiet
<1>4. OldTagged'
  <2>1. CASE Replace /\ Fork(1)
    <3>1. UNCHANGED <<sig, tag>>
      BY <2>1 DEF Replace, hot
    <3> QED
      BY <1>1, <2>1, <3>1, ForkTagged DEF FirstInv
  <2>2. CASE ReloadStart
    <3>1. Fork(ProcNum) /\ UNCHANGED <<sig, tag>>
      BY <2>2 DEF ReloadStart
    <3> QED
      BY <1>1, <3>1, ForkTagged DEF FirstInv
  <2>3. CASE ReloadClear /\ OldGone
    <3>1. UNCHANGED <<life, born>> /\ \A p \in tag : life[p] = "gone"
      BY <2>3 DEF ReloadClear, OldGone
    <3>2. Alive' = Alive /\ \A p \in tag : p \notin Alive
      BY <3>1 DEF Alive
    <3> QED
      BY <1>1, <3>1, <3>2 DEF FirstInv, OldTagged, NoFailures
  <2>4. CASE ReloadClear /\ ~OldGone
    <3>1. UNCHANGED <<born, tag>> /\ \A p \in Pids : life'[p] \in {life[p], "gone"}
      BY <2>4 DEF ReloadClear
    <3>2. Alive' \subseteq Alive
      BY <3>1 DEF Alive
    <3> QED
      BY <1>1, <3>1, <3>2, StillTagged DEF FirstInv, NoFailures
  <2>5. CASE ~(Replace /\ Fork(1)) /\ ~ReloadStart /\ ~ReloadClear
    <3>1. UNCHANGED <<life, born, tag>>
      BY <2>5 DEF ProcessException, KillDead, VerifyDead, Replace, TellSurplus, Drop,
                  SurplusTold, CheckProc, ReloadWaitNew, ReloadKillOld, procs, hot
    <3>2. Alive' = Alive
      BY <3>1 DEF Alive
    <3> QED
      BY <1>1, <3>1, <3>2, StillTagged DEF FirstInv, NoFailures
  <2> QED
    BY <2>1, <2>2, <2>3, <2>4, <2>5
<1> QED
  BY <1>3, <1>4 DEF FirstInv

LEMMA InitFirst == ASSUME Init PROVE FirstInv
<1>1. Alive = {} /\ stack = <<>> /\ stale = {} /\ ~hup
  BY DEF Init, Alive
<1>2. \A p \in Pids : sig[p] = {} /\ life[p] = "unborn"
  BY DEF Init
<1> QED
  BY <1>1, <1>2 DEF FirstInv, PeaceInv, OldTagged

LEMMA NextFirst == ASSUME IInv, CountInv, FirstInv, [Next]_vars PROVE FirstInv'
<1>1. CASE Controller
  BY <1>1, RunFirst, SignalsFirst, RecvFirst, GroupFirst, ReturnsFirst, OthersFirst
     DEF Controller
<1>2. CASE Next /\ ~Controller
  BY <1>2, WorkerFirst, TimeFirst, AskFirst DEF Next
<1>3. CASE UNCHANGED vars
  <2>1. UNCHANGED <<life, sig, born, mq, listed, stale, count, gen, tag, hup, bounds, stack>>
    BY <1>3 DEF vars, procs, group, hot
  <2>2. Alive' = Alive
    BY <2>1 DEF Alive
  <2>3. PeaceInv'
    <3>1. Peace => \A i \in DOMAIN stack' : Working(stack'[i])
      BY <2>1 DEF FirstInv, PeaceInv
    <3> QED
      BY <2>1, <3>1, PeaceControl DEF FirstInv
  <2> QED
    BY <2>1, <2>2, <2>3, StillTagged DEF FirstInv, NoFailures
<1> QED
  BY <1>1, <1>2, <1>3

(* If nothing fails and nothing is slow, the first hot reload replaces every process that
   was there before it: a reload that is asked for while the group is complete finds all
   processes on the list when the signal is handled, however much later that is.  (A second
   reload may find one that is not: a report that came late in the first one puts a process
   on the list that is gone, and its replacement may be forked just then.) *)
THEOREM FirstReloadReplacesAll ==
  ASSUME ~Hasty
  PROVE  Spec => [](gen <= 1 /\ bounds["slow"] = 0 => ReloadReplacesAll)
<1>1. Init => FirstInv
  BY InitFirst
<1>2. IInv /\ CountInv /\ FirstInv /\ [Next]_vars => FirstInv'
  BY NextFirst
<1>3. ASSUME IInv, CountInv, FirstInv
      PROVE  gen <= 1 /\ bounds["slow"] = 0 => ReloadReplacesAll
  <2> SUFFICES ASSUME gen <= 1, bounds["slow"] = 0, gen > 0, reload = PROC_RELOAD_NORMAL,
                      NoFailures
               PROVE  \A p \in Alive : born[p] = gen
    BY DEF ReloadReplacesAll
  <2>1. gen = 1
    BY <1>3 DEF CountInv, Started
  <2>2. tag = {}
    BY <1>3 DEF IInv, ReloadInv
  <2> QED
    BY <1>3, <2>1, <2>2 DEF FirstInv, OldTagged
<1> QED
  BY <1>1, <1>2, <1>3, Invariant, CountInvariant, PTL DEF Spec

-----------------------------------------------------------------------------
(* What the first reload leaves: definitions. *)

\* Has p been told to exit?
Told(p) == sig[p] # {}

\* A function only calls those of a lower rank, so that each waits on the stack at most
\* once: do_recv, del_proc, do_event, do_check and what follows it.
Rank(f) ==
  IF f.at = "recv" THEN 1 ELSE IF f.at = "drop" THEN 2
  ELSE IF f.at \in {"kill", "verify", "replace", "surplus"} THEN 3
  ELSE IF f.at \in {"check", "procs"} THEN 4 ELSE 5
Sorted(st) == \A i, j \in DOMAIN st : i < j => Rank(st[i]) < Rank(st[j])

\* Whose message says it is ready has been ready.
Ready ==
  \A i \in DOMAIN mq :
    mq[i].kind = "ready" => life[mq[i].pid] \notin {"unborn", "forked", "init"}
OrderInv == Ready /\ (bounds["segvs"] = 0 => Sorted(stack))

BoundsInv ==
  /\ bounds["late"] <= MaxLate /\ bounds["slow"] <= MaxSlow
  /\ bounds["reloads"] <= MaxReloads
  /\ gen + (IF hup THEN 1 ELSE 0) <= bounds["reloads"]
  /\ gen > 0 => exe = "spp_worker"

\* In and after the first reload, while nothing fails and nothing is slow.
First == gen = 1 /\ NoFailures /\ bounds["slow"] = 0
Normal == reload = PROC_RELOAD_NORMAL

Held == {stack[i] : i \in DOMAIN stack}
Reading == stack # <<>> /\ stack[1].at = "recv" /\ stack[1].p = 0
Unborn == {p \in Pids : life[p] = "unborn"}

\* The processes of the reload, those nobody has told to exit, and of these the ones
\* that are not ready yet.
Hired == {p \in Pids \ tag : life[p] # "unborn"}
Fresh == {p \in Pids : ~Told(p) /\ life[p] \in {"forked", "init", "up"}}
Young == {p \in Pids : ~Told(p) /\ life[p] \in {"forked", "init"}}

\* A process that is told to exit may have a report on its way: when it is read after
\* the reload it puts a process on the list that is about to go.  What has come of such
\* reports: the report, the process on the list, the one that was forked in its place.
Late == {p \in Senders : Told(p)}
Dropping == {p \in Pids : \E f \in Held : f.at = "drop" /\ f.p = p}
Ghosts == {p \in listed \ Dropping : Told(p)}
Astray == Late \cup {p \in Ghosts \cup Young : Normal}
FewAstray == IsFiniteSet(Astray) /\ Cardinality(Astray) <= bounds["late"]

\* Who is told to exit has run, and nobody goes who was not told.
Fates ==
  /\ \A p \in Pids : /\ life[p] \in {"unborn", "forked", "init", "up", "gone"}
                     /\ life[p] = "gone" => Told(p)
                     /\ Told(p) => life[p] \notin {"unborn", "forked"}
  /\ \A p \in tag : life[p] \notin {"unborn", "forked"}
  /\ \A p \in stale : life[p] = "gone"
  /\ stack = <<>> \/ Reading \/ \A p \in Senders \cap (listed \cup tag) : Told(p)

\* What a function on the stack rests on.
Fits(f) ==
  /\ f.at = "recv" /\ f.p # 0 => Told(f.p)
  /\ f.at \in {"kill", "verify", "replace"} => ~settled /\ life[f.p] = "gone"
  /\ f.at = "replace" /\ f.p \in Senders => stack[1].at = "recv" /\ stack[1].p = f.p
  /\ f.at = "surplus" =>
       f.n \in Nat /\ count >= ProcNum + f.n + (IF Dropping = {} THEN 0 ELSE 1)
  /\ f.at = "drop" => count > ProcNum
  /\ ~Normal => f.at \in {"recv", "check", "signals"}

\* While the reload goes on: the old processes are tagged, the new ones on the list or
\* about to report, as many as were asked for.
During ==
  /\ listed \cap tag = {}
  /\ \A p \in Pids \ tag : ~Told(p)
  /\ \A p \in listed : life[p] = "up"
  /\ IsFiniteSet(Hired) /\ Cardinality(Hired) <= ProcNum
  /\ IF reload = PROC_RELOAD_START THEN Hired = {} /\ Unborn # {}
     ELSE Hired # {} /\ (Cardinality(Hired) = ProcNum \/ Unborn = {})
  /\ reload = PROC_RELOAD_WAIT_NEW /\ aged => Hired \subseteq listed
  /\ reload \in {PROC_RELOAD_KILLOLD, PROC_RELOAD_CLEAR} =>
        Hired \subseteq listed /\ \A p \in tag : Told(p)

\* After it: no process is missing from the list but those that are about to report.
After ==
  /\ IsFiniteSet(Fresh)
  /\ Cardinality(listed \cup Fresh) >= ProcNum \/ Unborn = {}
  /\ settled => Fresh \subseteq listed

ServeInv ==
  First => /\ Fates
           /\ \A f \in Held : Fits(f)
           /\ FewAstray
           /\ IF Normal THEN After ELSE During

\* What a function leaves on the stack: its own frames and those below.
Below == {f \in Held : Rank(f) > Rank(Top)}

LEMMA HeldKept ==
  ASSUME IInv, Sorted(stack), stack # <<>>,
         NEW fs \in Seq(Frames), stack' = fs \o Tail(stack), Sorted(fs),
         \A i \in DOMAIN fs : Rank(fs[i]) <= Rank(Top)
  PROVE  /\ Sorted(stack') /\ Held = {Top} \cup Below
         /\ Held' = {fs[i] : i \in DOMAIN fs} \cup Below
         /\ 1 \in DOMAIN fs => stack' # <<>> /\ stack'[1] = fs[1]
<1>1. stack \in Seq(Frames) /\ 1 \in DOMAIN stack /\ Top = stack[1]
  BY TopType DEF IInv, TypeInv
<1>2. /\ stack' \in Seq(Frames) /\ DOMAIN stack' = 1..Len(stack') /\ Len(stack') \in Nat
      /\ Len(fs) \in Nat /\ DOMAIN fs = 1..Len(fs) /\ DOMAIN stack = 1..Len(stack)
      /\ Len(stack) \in Nat
      /\ \A i \in DOMAIN fs : i \in DOMAIN stack' /\ stack'[i] = fs[i]
      /\ \A i \in DOMAIN stack' : i > Len(fs) =>
           i - Len(fs) + 1 \in DOMAIN stack /\ stack'[i] = stack[i - Len(fs) + 1]
  BY <1>1, Exchanged
<1>3. Len(stack') = Len(fs) + Len(stack) - 1
  <2>1. Tail(stack) \in Seq(Frames) /\ Len(Tail(stack)) = Len(stack) - 1
    BY <1>1, HeadTailProperties
  <2> QED
    BY <2>1, <1>2, ConcatProperties
<1>4. \A f : Rank(f) \in 1..5
  BY DEF Rank
<1>5. \A j \in DOMAIN stack : j > 1 => Rank(stack[j]) > Rank(Top)
  BY <1>1, <1>2, <1>4 DEF Sorted
<1>6. ASSUME NEW i \in DOMAIN stack', NEW j \in DOMAIN stack', i < j
      PROVE  Rank(stack'[i]) < Rank(stack'[j])
  <2>1. CASE j <= Len(fs)
    <3>1. i \in DOMAIN fs /\ j \in DOMAIN fs
      BY <1>2, <1>6, <2>1
    <3> QED
      BY <1>2, <1>6, <3>1 DEF Sorted
  <2>2. CASE i <= Len(fs) /\ j > Len(fs)
    <3> DEFINE k == j - Len(fs) + 1
    <3>1. i \in DOMAIN fs /\ k \in DOMAIN stack /\ k > 1 /\ stack'[j] = stack[k]
      BY <1>2, <2>2
    <3> HIDE DEF k
    <3>2. Rank(fs[i]) <= Rank(Top) /\ Rank(stack[k]) > Rank(Top)
      BY <1>5, <3>1
    <3>3. stack'[i] = fs[i]
      BY <1>2, <3>1
    <3>4. Rank(fs[i]) < Rank(stack[k])
      <4>1. Rank(fs[i]) \in 1..5 /\ Rank(stack[k]) \in 1..5 /\ Rank(Top) \in 1..5
        BY <1>4
      <4> QED
        BY <3>2, <4>1
    <3> QED
      BY <3>1, <3>3, <3>4
  <2>3. CASE i > Len(fs)
    <3> DEFINE k == j - Len(fs) + 1
               l == i - Len(fs) + 1
    <3>1. /\ k \in DOMAIN stack /\ stack'[j] = stack[k]
          /\ l \in DOMAIN stack /\ stack'[i] = stack[l] /\ l < k
      BY <1>2, <1>6, <2>3, SMTT(40)
    <3> HIDE DEF k, l
    <3> QED
      BY <3>1 DEF Sorted
  <2> QED
    BY <1>2, <2>1, <2>2, <2>3, SMTT(40)
<1>7. Held = {Top} \cup Below
  <2>1. ASSUME NEW f \in Held PROVE f \in {Top} \cup Below
    <3>1. PICK j \in DOMAIN stack : f = stack[j]
      BY DEF Held
    <3>2. j = 1 \/ j > 1
      BY <1>2
    <3> QED
      BY <1>1, <1>5, <3>1, <3>2 DEF Below
  <2> QED
    BY <1>1, <2>1 DEF Held, Below
<1>8. ASSUME NEW f \in Held' PROVE f \in {fs[i] : i \in DOMAIN fs} \cup Below
  <2>1. PICK i \in DOMAIN stack' : f = stack'[i]
    BY DEF Held
  <2>2. CASE i <= Len(fs)
    BY <1>2, <2>1, <2>2
  <2>3. CASE i > Len(fs)
    <3> DEFINE k == i - Len(fs) + 1
    <3>1. k \in DOMAIN stack /\ k > 1 /\ f = stack[k]
      BY <1>2, <2>1, <2>3
    <3> HIDE DEF k
    <3> QED
      BY <1>5, <3>1 DEF Below, Held
  <2> QED
    BY <1>2, <2>2, <2>3
<1>9. ASSUME NEW f \in Below PROVE f \in Held'
  <2>1. PICK j \in DOMAIN stack : f = stack[j] /\ Rank(f) > Rank(Top)
    BY DEF Below, Held
  <2>2. j > 1
    <3>1. j # 1
      BY <1>1, <1>4, <2>1, SMTT(40)
    <3> QED
      BY <1>2, <3>1
  <2> DEFINE i == j + Len(fs) - 1
  <2>3. i \in DOMAIN stack' /\ i > Len(fs) /\ i - Len(fs) + 1 = j
    BY <1>2, <1>3, <2>2
  <2>4. stack'[i] = stack[j]
    BY <1>2, <2>3
  <2> QED
    BY <2>1, <2>3, <2>4 DEF Held
<1>10. \A i \in DOMAIN fs : fs[i] \in Held'
  BY <1>2 DEF Held
<1>11. 1 \in DOMAIN fs => stack' # <<>> /\ stack'[1] = fs[1]
  <2> SUFFICES ASSUME 1 \in DOMAIN fs PROVE stack' # <<>> /\ stack'[1] = fs[1]
    OBVIOUS
  <2>1. 1 \in DOMAIN stack' /\ stack'[1] = fs[1]
    BY <1>2
  <2>2. stack' # <<>>
    BY <2>1
  <2> QED
    BY <2>1, <2>2
<1> QED
  BY <1>6, <1>7, <1>8, <1>9, <1>10, <1>11 DEF Sorted

LEMMA ReturnHeld ==
  ASSUME IInv, Sorted(stack), stack # <<>>, Return
  PROVE  Sorted(stack') /\ Held = {Top} \cup Below /\ Held' = Below
<1>1. <<>> \in Seq(Frames) /\ stack' = <<>> \o Tail(stack) /\ DOMAIN <<>> = {}
  BY NoFrame DEF IInv
<1>2. Sorted(<<>>) /\ \A i \in DOMAIN <<>> : Rank(<<>>[i]) <= Rank(Top)
  BY <1>1 DEF Sorted
<1>3. Sorted(stack') /\ Held = {Top} \cup Below
      /\ Held' = {<<>>[i] : i \in DOMAIN <<>>} \cup Below
  BY <1>1, <1>2, HeldKept
<1> QED
  BY <1>1, <1>3

LEMMA OneHeld ==
  ASSUME IInv, Sorted(stack), stack # <<>>,
         NEW f \in Frames, Continue(<<f>>), Rank(f) <= Rank(Top)
  PROVE  /\ Sorted(stack') /\ Held = {Top} \cup Below /\ Held' = {f} \cup Below
         /\ stack' # <<>> /\ stack'[1] = f
<1> DEFINE fs == <<f>>
<1>1. fs \in Seq(Frames) /\ DOMAIN fs = {1} /\ fs[1] = f
  BY OneFrame
<1>2. stack' = fs \o Tail(stack)
  BY DEF Continue
<1> HIDE DEF fs
<1>3. Sorted(fs) /\ \A i \in DOMAIN fs : Rank(fs[i]) <= Rank(Top)
  BY <1>1 DEF Sorted
<1>4. /\ Sorted(stack') /\ Held = {Top} \cup Below
      /\ Held' = {fs[i] : i \in DOMAIN fs} \cup Below
      /\ stack' # <<>> /\ stack'[1] = fs[1]
  BY <1>1, <1>2, <1>3, HeldKept
<1> QED
  BY <1>1, <1>4

LEMMA TwoHeld ==
  ASSUME IInv, Sorted(stack), stack # <<>>,
         NEW f \in Frames, NEW g \in Frames, Continue(<<f, g>>),
         Rank(f) < Rank(g), Rank(g) <= Rank(Top)
  PROVE  /\ Sorted(stack') /\ Held = {Top} \cup Below /\ Held' = {f, g} \cup Below
         /\ stack' # <<>> /\ stack'[1] = f
<1> DEFINE fs == <<f, g>>
<1>1. fs \in Seq(Frames) /\ DOMAIN fs = {1, 2} /\ fs[1] = f /\ fs[2] = g
  BY TwoFrames
<1>2. stack' = fs \o Tail(stack)
  BY DEF Continue
<1> HIDE DEF fs
<1>0. \A h : Rank(h) \in 1..5
  BY DEF Rank
<1>3. Sorted(fs) /\ \A i \in DOMAIN fs : Rank(fs[i]) <= Rank(Top)
  BY <1>0, <1>1 DEF Sorted
<1>4. /\ Sorted(stack') /\ Held = {Top} \cup Below
      /\ Held' = {fs[i] : i \in DOMAIN fs} \cup Below
      /\ stack' # <<>> /\ stack'[1] = fs[1]
  BY <1>1, <1>2, <1>3, HeldKept
<1> QED
  BY <1>1, <1>4

LEMMA ThreeHeld ==
  ASSUME IInv, Sorted(stack), stack # <<>>,
         NEW f \in Frames, NEW g \in Frames, NEW h \in Frames, Continue(<<f, g, h>>),
         Rank(f) < Rank(g), Rank(g) < Rank(h), Rank(h) <= Rank(Top)
  PROVE  /\ Sorted(stack') /\ Held = {Top} \cup Below /\ Held' = {f, g, h} \cup Below
         /\ stack' # <<>> /\ stack'[1] = f
<1> DEFINE fs == <<f, g, h>>
<1>1. fs \in Seq(Frames) /\ DOMAIN fs = {1, 2, 3} /\ fs[1] = f /\ fs[2] = g /\ fs[3] = h
  BY ThreeFrames
<1>2. stack' = fs \o Tail(stack)
  BY DEF Continue
<1> HIDE DEF fs
<1>0. \A e : Rank(e) \in 1..5
  BY DEF Rank
<1>3. Sorted(fs) /\ \A i \in DOMAIN fs : Rank(fs[i]) <= Rank(Top)
  BY <1>0, <1>1 DEF Sorted
<1>4. /\ Sorted(stack') /\ Held = {Top} \cup Below
      /\ Held' = {fs[i] : i \in DOMAIN fs} \cup Below
      /\ stack' # <<>> /\ stack'[1] = fs[1]
  BY <1>1, <1>2, <1>3, HeldKept
<1> QED
  BY <1>1, <1>4

-----------------------------------------------------------------------------
(* What the functions leave on the stack. *)

Stacked == Sorted(stack') /\ Held = {Top} \cup Below /\ Below \subseteq Held'

LEMMA Ranks ==
  ASSUME NEW f
  PROVE  /\ f.at = "recv" => Rank(f) = 1
         /\ f.at = "drop" => Rank(f) = 2
         /\ f.at \in {"kill", "verify", "replace", "surplus"} => Rank(f) = 3
         /\ f.at \in {"check", "procs"} => Rank(f) = 4
         /\ f.at \in {"signals", "segv_wait", "crashed"} => Rank(f) = 5
         /\ Rank(f) \in 1..5
  BY DEF Rank

LEMMA ReturnStacked ==
  ASSUME IInv, Sorted(stack), stack # <<>>, Return
  PROVE  Stacked /\ Held' = Below
  BY ReturnHeld DEF Stacked

LEMMA KillStacked ==
  ASSUME IInv, Sorted(stack), KillDead
  PROVE  /\ stack # <<>> /\ Top.at = "kill" /\ Stacked
         /\ \A f \in Held' \ Below : f.at = "verify" /\ f.p = Top.p
<1> DEFINE f == Frame("verify", Top.p, 0, {})
<1>1. stack # <<>> /\ Top.at = "kill" /\ Continue(<<f>>)
  BY DEF KillDead, At, Top
<1>2. f \in Frames /\ f.at = "verify" /\ f.p = Top.p
  <2>1. Top.p \in Pids \cup {0}
    BY <1>1, TopType DEF IInv
  <2> QED
    BY <2>1, FrameType DEF Steps
<1> HIDE DEF f
<1>3. Rank(f) <= Rank(Top)
  BY <1>1, <1>2, Ranks
<1>4. Sorted(stack') /\ Held = {Top} \cup Below /\ Held' = {f} \cup Below
  BY <1>1, <1>2, <1>3, OneHeld
<1> QED
  BY <1>1, <1>2, <1>4 DEF Stacked

LEMMA VerifyStacked ==
  ASSUME IInv, Sorted(stack), VerifyDead
  PROVE  /\ stack # <<>> /\ Top.at = "verify" /\ Stacked
         /\ life[Top.p] = "gone" =>
              /\ stack' # <<>> /\ stack'[1].at = "recv" /\ stack'[1].p = Top.p
              /\ \A f \in Held' \ Below : f.at \in {"recv", "replace"} /\ f.p = Top.p
         /\ life[Top.p] # "gone" => Held' = Below
<1>1. stack # <<>> /\ Top.at = "verify"
  BY DEF VerifyDead, At, Top
<1>2. CASE life[Top.p] = "gone"
  <2> DEFINE f == RecvOf(Top.p)
             g == Frame("replace", Top.p, 0, {})
  <2>1. Continue(<<f, g>>)
    BY <1>2 DEF VerifyDead, IsGone
  <2>2. /\ f \in Frames /\ f.at = "recv" /\ f.p = Top.p
        /\ g \in Frames /\ g.at = "replace" /\ g.p = Top.p
    <3>1. Top.p \in Pids \cup {0}
      BY <1>1, TopType DEF IInv
    <3> QED
      BY <3>1, FrameType DEF Steps, RecvOf
  <2> HIDE DEF f, g
  <2>3. Rank(f) < Rank(g) /\ Rank(g) <= Rank(Top)
    BY <1>1, <2>2, Ranks
  <2>4. /\ Sorted(stack') /\ Held = {Top} \cup Below /\ Held' = {f, g} \cup Below
        /\ stack' # <<>> /\ stack'[1] = f
    BY <1>1, <2>1, <2>2, <2>3, TwoHeld
  <2> QED
    BY <1>1, <1>2, <2>2, <2>4 DEF Stacked
<1>3. CASE life[Top.p] # "gone"
  BY <1>1, <1>3, ReturnStacked DEF VerifyDead, IsGone
<1> QED
  BY <1>2, <1>3

LEMMA ProcStacked ==
  ASSUME IInv, Sorted(stack), CheckProc
  PROVE  /\ stack # <<>> /\ Top.at = "procs" /\ Stacked
         /\ \A f \in Held' \ Below :
              f.at = "procs" \/ (f.at = "kill" /\ f.p \in stale)
<1>1. stack # <<>> /\ Top.at = "procs"
  BY DEF CheckProc, At, Top
<1>2. PICK p \in Silent :
        Continue(<<Frame("kill", p, 0, {}), Frame("procs", 0, 0, Top.todo \ {p})>>)
  BY DEF CheckProc
<1> DEFINE f == Frame("kill", p, 0, {})
           g == Frame("procs", 0, 0, Top.todo \ {p})
<1>3. /\ f \in Frames /\ f.at = "kill" /\ f.p = p
      /\ g \in Frames /\ g.at = "procs" /\ p \in stale
  <2>1. Top.todo \subseteq Pids
    BY <1>1, TopType DEF IInv
  <2>2. p \in Pids /\ p \in stale /\ Top.todo \ {p} \in SUBSET Pids
    BY <2>1 DEF Silent
  <2> QED
    BY <2>2, FrameType DEF Steps
<1>4. Continue(<<f, g>>)
  BY <1>2
<1> HIDE DEF f, g
<1>5. Rank(f) < Rank(g) /\ Rank(g) <= Rank(Top)
  BY <1>1, <1>3, Ranks
<1>6. Sorted(stack') /\ Held = {Top} \cup Below /\ Held' = {f, g} \cup Below
  BY <1>1, <1>3, <1>4, <1>5, TwoHeld
<1> QED
  BY <1>1, <1>3, <1>6 DEF Stacked

LEMMA TellStacked ==
  ASSUME IInv, Sorted(stack), TellSurplus, NEW p \in listed,
         Continue(<<RecvOf(p), Frame("drop", p, 0, {}), Frame("surplus", 0, Top.n - 1, {})>>)
  PROVE  /\ stack # <<>> /\ Top.at = "surplus" /\ Top.n \in Int /\ Top.n > 0 /\ Stacked
         /\ \A f \in Held' \ Below :
              \/ f.at \in {"recv", "drop"} /\ f.p = p
              \/ f.at = "surplus" /\ f.n = Top.n - 1
         /\ \E f \in Held' : f.at = "drop" /\ f.p = p
<1>1. stack # <<>> /\ Top.at = "surplus" /\ Top.n > 0
  BY DEF TellSurplus, At, Top
<1> DEFINE f == RecvOf(p)
           g == Frame("drop", p, 0, {})
           h == Frame("surplus", 0, Top.n - 1, {})
<1>2. /\ f \in Frames /\ f.at = "recv" /\ f.p = p
      /\ g \in Frames /\ g.at = "drop" /\ g.p = p
      /\ h \in Frames /\ h.at = "surplus" /\ h.n = Top.n - 1 /\ Top.n \in Int
  <2>1. Top.n \in Int
    BY <1>1, TopType DEF IInv
  <2>2. p \in Pids \cup {0} /\ Top.n - 1 \in Int
    BY <2>1 DEF IInv, TypeInv
  <2>3. h.n = Top.n - 1
    BY DEF Frame
  <2> HIDE DEF h
  <2>4. f \in Frames /\ f.at = "recv" /\ f.p = p
        /\ g \in Frames /\ g.at = "drop" /\ g.p = p
    BY <2>2, FrameType DEF Steps, RecvOf
  <2>5. h \in Frames /\ h.at = "surplus"
    BY <2>2, FrameType DEF Steps, h
  <2> QED
    BY <2>1, <2>3, <2>4, <2>5
<1>3. Continue(<<f, g, h>>)
  OBVIOUS
<1> HIDE DEF f, g, h
<1>4. Rank(f) < Rank(g) /\ Rank(g) < Rank(h) /\ Rank(h) <= Rank(Top)
  BY <1>1, <1>2, Ranks
<1>5. Sorted(stack') /\ Held = {Top} \cup Below /\ Held' = {f, g, h} \cup Below
  BY <1>1, <1>2, <1>3, <1>4, ThreeHeld
<1> QED
  BY <1>1, <1>2, <1>5 DEF Stacked

LEMMA GroupStacked ==
  ASSUME IInv, Sorted(stack), CheckGroup
  PROVE  /\ stack # <<>> /\ Top.at = "check" /\ Stacked
         /\ \A f \in Held' \ Below :
              f.at = "procs" \/ (Surplus /\ f.at = "surplus" /\ f.n = count - ProcNum)
<1>1. stack # <<>> /\ Top.at = "check"
  BY DEF CheckGroup, At, Top
<1> DEFINE f == Frame("surplus", 0, count - ProcNum, {})
           g == Frame("procs", 0, 0, listed)
<1>2. /\ f \in Frames /\ f.at = "surplus" /\ f.n = count - ProcNum
      /\ g \in Frames /\ g.at = "procs"
  <2>1. count - ProcNum \in Int /\ listed \in SUBSET Pids
    BY PidsAssumption DEF IInv, TypeInv
  <2>2. f.n = count - ProcNum
    BY DEF Frame
  <2> QED
    BY <2>1, <2>2, FrameType DEF Steps
<1>3. Continue((IF Surplus THEN <<f>> ELSE <<>>) \o <<g>>)
  BY DEF CheckGroup
<1> HIDE DEF f, g
<1>4. CASE Surplus
  <2>1. Continue(<<f, g>>)
    BY <1>2, <1>3, <1>4, Joined
  <2>2. Rank(f) < Rank(g) /\ Rank(g) <= Rank(Top)
    BY <1>1, <1>2, Ranks
  <2>3. Sorted(stack') /\ Held = {Top} \cup Below /\ Held' = {f, g} \cup Below
    BY <1>1, <1>2, <2>1, <2>2, TwoHeld
  <2> QED
    BY <1>1, <1>2, <1>4, <2>3 DEF Stacked
<1>5. CASE ~Surplus
  <2>1. Continue(<<g>>)
    BY <1>2, <1>3, <1>5, Joined
  <2>2. Rank(g) <= Rank(Top)
    BY <1>1, <1>2, Ranks
  <2>3. Sorted(stack') /\ Held = {Top} \cup Below /\ Held' = {g} \cup Below
    BY <1>1, <1>2, <2>1, <2>2, OneHeld
  <2> QED
    BY <1>1, <1>2, <2>3 DEF Stacked
<1> QED
  BY <1>4, <1>5

LEMMA SignalsStacked ==
  ASSUME IInv, Sorted(stack), CheckSignals
  PROVE  /\ stack # <<>> /\ Top.at = "signals" /\ Stacked /\ Below = {}
         /\ hup => /\ stack' # <<>> /\ stack'[1].at = "recv" /\ stack'[1].p = 0
                   /\ \A f \in Held' : (f.at = "recv" /\ f.p = 0) \/ f.at = "check"
         /\ ~hup => Held' = {}
<1>1. stack # <<>> /\ Top.at = "signals"
  BY DEF CheckSignals, At, Top
<1>2. Below = {}
  <2>1. Rank(Top) = 5 /\ \A f \in Held : ~(Rank(f) > 5)
    BY <1>1, Ranks
  <2> QED
    BY <2>1 DEF Below
<1>3. CASE hup
  <2> DEFINE f == RecvAll
             g == DoCheck
  <2>1. Continue(<<f, g>>)
    BY <1>3 DEF CheckSignals
  <2>2. /\ f \in Frames /\ f.at = "recv" /\ f.p = 0
        /\ g \in Frames /\ g.at = "check"
    BY FrameType DEF Steps, RecvAll, DoCheck
  <2> HIDE DEF f, g
  <2>3. Rank(f) < Rank(g) /\ Rank(g) <= Rank(Top)
    BY <1>1, <2>2, Ranks
  <2>4. /\ Sorted(stack') /\ Held = {Top} \cup Below /\ Held' = {f, g} \cup Below
        /\ stack' # <<>> /\ stack'[1] = f
    BY <1>1, <2>1, <2>2, <2>3, TwoHeld
  <2> QED
    BY <1>1, <1>2, <1>3, <2>2, <2>4 DEF Stacked
<1>4. CASE ~hup
  BY <1>1, <1>2, <1>4, ReturnStacked DEF CheckSignals
<1> QED
  BY <1>3, <1>4

LEMMA RunStacked ==
  ASSUME Run
  PROVE  /\ Sorted(stack') /\ stack' # <<>> /\ stack'[1].at = "recv" /\ stack'[1].p = 0
         /\ \A f \in Held' : (f.at = "recv" /\ f.p = 0) \/ f.at \in {"check", "signals"}
<1> DEFINE f == RecvAll
           g == DoCheck
           h == Frame("signals", 0, 0, {})
           fs == <<f, g, h>>
<1>1. /\ f \in Frames /\ f.at = "recv" /\ f.p = 0
      /\ g \in Frames /\ g.at = "check"
      /\ h \in Frames /\ h.at = "signals"
  BY FrameType DEF Steps, RecvAll, DoCheck
<1>2. stack' = fs
  BY DEF Run
<1> HIDE DEF f, g, h
<1>3. fs # <<>> /\ DOMAIN fs = {1, 2, 3} /\ fs[1] = f /\ fs[2] = g /\ fs[3] = h
  BY <1>1, ThreeFrames
<1> HIDE DEF fs
<1>4. Rank(f) = 1 /\ Rank(g) = 4 /\ Rank(h) = 5
  BY <1>1, Ranks
<1>5. Sorted(fs)
  BY <1>3, <1>4 DEF Sorted
<1> QED
  BY <1>1, <1>2, <1>3, <1>5 DEF Held

-----------------------------------------------------------------------------
(* Messages that say a process is ready, the order of the stack and the bounds. *)

LEMMA SentOrOld ==
  ASSUME IInv, NEW p \in Pids, NEW kind \in Kinds, Send(p, kind)
  PROVE  \A i \in DOMAIN mq' : \/ mq'[i] = [pid |-> p, kind |-> kind]
                               \/ \E j \in DOMAIN mq : mq'[i] = mq[j]
<1> DEFINE msg == [pid |-> p, kind |-> kind]
<1>1. mq \in Seq(Messages) /\ msg \in Messages
  BY DEF IInv, TypeInv, Messages
<1>2. mq' = mq \/ mq' = Append(mq, msg)
  BY DEF Send
<1> HIDE DEF msg
<1>3. \A i \in DOMAIN mq' : mq'[i] = msg \/ \E j \in DOMAIN mq : mq'[i] = mq[j]
  <2>1. CASE mq' = mq
    BY <2>1
  <2>2. CASE mq' = Append(mq, msg)
    BY <2>2, <1>1, AppendProperties, LenProperties
  <2> QED
    BY <1>2, <2>1, <2>2
<1> QED
  BY <1>3 DEF msg

LEMMA OldRead ==
  ASSUME IInv, NextMsg > 0, mq' = Without(NextMsg), UNCHANGED life
  PROVE  \A i \in DOMAIN mq' : \E j \in DOMAIN mq : mq'[i] = mq[j]
<1> DEFINE n == NextMsg
<1>1. n \in DOMAIN mq
  BY Received DEF IInv
<1>2. mq \in Seq(Messages) /\ mq' = SubSeq(mq, 1, n - 1) \o SubSeq(mq, n + 1, Len(mq))
  BY DEF IInv, TypeInv, Without
<1> DEFINE S == Messages
           t == mq'
<1> HIDE DEF n, S, t
<1>3. mq \in Seq(S) /\ t = SubSeq(mq, 1, n - 1) \o SubSeq(mq, n + 1, Len(mq))
  BY <1>2 DEF S, t
<1>4. \A i \in DOMAIN t : \E j \in DOMAIN mq : t[i] = mq[j]
  BY <1>1, <1>3, Shortened
<1> QED
  BY <1>4 DEF t

\* The steps of a process.
Works(p) == Starts(p) \/ Loop(p) \/ Recover(p) \/ Dies(p) \/ Fails(p)

LEMMA WorksFrame ==
  ASSUME IInv, NEW p \in Pids, Works(p)
  PROVE  /\ UNCHANGED <<sig, born, controller>>
         /\ UNCHANGED bounds \/ \E b \in Counters : \E max : Counted(b, max)
         /\ \A q \in Pids : q # p => life'[q] = life[q]
         /\ life[p] \notin {"unborn", "gone"}
<1>1. UNCHANGED <<sig, born, controller>>
  BY DEF Works, Starts, FirstReport, InitDone, Loop, Report, LateReport, Quit, Recover,
         Dies, ReportException, Die, Fails, Hang, Killed, Segv, procs
<1>2. UNCHANGED bounds \/ \E b \in Counters : \E max : Counted(b, max)
  BY DEF Works, Starts, FirstReport, InitDone, Loop, Report, LateReport, Quit, Recover,
         Dies, ReportException, Die, Fails, Hang, Killed, Segv, Counters
<1>3. life[p] \notin {"unborn", "gone"}
  BY DEF Works, Starts, FirstReport, InitDone, Loop, Report, LateReport, Quit, Recover,
         Dies, ReportException, Die, Fails, Hang, Killed, Segv, Become, Alive
<1>4. \A q \in Pids : q # p => life'[q] = life[q]
  BY DEF Works, Starts, FirstReport, InitDone, Loop, Report, LateReport, Quit, Recover,
         Dies, ReportException, Die, Fails, Hang, Killed, Segv, Become, procs, IInv, TypeInv
<1> QED
  BY <1>1, <1>2, <1>3, <1>4

Grown(l) == l \notin {"unborn", "forked", "init"}

LEMMA ReadyKept ==
  ASSUME IInv, Ready, \A p \in Pids : Grown(life[p]) => Grown(life'[p]),
         \A i \in DOMAIN mq' : \/ mq'[i].kind = "ready" => Grown(life'[mq'[i].pid])
                               \/ \E j \in DOMAIN mq : mq'[i] = mq[j]
  PROVE  Ready'
<1>1. \A j \in DOMAIN mq : mq[j].pid \in Pids
  BY SendersKnown DEF Senders
<1>2. ASSUME NEW i \in DOMAIN mq', mq'[i].kind = "ready" PROVE Grown(life'[mq'[i].pid])
  <2>1. CASE \E j \in DOMAIN mq : mq'[i] = mq[j]
    <3>1. PICK j \in DOMAIN mq : mq'[i] = mq[j]
      BY <2>1
    <3> QED
      BY <1>1, <1>2, <3>1 DEF Ready, Grown
  <2> QED
    BY <1>2, <2>1
<1> QED
  BY <1>2 DEF Ready, Grown

LEMMA WorksReady == ASSUME IInv, Ready, NEW p \in Pids, Works(p) PROVE Ready'
<1>1. life \in [Pids -> Lives]
  BY DEF IInv, TypeInv
<1>2. Grown(life[p]) => Grown(life'[p])
  BY <1>1 DEF Works, Starts, FirstReport, InitDone, Loop, Report, LateReport, Quit, Recover,
         Dies, ReportException, Die, Fails, Hang, Killed, Segv, Become, procs, Grown
<1>3. \A q \in Pids : Grown(life[q]) => Grown(life'[q])
  BY <1>2, WorksFrame
<1>4. ASSUME NEW kind \in Kinds, Send(p, kind), kind = "ready" => life[p] = "up" /\ UNCHANGED life
      PROVE  Ready'
  <2>1. \A i \in DOMAIN mq' : \/ mq'[i] = [pid |-> p, kind |-> kind]
                              \/ \E j \in DOMAIN mq : mq'[i] = mq[j]
    BY <1>4, SentOrOld
  <2>2. \A i \in DOMAIN mq' : \/ mq'[i].kind = "ready" => Grown(life'[mq'[i].pid])
                              \/ \E j \in DOMAIN mq : mq'[i] = mq[j]
    BY <1>4, <2>1 DEF Grown
  <2> QED
    BY <1>3, <2>2, ReadyKept
<1>5. CASE UNCHANGED mq
  <2>1. \A i \in DOMAIN mq' : \E j \in DOMAIN mq : mq'[i] = mq[j]
    BY <1>5
  <2> QED
    BY <1>3, <2>1, ReadyKept
<1>6. CASE FirstReport(p)
  BY <1>4, <1>6 DEF FirstReport, Kinds
<1>7. CASE Report(p) \/ LateReport(p)
  BY <1>4, <1>7 DEF Report, LateReport, procs, Kinds
<1>8. CASE ReportException(p)
  BY <1>4, <1>8 DEF ReportException, Kinds
<1>9. ~(FirstReport(p) \/ Report(p) \/ LateReport(p) \/ ReportException(p)) => UNCHANGED mq
  BY DEF Works, Starts, InitDone, Loop, Quit, Recover, Dies, Die, Fails, Hang, Killed, Segv
<1> QED
  BY <1>5, <1>6, <1>7, <1>8, <1>9

LEMMA ControllerReady == ASSUME IInv, Ready, Controller PROVE Ready'
<1>1. \A q \in Pids : Grown(life[q]) => Grown(life'[q])
  <2>1. UNCHANGED life \/ (\E n : Fork(n)) \/ ReloadClear
    BY DEF Controller, Run, CheckSignals, Recv, RecvDone, ProcessException, KillDead,
           VerifyDead, Replace, CheckGroup, CheckUnused, TellSurplus, Drop, SurplusTold,
           CheckProc, ProcsChecked, ReloadStart, ReloadWaitNew, ReloadKillOld, procs
  <2>2. CASE \E n : Fork(n)
    BY <2>2 DEF Fork, Grown
  <2>3. CASE ReloadClear
    BY <2>3 DEF ReloadClear, Grown
  <2> QED
    BY <2>1, <2>2, <2>3
<1>2. \A i \in DOMAIN mq' : \E j \in DOMAIN mq : mq'[i] = mq[j]
  <2>1. CASE Recv
    BY <2>1, OldRead DEF Recv, procs
  <2>2. CASE ~Recv
    <3>1. UNCHANGED mq
      BY <2>2 DEF Controller, Run, CheckSignals, RecvDone, ProcessException, KillDead,
           VerifyDead, Replace, CheckGroup, CheckUnused, TellSurplus, Drop, SurplusTold,
           CheckProc, ProcsChecked, ReloadStart, ReloadWaitNew, ReloadKillOld, ReloadClear,
           CheckReload
    <3> QED
      BY <3>1
  <2> QED
    BY <2>1, <2>2
<1> QED
  BY <1>1, <1>2, ReadyKept

LEMMA ControllerSorted ==
  ASSUME IInv, bounds["segvs"] = 0, Sorted(stack), Controller
  PROVE  Sorted(stack')
<1>1. CASE Run
  BY <1>1, RunStacked
<1>2. CASE CheckSignals
  BY <1>2, SignalsStacked DEF Stacked
<1>3. CASE Recv
  <2>1. NextMsg \in DOMAIN mq
    BY <1>3, Received DEF IInv, Recv, procs
  <2>2. mq[NextMsg].kind # "exception"
    BY <2>1 DEF IInv, Calm, NoneReported
  <2> QED
    BY <1>3, <2>2 DEF Recv
<1>4. ASSUME stack # <<>>, Return PROVE Sorted(stack')
  BY <1>4, ReturnStacked DEF Stacked
<1>5. CASE \/ RecvDone \/ CheckUnused \/ Drop \/ SurplusTold \/ ProcsChecked
           \/ ReloadStart \/ ReloadWaitNew \/ ReloadKillOld \/ ReloadClear
  BY <1>4, <1>5 DEF RecvDone, CheckUnused, Drop, SurplusTold, ProcsChecked, ReloadStart,
     ReloadWaitNew, ReloadKillOld, ReloadClear, CheckReload, At
<1>6. stack # <<>> => Top = stack[1] /\ 1 \in DOMAIN stack
  BY TopType DEF IInv
<1>7. CASE ProcessException
  <2>1. FALSE
    BY <1>6, <1>7 DEF ProcessException, At, Top, IInv, Calm, Orderly
  <2> QED
    BY <2>1
<1>8. CASE Replace
  <2>1. Top.p \in listed
    BY <1>6, <1>8 DEF Replace, At, Top, IInv, Calm, Orderly, Busy
  <2> QED
    BY <1>4, <1>8, <2>1 DEF Replace, At
<1>9. CASE TellSurplus
  <2>1. PICK p \in listed :
      Continue(<<RecvOf(p), Frame("drop", p, 0, {}), Frame("surplus", 0, Top.n - 1, {})>>)
    BY <1>9 DEF TellSurplus
  <2> QED
    BY <1>9, <2>1, TellStacked DEF Stacked
<1>10. CASE KillDead \/ VerifyDead \/ CheckGroup \/ CheckProc
  BY <1>10, KillStacked, VerifyStacked, GroupStacked, ProcStacked DEF Stacked
<1> QED
  BY <1>1, <1>2, <1>3, <1>5, <1>7, <1>8, <1>9, <1>10 DEF Controller

LEMMA InitOrder == ASSUME Init PROVE OrderInv
<1>1. DOMAIN mq = {} /\ DOMAIN stack = {}
  BY DEF Init
<1> QED
  BY <1>1 DEF OrderInv, Ready, Sorted

LEMMA NextOrder == ASSUME IInv, OrderInv, [Next]_vars PROVE OrderInv'
<1>1. CASE Controller
  <2>1. UNCHANGED bounds
    BY <1>1 DEF Controller, Run, CheckSignals, Recv, RecvDone, ProcessException, KillDead,
           VerifyDead, Replace, CheckGroup, CheckUnused, TellSurplus, Drop, SurplusTold,
           CheckProc, ProcsChecked, ReloadStart, ReloadWaitNew, ReloadKillOld, ReloadClear,
           CheckReload
  <2> QED
    BY <1>1, <2>1, ControllerReady, ControllerSorted DEF OrderInv
<1>2. ASSUME UNCHANGED stack, UNCHANGED bounds \/ \E b \in Counters : \E max : Counted(b, max)
      PROVE  bounds'["segvs"] = 0 => Sorted(stack')
  <2>1. bounds'["segvs"] = 0 => bounds["segvs"] = 0
    <3>1. ASSUME NEW b \in Counters, NEW max, Counted(b, max), bounds'["segvs"] = 0
          PROVE  bounds["segvs"] = 0
      <4>1. "segvs" \in Counters /\ bounds["segvs"] \in Nat
        BY DEF Counters, IInv, TypeInv
      <4>2. bounds'["segvs"] \in {bounds["segvs"], bounds["segvs"] + 1}
        BY <3>1, <4>1, CountedUp DEF IInv
      <4> QED
        BY <3>1, <4>1, <4>2
    <3> QED
      BY <1>2, <3>1
  <2> QED
    BY <1>2, <2>1 DEF OrderInv
<1>3. ASSUME NEW p \in Pids, Works(p) PROVE OrderInv'
  <2>1. UNCHANGED stack
    BY <1>3, WorksFrame DEF controller
  <2> QED
    BY <1>2, <1>3, <2>1, WorksFrame, WorksReady DEF OrderInv
<1>4. CASE TimePasses \/ AskReload \/ UNCHANGED vars
  <2>1. /\ UNCHANGED <<life, mq, stack>>
        /\ UNCHANGED bounds \/ \E b \in Counters : \E max : Counted(b, max)
    BY <1>4 DEF TimePasses, Expire, AdjustDelayPasses, ReloadDelayPasses, AskReload, vars,
                procs, Counters
  <2>2. Ready'
    BY <2>1 DEF OrderInv, Ready
  <2> QED
    BY <1>2, <2>1, <2>2 DEF OrderInv
<1> QED
  BY <1>1, <1>3, <1>4 DEF Next, Works

LEMMA CountedBounds ==
  ASSUME TypeInv, NEW b \in Counters, NEW max \in Nat, Counted(b, max)
  PROVE  /\ bounds'[b] = bounds[b] + 1 /\ bounds'[b] <= max
         /\ \A c \in Counters : c # b => bounds'[c] = bounds[c]
<1>1. \A c \in Counters : bounds'[c] = IF c = b THEN bounds[c] + 1 ELSE bounds[c]
  BY CountedUp
<1>2. bounds[b] < max /\ bounds[b] \in Nat
  BY DEF Counted, TypeInv
<1> QED
  BY <1>1, <1>2

LEMMA InitBounds == ASSUME Init PROVE BoundsInv
  BY BoundsAssumption DEF Init, BoundsInv

LEMMA NextBounds == ASSUME IInv, CountInv, BoundsInv, [Next]_vars PROVE BoundsInv'
<1>1. /\ \A b \in Counters : bounds[b] \in Nat
      /\ {"late", "slow", "reloads", "hangs", "killed", "segvs"} \subseteq Counters
      /\ {MaxLate, MaxSlow, MaxReloads, MaxHangs, MaxKilled, MaxSegvs} \subseteq Nat
      /\ gen \in Nat
  BY BoundsAssumption DEF Counters, IInv, TypeInv, CountInv, Started
<1>2. ASSUME UNCHANGED <<gen, hup, exe>>,
             \/ UNCHANGED bounds
             \/ \E b \in {"hangs", "killed", "segvs"} : \E max \in Nat : Counted(b, max)
             \/ Counted("late", MaxLate) \/ Counted("slow", MaxSlow)
      PROVE  BoundsInv'
  <2>1. CASE UNCHANGED bounds
    BY <1>2, <2>1 DEF BoundsInv
  <2>2. ASSUME NEW b \in {"hangs", "killed", "segvs"}, NEW max \in Nat, Counted(b, max)
        PROVE  BoundsInv'
    <3>1. UNCHANGED <<bounds["late"], bounds["slow"], bounds["reloads"]>>
      BY <1>1, <2>2, CountedBounds DEF IInv
    <3> QED
      BY <1>2, <3>1 DEF BoundsInv
  <2>3. CASE Counted("late", MaxLate)
    <3>1. bounds'["late"] <= MaxLate /\ UNCHANGED <<bounds["slow"], bounds["reloads"]>>
      BY <1>1, <2>3, CountedBounds DEF IInv
    <3> QED
      BY <1>2, <3>1 DEF BoundsInv
  <2>4. CASE Counted("slow", MaxSlow)
    <3>1. bounds'["slow"] <= MaxSlow /\ UNCHANGED <<bounds["late"], bounds["reloads"]>>
      BY <1>1, <2>4, CountedBounds DEF IInv
    <3> QED
      BY <1>2, <3>1 DEF BoundsInv
  <2> QED
    BY <1>2, <2>1, <2>2, <2>3, <2>4
<1>3. ASSUME NEW p \in Pids, Works(p) PROVE BoundsInv'
  <2>1. UNCHANGED <<gen, hup, exe>>
    BY <1>3, WorksFrame DEF controller, hot
  <2>2. \/ UNCHANGED bounds
        \/ \E b \in {"hangs", "killed", "segvs"} : \E max \in Nat : Counted(b, max)
        \/ Counted("late", MaxLate)
    BY <1>1, <1>3 DEF Works, Starts, FirstReport, InitDone, Loop, Report, LateReport, Quit,
         Recover, Dies, ReportException, Die, Fails, Hang, Killed, Segv
  <2> QED
    BY <1>2, <2>1, <2>2
<1>4. CASE TimePasses \/ UNCHANGED vars
  <2>1. UNCHANGED <<gen, hup, exe>> /\ (UNCHANGED bounds \/ Counted("slow", MaxSlow))
    BY <1>4 DEF TimePasses, Expire, AdjustDelayPasses, ReloadDelayPasses, vars, hot
  <2> QED
    BY <1>2, <2>1
<1>5. CASE AskReload
  <2>1. ~hup /\ hup' /\ Counted("reloads", MaxReloads) /\ UNCHANGED <<gen, exe>>
    BY <1>5 DEF AskReload, hot
  <2>2. /\ bounds'["reloads"] = bounds["reloads"] + 1 /\ bounds'["reloads"] <= MaxReloads
        /\ UNCHANGED <<bounds["late"], bounds["slow"]>>
    BY <1>1, <2>1, CountedBounds DEF IInv
  <2> QED
    BY <1>1, <2>1, <2>2 DEF BoundsInv
<1>6. CASE CheckSignals
  <2>1. /\ UNCHANGED bounds /\ ~hup'
        /\ hup => gen' = gen + 1 /\ exe' = "spp_worker"
        /\ ~hup => UNCHANGED <<gen, exe>>
    BY <1>6 DEF CheckSignals, hot
  <2> QED
    BY <1>1, <2>1 DEF BoundsInv
<1>7. CASE Controller /\ ~CheckSignals
  <2>1. UNCHANGED <<gen, hup, exe, bounds>>
    BY <1>7 DEF Controller, Run, Recv, RecvDone, ProcessException, KillDead,
           VerifyDead, Replace, CheckGroup, CheckUnused, TellSurplus, Drop, SurplusTold,
           CheckProc, ProcsChecked, ReloadStart, ReloadWaitNew, ReloadKillOld, ReloadClear,
           CheckReload, hot
  <2> QED
    BY <1>2, <2>1
<1> QED
  BY <1>3, <1>4, <1>5, <1>6, <1>7 DEF Next, Works

-----------------------------------------------------------------------------
(* The first reload and what comes of it. *)

Base == IInv /\ CountInv /\ FirstInv /\ OrderInv /\ BoundsInv

LEMMA StillFirst ==
  ASSUME IInv, UNCHANGED gen, UNCHANGED bounds \/ \E b \in Counters : \E max : Counted(b, max)
  PROVE  First' => First
  BY StillPeace DEF First, NoFailures

\* What is known of the stack and the count.
LEMMA HeldType ==
  ASSUME IInv, NEW f \in Held
  PROVE  /\ f.p \in Pids \cup {0} /\ f.n \in Int
         /\ f.at \in {"kill", "verify", "replace", "drop"} => f.p \in Pids
<1>1. PICK i \in DOMAIN stack : f = stack[i]
  BY DEF Held
<1>2. stack \in Seq(Frames)
  BY DEF IInv, TypeInv
<1>3. stack[i] \in Frames
  BY <1>2, LenProperties, ElementOfSeq
<1>4. Rests(stack[i], life, sig)
  BY DEF IInv, StackInv
<1> QED
  BY <1>1, <1>3, <1>4 DEF Frames, Rests

LEMMA TopHeld ==
  ASSUME IInv, stack # <<>>
  PROVE  Top \in Held /\ Top = stack[1]
  BY TopType DEF Held, IInv

LEMMA FirstFacts ==
  ASSUME Base, NoFailures
  PROVE  /\ Sorted(stack) /\ NoneDying /\ NoneReported
         /\ IsFiniteSet(listed) /\ count = Cardinality(listed) /\ count \in Nat
         /\ count # GROUP_UNUSED /\ ~(count < 0)
         /\ stack # <<>> /\ Busy(Top) => Top.p \in listed
         /\ stack # <<>> => Top.at \notin {"segv_wait", "crashed"}
<1>1. Sorted(stack) /\ NoneDying /\ NoneReported /\ Orderly(stack, listed) /\ Matches
  BY DEF Base, IInv, OrderInv, Calm, NoFailures
<1>2. count \in Nat /\ count = Cardinality(listed) /\ IsFiniteSet(listed)
  BY <1>1, FS_CardinalityType DEF Matches
<1>3. stack # <<>> => 1 \in DOMAIN stack /\ Top = stack[1]
  BY TopType DEF Base, IInv
<1> QED
  BY <1>1, <1>2, <1>3 DEF Orderly, GROUP_UNUSED

LEMMA FitsKept ==
  ASSUME IInv, ServeInv, First, stack # <<>>, NEW f \in Below,
         settled' => settled, Moves, Senders' \subseteq Senders,
         Top.at = "recv" => Top.p \notin Senders,
         f.at = "surplus" => count' >= ProcNum + f.n + (IF Dropping' = {} THEN 0 ELSE 1),
         f.at = "drop" => count' > ProcNum,
         Normal => Normal'
  PROVE  Fits(f)'
<1>1. f \in Held /\ Top = stack[1]
  BY TopHeld DEF Below
<1>2. Fits(f)
  BY <1>1 DEF ServeInv
<1>3. /\ f.p \in Pids \cup {0}
      /\ f.at \in {"kill", "verify", "replace", "drop"} => f.p \in Pids
  BY <1>1, HeldType
<1>4. f.at = "recv" /\ f.p # 0 => Told(f.p)'
  BY <1>2, <1>3 DEF Fits, Told, Moves
<1>5. f.at \in {"kill", "verify", "replace"} => ~settled' /\ life'[f.p] = "gone"
  BY <1>2, <1>3 DEF Fits, Moves
<1>6. ~(f.at = "replace" /\ f.p \in Senders')
  BY <1>1, <1>2 DEF Fits
<1>7. f.at = "surplus" => f.n \in Nat
  BY <1>2 DEF Fits
<1>8. ~Normal' => f.at \in {"recv", "check", "signals"}
  BY <1>2 DEF Fits
<1> QED
  BY <1>4, <1>5, <1>6, <1>7, <1>8 DEF Fits

\* A function that changes nothing but the stack, and may let check_group wait.
LEMMA Passing ==
  ASSUME Base, ServeInv, First, stack # <<>>, Top.at # "drop", Stacked,
         UNCHANGED <<life, sig, mq, listed, stale, count, tag, reload, aged, gen, bounds>>,
         settled' => settled,
         Top.at = "recv" => \A p \in Senders : Top.p \notin {0, p},
         \A f \in Held' \ Below : Fits(f)' /\ f.at # "drop"
  PROVE  ServeInv'
<1>1. Top = stack[1] /\ Top \in Held
  BY TopHeld DEF Base
<1>2. Held = {Top} \cup Below /\ Below \subseteq Held'
  BY DEF Stacked
<1>3. Dropping' = Dropping
  BY <1>2 DEF Dropping
<1>4. /\ Senders' = Senders /\ Late' = Late /\ Ghosts' = Ghosts /\ Young' = Young
      /\ Fresh' = Fresh /\ Hired' = Hired /\ Unborn' = Unborn /\ Normal' = Normal
  BY <1>3 DEF Senders, Late, Ghosts, Young, Fresh, Hired, Unborn, Normal, Told
<1>5. Astray' = Astray
  BY <1>4 DEF Astray
<1>6. Moves
  BY DEF Moves
<1>7. ASSUME NEW f \in Held' PROVE Fits(f)'
  <2>1. CASE f \in Below
    <3>1. f \in Held /\ Fits(f)
      BY <1>2, <2>1 DEF ServeInv
    <3> QED
      BY <1>3, <1>4, <1>6, <2>1, <3>1, FitsKept DEF Base, Fits
  <2> QED
    BY <2>1
<1>8. Fates'
  <2>1. \A p \in Senders \cap (listed \cup tag) : Told(p)
    BY <1>1 DEF ServeInv, Fates, Reading
  <2> QED
    BY <1>4, <2>1 DEF ServeInv, Fates, Told
<1>9. FewAstray'
  BY <1>5 DEF ServeInv, FewAstray
<1>10. IF Normal' THEN After' ELSE During'
  BY <1>4 DEF ServeInv, After, During, Told
<1> QED
  BY <1>7, <1>8, <1>9, <1>10 DEF ServeInv

\* The end of do_recv: there is no message that it waited for.
LEMMA NoneLeft ==
  ASSUME IInv, NextMsg = 0
  PROVE  \A p \in Senders : Top.p \notin {0, p}
<1> SUFFICES ASSUME NEW p \in Senders, Top.p \in {0, p} PROVE FALSE
  OBVIOUS
<1> DEFINE mine == {i \in DOMAIN mq : Top.p \in {0, mq[i].pid}}
<1>1. mine # {}
  BY DEF Senders
<1>2. mine \in SUBSET Nat /\ \A i \in mine : i > 0
  <2>1. mq \in Seq(Messages)
    BY DEF IInv, TypeInv
  <2>2. DOMAIN mq = 1..Len(mq) /\ Len(mq) \in Nat
    BY <2>1, LenProperties
  <2> QED
    BY <2>2
<1>3. 0 = CHOOSE i \in mine : \A j \in mine : i <= j
  BY <1>1 DEF NextMsg
<1> HIDE DEF mine
<1>4. \E i \in mine : \A j \in mine : i <= j
  BY <1>1, <1>2, Least
<1>5. 0 \in mine
  BY <1>3, <1>4
<1> QED
  BY <1>2, <1>5

LEMMA ReturnsServe ==
  ASSUME Base, ServeInv, First, RecvDone \/ SurplusTold \/ ProcsChecked
  PROVE  ServeInv'
<1>1. /\ stack # <<>> /\ Return /\ Top.at \in {"recv", "surplus", "procs"}
      /\ Top.at = "recv" => NextMsg = 0
      /\ UNCHANGED <<life, sig, mq, listed, stale, count, tag, reload, aged, gen, bounds, settled>>
  BY DEF RecvDone, SurplusTold, ProcsChecked, At, Top, procs, group, hot
<1>2. Sorted(stack)
  BY FirstFacts DEF First
<1>3. Stacked /\ Held' = Below
  BY <1>1, <1>2, ReturnStacked DEF Base
<1>4. Top.at = "recv" => \A p \in Senders : Top.p \notin {0, p}
  BY <1>1, NoneLeft DEF Base
<1> QED
  BY <1>1, <1>3, <1>4, Passing

LEMMA KillServe == ASSUME Base, ServeInv, First, KillDead PROVE ServeInv'
<1>1. Sorted(stack)
  BY FirstFacts DEF First
<1>2. /\ stack # <<>> /\ Top.at = "kill" /\ Stacked
      /\ \A f \in Held' \ Below : f.at = "verify" /\ f.p = Top.p
  BY <1>1, KillStacked DEF Base
<1>3. ~settled /\ life[Top.p] = "gone"
  BY <1>2, TopHeld DEF Base, ServeInv, Fits
<1>4. UNCHANGED <<life, mq, listed, stale, count, tag, reload, aged, gen, bounds, settled>>
  BY DEF KillDead, group, hot
<1>5. UNCHANGED sig
  <2>1. sig \in [Pids -> SUBSET Signals]
    BY DEF Base, IInv, TypeInv
  <2>2. \A p \in Pids : sig'[p] = sig[p] /\ sig' = [q \in Pids |-> sig'[q]]
    BY <1>3 DEF KillDead, Kill, Alive
  <2>3. sig' = [q \in Pids |-> sig[q]]
    BY <1>3 DEF KillDead, Kill, Alive
  <2> QED
    BY <2>1, <2>3
<1>6. ASSUME NEW f \in Held' \ Below PROVE Fits(f)' /\ f.at # "drop"
  <2>1. Normal
    BY <1>2, TopHeld DEF Base, ServeInv, Fits
  <2> QED
    BY <1>2, <1>3, <1>4, <1>6, <2>1 DEF Fits, Normal
<1> QED
  BY <1>2, <1>4, <1>5, <1>6, Passing

LEMMA VerifyServe == ASSUME Base, ServeInv, First, VerifyDead PROVE ServeInv'
<1>1. Sorted(stack)
  BY FirstFacts DEF First
<1>2. /\ stack # <<>> /\ Top.at = "verify" /\ Stacked
      /\ life[Top.p] = "gone" =>
           /\ stack' # <<>> /\ stack'[1].at = "recv" /\ stack'[1].p = Top.p
           /\ \A f \in Held' \ Below : f.at \in {"recv", "replace"} /\ f.p = Top.p
  BY <1>1, VerifyStacked DEF Base
<1>3. ~settled /\ life[Top.p] = "gone" /\ Top.p \in Pids /\ Normal
  BY <1>2, TopHeld, HeldType DEF Base, ServeInv, Fits
<1>4. UNCHANGED <<life, sig, mq, listed, stale, count, tag, reload, aged, gen, bounds, settled>>
  BY DEF VerifyDead, group, hot, procs
<1>5. Told(Top.p)
  BY <1>3 DEF ServeInv, Fates
<1>6. ASSUME NEW f \in Held' \ Below PROVE Fits(f)' /\ f.at # "drop"
  BY <1>2, <1>3, <1>4, <1>5, <1>6 DEF Fits, Normal, Told
<1> QED
  BY <1>2, <1>4, <1>6, Passing

LEMMA ProcServe == ASSUME Base, ServeInv, First, CheckProc PROVE ServeInv'
<1>1. Sorted(stack)
  BY FirstFacts DEF First
<1>2. /\ stack # <<>> /\ Top.at = "procs" /\ Stacked
      /\ \A f \in Held' \ Below : f.at = "procs" \/ (f.at = "kill" /\ f.p \in stale)
  BY <1>1, ProcStacked DEF Base
<1>3. Normal
  BY <1>2, TopHeld DEF Base, ServeInv, Fits
<1>4. /\ UNCHANGED <<life, sig, mq, listed, stale, count, tag, reload, aged, gen, bounds>>
      /\ ~settled'
  BY DEF CheckProc, group, hot, procs
<1>5. \A p \in stale : life[p] = "gone"
  BY DEF ServeInv, Fates
<1>6. ASSUME NEW f \in Held' \ Below PROVE Fits(f)' /\ f.at # "drop"
  BY <1>2, <1>3, <1>4, <1>5, <1>6 DEF Fits, Normal
<1> QED
  BY <1>2, <1>4, <1>6, Passing

\* check_group forks none: those who are not on the list are about to report.
LEMMA GroupServe == ASSUME Base, ServeInv, First, CheckGroup PROVE ServeInv'
<1>1. /\ Sorted(stack) /\ count \in Nat /\ count = Cardinality(listed) /\ ProcNum \in Nat
  BY FirstFacts, PidsAssumption DEF First
<1>2. /\ stack # <<>> /\ Top.at = "check" /\ Stacked
      /\ \A f \in Held' \ Below :
           f.at = "procs" \/ (Surplus /\ f.at = "surplus" /\ f.n = count - ProcNum)
  BY <1>1, GroupStacked DEF Base
<1>3. /\ UNCHANGED <<sig, mq, listed, stale, count, tag, reload, aged, gen, bounds>>
      /\ (settled' => settled) /\ Normal
      /\ Missing => Fork(ProcNum - count)
      /\ ~Missing => UNCHANGED life
  BY DEF CheckGroup, group, hot, Normal
<1>4. After
  BY <1>3 DEF ServeInv
<1>5. UNCHANGED life
  <2> SUFFICES ASSUME Missing PROVE UNCHANGED life
    BY <1>3
  <2>1. settled /\ count < ProcNum
    BY <1>1 DEF Missing
  <2>2. listed \cup Fresh = listed
    BY <1>4, <2>1 DEF After
  <2>3. Unborn = {}
    BY <1>1, <1>4, <2>1, <2>2 DEF After
  <2>4. \A p \in Pids : life[p] # "unborn"
    BY <2>3 DEF Unborn
  <2>5. life \in [Pids -> Lives]
    BY DEF Base, IInv, TypeInv
  <2>6. Fork(ProcNum - count)
    BY <1>3
  <2>7. life' = [p \in Pids |-> life[p]]
    BY <2>4, <2>6 DEF Fork
  <2> QED
    BY <2>5, <2>7
<1>6. Dropping' = {}
  <2>1. \A f \in Below : f.at # "drop"
    <3>1. ASSUME NEW f \in Below, f.at = "drop" PROVE FALSE
      <4>1. Rank(f) = 2 /\ Rank(Top) = 4
        BY <1>2, <3>1, Ranks
      <4> QED
        BY <3>1, <4>1 DEF Below
    <3> QED
      BY <3>1
  <2> QED
    BY <1>2, <2>1 DEF Dropping
<1>7. ASSUME NEW f \in Held' \ Below PROVE Fits(f)' /\ f.at # "drop"
  <2>1. CASE f.at = "procs"
    BY <1>3, <2>1 DEF Fits, Normal
  <2>2. CASE f.at = "surplus" /\ Surplus /\ f.n = count - ProcNum
    <3>1. f.n \in Nat /\ count' >= ProcNum + f.n + 0
      BY <1>1, <1>3, <2>2 DEF Surplus
    <3> QED
      BY <1>3, <1>6, <2>2, <3>1 DEF Fits, Normal
  <2> QED
    BY <1>2, <1>7, <2>1, <2>2
<1> QED
  BY <1>2, <1>3, <1>5, <1>7, Passing

\* do_fork starts as many processes as it is asked for, unless none is left to start.
LEMMA ForkedAll ==
  ASSUME IInv, NEW n \in Nat, Fork(n), exe \in Installed
  PROVE  /\ Unborn' = {} \/ Cardinality(Newborn) = n
         /\ Unborn = Unborn' \cup Newborn
         /\ IsFiniteSet(Newborn) /\ Cardinality(Newborn) <= n /\ Cardinality(Newborn) \in Nat
<1> DEFINE below(p) == {q \in Unborn : q < p}
           next == {p \in Unborn : Cardinality(below(p)) < n}
<1>1. life' = [p \in Pids |-> IF p \in next THEN "forked" ELSE life[p]]
  BY DEF Fork, Unborn
<1>2. Newborn = next /\ Unborn = Unborn' \cup next /\ Unborn' = Unborn \ next
  BY <1>1 DEF Newborn, Unborn
<1>3. /\ IsFiniteSet(Newborn) /\ Cardinality(Newborn) <= n /\ Cardinality(Newborn) \in Nat
  BY FewForked, FS_CardinalityType
<1>4. ASSUME Unborn' # {} PROVE Cardinality(Newborn) = n
  <2>1. Unborn' \in SUBSET Nat /\ Unborn \subseteq Nat
    BY PidsAssumption DEF Unborn
  <2>2. PICK p \in Unborn' : \A q \in Unborn' : p <= q
    BY <1>4, <2>1, Least
  <2>3. p \in Unborn /\ p \notin next /\ p \in Nat
    BY <1>2, <2>1, <2>2
  <2>4. below(p) \subseteq next
    <3>1. ASSUME NEW q \in Unborn, q < p PROVE q \in next
      <4>1. q \notin Unborn'
        <5>1. q \in Nat
          BY <2>1
        <5> QED
          BY <2>2, <2>3, <3>1, <5>1
      <4> HIDE DEF next
      <4> QED
        BY <1>2, <4>1
    <3> HIDE DEF next
    <3> QED
      BY <3>1
  <2> DEFINE B == below(p)
  <2>5. ~(Cardinality(B) < n)
    BY <2>3
  <2>6. B \subseteq Newborn
    BY <1>2, <2>4
  <2> HIDE DEF B
  <2>7. IsFiniteSet(B) /\ Cardinality(B) <= Cardinality(Newborn) /\ Cardinality(B) \in Nat
    BY <1>3, <2>6, FS_Subset, FS_CardinalityType
  <2> QED
    BY <1>3, <2>5, <2>7
<1> QED
  BY <1>2, <1>3, <1>4

\* del_proc after the messages of a process that was told to exit have been read.
LEMMA DropServe == ASSUME Base, Base', ServeInv, First, Drop PROVE ServeInv'
<1>1. /\ stack # <<>> /\ Top.at = "drop" /\ Return /\ Del(Top.p)
      /\ UNCHANGED <<life, sig, mq, tag, reload, aged, gen, bounds, settled>>
  BY DEF Drop, At, Top, procs, hot
<1>2. /\ Sorted(stack) /\ Top.p \in listed /\ ProcNum \in Nat
      /\ count \in Nat /\ count = Cardinality(listed) /\ IsFiniteSet(listed)
  BY <1>1, FirstFacts, PidsAssumption DEF First, Busy
<1>3. Stacked /\ Held' = Below
  BY <1>1, <1>2, ReturnStacked DEF Base
<1>4. Top \in Held /\ Top = stack[1] /\ Top.p \in Pids
  BY <1>1, TopHeld, HeldType DEF Base
<1>5. count > ProcNum /\ Normal
  BY <1>1, <1>4 DEF ServeInv, Fits
<1>6. Told(Top.p)
  <2>1. life[Top.p] = "gone" \/ sig[Top.p] # {}
    BY <1>1, TopType DEF Base, IInv, StackInv, Rests
  <2> QED
    BY <1>4, <2>1 DEF ServeInv, Fates, Told
<1>7. \A f \in Below : f.at # "drop"
  <2>1. ASSUME NEW f \in Below, f.at = "drop" PROVE FALSE
    <3>1. Rank(f) = 2 /\ Rank(Top) = 2
      BY <1>1, <2>1, Ranks
    <3> QED
      BY <2>1, <3>1 DEF Below
  <2> QED
    BY <2>1
<1>8. Dropping = {Top.p} /\ Dropping' = {}
  BY <1>1, <1>3, <1>4, <1>7 DEF Dropping, Stacked
<1>9. /\ listed' = listed \ {Top.p} /\ stale' = stale \ {Top.p} /\ count' = count - 1
  BY <1>1 DEF Del
<1>10. /\ Senders' = Senders /\ Late' = Late /\ Young' = Young /\ Fresh' = Fresh
       /\ Unborn' = Unborn /\ Normal' = Normal
  BY <1>1 DEF Senders, Late, Young, Fresh, Unborn, Normal, Told
<1>11. ASSUME NEW f \in Held' PROVE Fits(f)'
  <2>1. Moves
    BY <1>1 DEF Moves
  <2>2. ASSUME f.at = "surplus"
        PROVE  count' >= ProcNum + f.n + (IF Dropping' = {} THEN 0 ELSE 1)
    <3>1. f \in Held
      BY <1>3, <1>11 DEF Below
    <3>2. f.n \in Nat /\ count >= ProcNum + f.n + 1
      BY <1>8, <2>2, <3>1 DEF ServeInv, Fits
    <3> QED
      BY <1>2, <1>8, <1>9, <3>2
  <2>3. f \in Below /\ f.at # "drop"
    BY <1>3, <1>7, <1>11
  <2> QED
    BY <1>1, <1>10, <2>1, <2>2, <2>3, FitsKept DEF Base
<1>12. Fates'
  BY <1>1, <1>4, <1>9, <1>10 DEF ServeInv, Fates, Told, Reading
<1>13. FewAstray'
  <2>1. Ghosts' = Ghosts
    BY <1>1, <1>8, <1>9 DEF Ghosts, Told
  <2> QED
    BY <1>1, <1>10, <2>1 DEF ServeInv, FewAstray, Astray
<1>14. After'
  <2>1. After
    BY <1>5 DEF ServeInv
  <2>2. Fresh \subseteq listed => Fresh \subseteq listed'
    BY <1>6, <1>9 DEF Fresh
  <2>3. IsFiniteSet(listed') /\ Cardinality(listed') = count - 1
    BY <1>2, <1>9, FS_RemoveElement
  <2> DEFINE S == listed' \cup Fresh
  <2>4. IsFiniteSet(S) /\ listed' \subseteq S
    BY <2>1, <2>3, FS_Union DEF After
  <2> HIDE DEF S
  <2>5. Cardinality(listed') <= Cardinality(S) /\ Cardinality(S) \in Nat
    BY <2>4, FS_Subset, FS_CardinalityType
  <2>6. Cardinality(S) >= ProcNum
    BY <1>2, <1>5, <2>3, <2>5
  <2> QED
    BY <1>1, <1>10, <2>1, <2>2, <2>6 DEF After, S
<1> QED
  BY <1>5, <1>10, <1>11, <1>12, <1>13, <1>14 DEF ServeInv

\* One process is told to exit: it was on the list, so it has no report on its way.
LEMMA TellServe == ASSUME Base, ServeInv, First, TellSurplus PROVE ServeInv'
<1>1. PICK p \in listed :
        /\ Kill({p}, "quit")
        /\ Continue(<<RecvOf(p), Frame("drop", p, 0, {}), Frame("surplus", 0, Top.n - 1, {})>>)
  BY DEF TellSurplus, Tell
<1>2. UNCHANGED <<life, mq, listed, stale, count, tag, reload, aged, gen, bounds, settled>>
  BY DEF TellSurplus, group, hot
<1>3. /\ Sorted(stack) /\ ProcNum \in Nat /\ count \in Nat
      /\ count = Cardinality(listed) /\ IsFiniteSet(listed) /\ p \in Pids
  BY FirstFacts, PidsAssumption DEF First, Base, IInv, TypeInv
<1>4. /\ stack # <<>> /\ Top.at = "surplus" /\ Top.n \in Int /\ Top.n > 0 /\ Stacked
      /\ \A f \in Held' \ Below :
           \/ f.at \in {"recv", "drop"} /\ f.p = p
           \/ f.at = "surplus" /\ f.n = Top.n - 1
      /\ \E f \in Held' : f.at = "drop" /\ f.p = p
  BY <1>1, <1>3, TellStacked DEF Base
<1>5. Top \in Held /\ Top = stack[1]
  BY <1>4, TopHeld DEF Base
<1>6. /\ count >= ProcNum + Top.n + (IF Dropping = {} THEN 0 ELSE 1) /\ Normal
  BY <1>4, <1>5 DEF ServeInv, Fits
<1>7. \A f \in Below : f.at \notin {"drop", "surplus"}
  <2>1. ASSUME NEW f \in Below, f.at \in {"drop", "surplus"} PROVE FALSE
    <3>1. Rank(f) \in {2, 3} /\ Rank(Top) = 3
      BY <1>4, <2>1, Ranks
    <3> QED
      BY <2>1, <3>1 DEF Below
  <2> QED
    BY <2>1
<1>8. Dropping = {} /\ Dropping' = {p}
  <2>1. Dropping = {}
    BY <1>4, <1>7 DEF Dropping, Stacked
  <2>2. Dropping' \subseteq {p}
    BY <1>4, <1>7 DEF Dropping
  <2>3. p \in Dropping'
    BY <1>3, <1>4 DEF Dropping
  <2> QED
    BY <2>1, <2>2, <2>3
<1>9. \A q \in Pids : sig'[q] = IF q \in {p} \cap Alive THEN sig[q] \cup {"quit"} ELSE sig[q]
  BY <1>1 DEF Kill
<1>10. life[p] \notin {"unborn", "forked"}
  BY DEF Base, CountInv, Started
<1>11. \A q \in Pids : Told(q)' <=> Told(q) \/ q = p
  BY <1>9, <1>10 DEF Told, ServeInv, Fates, Alive
<1>12. \A q \in Senders \cap (listed \cup tag) : Told(q)
  BY <1>4, <1>5 DEF ServeInv, Fates, Reading
<1>13. Senders' = Senders /\ Unborn' = Unborn /\ Normal' = Normal /\ Senders \subseteq Pids
  BY <1>2, SendersKnown DEF Senders, Unborn, Normal, Base
<1>14. Fates'
  BY <1>2, <1>3, <1>10, <1>11, <1>12, <1>13 DEF ServeInv, Fates, Base, IInv, TypeInv
<1>15. ASSUME NEW f \in Held' PROVE Fits(f)'
  <2>1. Moves
    BY <1>2, <1>9 DEF Moves
  <2>2. CASE f \in Below
    BY <1>2, <1>4, <1>7, <1>13, <2>1, <2>2, FitsKept DEF Base
  <2>3. CASE f.at \in {"recv", "drop"} /\ f.p = p
    <3>1. count' > ProcNum
      BY <1>2, <1>3, <1>4, <1>6
    <3> QED
      BY <1>3, <1>6, <1>11, <1>13, <2>3, <3>1 DEF Fits
  <2>4. CASE f.at = "surplus" /\ f.n = Top.n - 1
    <3>1. f.n \in Nat /\ count' >= ProcNum + f.n + 1
      BY <1>2, <1>3, <1>4, <1>6, <2>4
    <3> QED
      BY <1>6, <1>8, <1>13, <2>4, <3>1 DEF Fits
  <2> QED
    BY <1>4, <2>2, <2>3, <2>4
<1>16. FewAstray'
  <2>1. Late' \subseteq Late
    BY <1>11, <1>12, <1>13 DEF Late
  <2>2. Ghosts' \subseteq Ghosts
    BY <1>2, <1>8, <1>11 DEF Ghosts, Base, IInv, TypeInv
  <2>3. Young' \subseteq Young
    BY <1>2, <1>11 DEF Young
  <2>4. Astray' \subseteq Astray
    BY <1>13, <2>1, <2>2, <2>3 DEF Astray
  <2>5. /\ IsFiniteSet(Astray) /\ Cardinality(Astray) <= bounds["late"] /\ bounds["late"] \in Nat
    BY DEF ServeInv, FewAstray, Base, IInv, TypeInv, Counters
  <2>6. /\ IsFiniteSet(Astray') /\ Cardinality(Astray') <= Cardinality(Astray)
        /\ Cardinality(Astray') \in Nat /\ Cardinality(Astray) \in Nat
    BY <2>4, <2>5, FS_Subset, FS_CardinalityType
  <2> QED
    BY <1>2, <2>5, <2>6 DEF FewAstray
<1>17. After'
  <2>1. Fresh' = Fresh \ {p}
    BY <1>2, <1>11 DEF Fresh
  <2>2. listed' \cup Fresh' = listed \cup Fresh /\ Fresh' \subseteq Fresh
    BY <1>2, <2>1
  <2>3. After
    BY <1>6 DEF ServeInv
  <2>4. IsFiniteSet(Fresh')
    BY <2>2, <2>3, FS_Subset DEF After
  <2> QED
    BY <1>2, <1>13, <2>2, <2>3, <2>4 DEF After
<1> QED
  BY <1>6, <1>13, <1>14, <1>15, <1>16, <1>17 DEF ServeInv

\* What is needed of the constants: a reload is only asked for when the group is complete,
\* nothing is slow, there is one reload, not every worker's report may come late, the
\* program of the reloaded group is there, and there is always another process to start.
Mild ==
  /\ ~Hasty /\ MaxSlow = 0 /\ MaxReloads <= 1 /\ MaxLate < ProcNum
  /\ "spp_worker" \in Installed
  /\ \A S \in SUBSET Pids : IsFiniteSet(S) /\ Cardinality(S) <= ProcNum => S # Pids

LEMMA Swapped ==
  ASSUME NEW A, IsFiniteSet(A), NEW p \in A, NEW N, IsFiniteSet(N), N \cap A = {},
         Cardinality(N) = 1
  PROVE  IsFiniteSet((A \ {p}) \cup N) /\ Cardinality((A \ {p}) \cup N) = Cardinality(A)
<1> DEFINE B == A \ {p}
<1>1. IsFiniteSet(B) /\ Cardinality(B) = Cardinality(A) - 1 /\ Cardinality(A) \in Nat
  BY FS_RemoveElement, FS_CardinalityType
<1>2. B \cap N = {}
  OBVIOUS
<1> HIDE DEF B
<1>3. /\ IsFiniteSet(B \cup N)
      /\ Cardinality(B \cup N) = Cardinality(B) + Cardinality(N) - Cardinality(B \cap N)
  BY <1>1, FS_Union
<1>4. Cardinality(B \cap N) = 0
  BY <1>2, FS_EmptySet
<1> QED
  BY <1>1, <1>3, <1>4 DEF B

\* A process in place of one that is gone.
LEMMA ReplaceServe == ASSUME Mild, Base, ServeInv, First, Replace PROVE ServeInv'
<1> DEFINE p == Top.p
<1>1. /\ stack # <<>> /\ Top.at = "replace"
      /\ UNCHANGED <<sig, mq, tag, reload, aged, gen, bounds, settled>>
  BY DEF Replace, At, Top, hot
<1>2. /\ Sorted(stack) /\ p \in listed /\ ProcNum \in Nat
      /\ count \in Nat /\ count = Cardinality(listed) /\ IsFiniteSet(listed)
  BY <1>1, FirstFacts, PidsAssumption DEF First, Busy
<1>3. Del(p) /\ Fork(1) /\ Return
  BY <1>2 DEF Replace
<1>4. Stacked /\ Held' = Below
  BY <1>1, <1>2, <1>3, ReturnStacked DEF Base
<1>5. Top \in Held /\ Top = stack[1] /\ p \in Pids
  BY <1>1, TopHeld, HeldType DEF Base
<1>6. ~settled /\ Normal /\ life[p] = "gone" /\ p \notin Senders
  BY <1>1, <1>5 DEF ServeInv, Fits
<1> HIDE DEF p
<1>7. Told(p) /\ tag = {}
  BY <1>5, <1>6 DEF ServeInv, Fates, Base, IInv, ReloadInv, Normal
<1>8. \A f \in Below : f.at \notin {"drop", "surplus"}
  <2>1. ASSUME NEW f \in Below, f.at \in {"drop", "surplus"} PROVE FALSE
    <3>1. Rank(f) \in {2, 3} /\ Rank(Top) = 3
      BY <1>1, <2>1, Ranks
    <3> QED
      BY <2>1, <3>1 DEF Below
  <2> QED
    BY <2>1
<1>9. Dropping = {} /\ Dropping' = {}
  BY <1>1, <1>4, <1>8 DEF Dropping, Stacked
<1>10. listed' = listed \ {p} /\ stale' = stale \ {p}
  BY <1>3 DEF Del
<1>11. exe \in Installed
  BY DEF Mild, Base, BoundsInv, First
<1>12. /\ Unborn' = {} \/ Cardinality(Newborn) = 1
       /\ Unborn = Unborn' \cup Newborn
       /\ IsFiniteSet(Newborn) /\ Cardinality(Newborn) <= 1 /\ Cardinality(Newborn) \in Nat
  BY <1>3, <1>11, ForkedAll DEF Base
<1>13. /\ Moves
       /\ \A q \in Pids : life'[q] = IF q \in Newborn THEN "forked" ELSE life[q]
       /\ \A q \in Newborn : q \in Pids /\ life[q] = "unborn"
  <2>1. Moves /\ \A q \in Pids : \/ life'[q] = life[q]
                                 \/ life[q] = "unborn" /\ life'[q] = "forked"
    BY <1>1, <1>3, Forked DEF Base, IInv
  <2> QED
    BY <2>1 DEF Newborn
<1>14. \A q \in Newborn : ~Told(q)
  BY <1>13 DEF ServeInv, Fates
<1>15. Senders' = Senders /\ Normal' = Normal /\ \A q : Told(q)' <=> Told(q)
  BY <1>1 DEF Senders, Normal, Told
<1>16. ASSUME NEW f \in Held' PROVE Fits(f)'
  BY <1>1, <1>4, <1>8, <1>13, <1>15, <1>16, FitsKept DEF Base
<1>17. Fates'
  BY <1>1, <1>5, <1>7, <1>10, <1>13, <1>14, <1>15 DEF ServeInv, Fates, Reading, Base, IInv, TypeInv
<1>18. FewAstray'
  <2>1. Late' = Late /\ p \notin Late
    BY <1>6, <1>15 DEF Late
  <2>2. Ghosts' = Ghosts \ {p} /\ p \in Ghosts
    BY <1>2, <1>7, <1>9, <1>10, <1>15 DEF Ghosts
  <2>3. Young' \subseteq Young \cup Newborn /\ p \notin Young
    BY <1>7, <1>13, <1>15 DEF Young
  <2>4. Astray' \subseteq (Astray \ {p}) \cup Newborn /\ p \in Astray
    BY <1>6, <1>15, <2>1, <2>2, <2>3 DEF Astray
  <2>5. /\ IsFiniteSet(Astray) /\ Cardinality(Astray) <= bounds["late"] /\ bounds["late"] \in Nat
    BY DEF ServeInv, FewAstray, Base, IInv, TypeInv, Counters
  <2> DEFINE A == Astray \ {p}
             T == Astray'
             n == bounds["late"]
  <2>6. IsFiniteSet(A) /\ Cardinality(A) = Cardinality(Astray) - 1 /\ Cardinality(Astray) \in Nat
    BY <2>4, <2>5, FS_RemoveElement, FS_CardinalityType
  <2>7. Cardinality(A) + Cardinality(Newborn) <= n /\ T \subseteq A \cup Newborn /\ n \in Nat
    BY <1>12, <2>4, <2>5, <2>6
  <2> HIDE DEF A, T, n
  <2>8. IsFiniteSet(T) /\ Cardinality(T) <= n
    BY <1>12, <2>6, <2>7, FewMore
  <2> QED
    BY <1>1, <2>8 DEF FewAstray, T, n
<1>19. After'
  <2>1. After
    BY <1>6 DEF ServeInv
  <2>2. Fresh' = Fresh \cup Newborn /\ p \notin Fresh /\ Newborn \cap Fresh = {}
    BY <1>7, <1>13, <1>14, <1>15 DEF Fresh
  <2>3. IsFiniteSet(Fresh')
    BY <1>12, <2>1, <2>2, FS_Union DEF After
  <2>4. ASSUME Unborn' # {} PROVE Cardinality(listed' \cup Fresh') >= ProcNum
    <3> DEFINE A == listed \cup Fresh
    <3>1. Cardinality(A) >= ProcNum /\ Cardinality(Newborn) = 1
      BY <1>12, <2>1, <2>4 DEF After
    <3>2. listed \cap Newborn = {}
      BY <1>13 DEF Base, IInv, Known
    <3>3. listed' \cup Fresh' = (A \ {p}) \cup Newborn /\ p \in A /\ Newborn \cap A = {}
      BY <1>2, <1>10, <2>2, <3>2
    <3>4. IsFiniteSet(A)
      BY <1>2, <2>1, FS_Union DEF After
    <3> HIDE DEF A
    <3>5. Cardinality((A \ {p}) \cup Newborn) = Cardinality(A)
      BY <1>12, <3>1, <3>3, <3>4, Swapped
    <3> QED
      BY <3>1, <3>3, <3>5
  <2> QED
    BY <1>1, <1>6, <2>3, <2>4 DEF After
<1> QED
  BY <1>6, <1>15, <1>16, <1>17, <1>18, <1>19 DEF ServeInv

-----------------------------------------------------------------------------
(* The steps of the reload. *)

LEMMA ReloadFacts ==
  ASSUME Base, ServeInv, First, NEW state, CheckReload(state), ~Normal
  PROVE  /\ During /\ Fates /\ stack # <<>>
         /\ \A q \in Senders \cap (listed \cup tag) : Told(q)
         /\ \A f \in Held' : f.at = "signals"
         /\ UNCHANGED <<mq, listed, stale, count, gen, bounds, settled>>
         /\ Senders' = Senders /\ Late \subseteq Astray
<1>1. /\ stack # <<>> /\ Top.at = "check" /\ Return
      /\ UNCHANGED <<mq, listed, stale, count, gen, bounds, settled>>
  BY DEF CheckReload, At, Top, group
<1>2. Sorted(stack)
  BY FirstFacts DEF First
<1>3. Stacked /\ Held' = Below
  BY <1>1, <1>2, ReturnStacked DEF Base
<1>4. \A f \in Held' : f.at = "signals"
  <2>1. ASSUME NEW f \in Below PROVE f.at = "signals"
    <3>1. Rank(Top) = 4 /\ Rank(f) > Rank(Top) /\ f \in Held
      BY <1>1, Ranks DEF Below
    <3>2. f.at \in {"recv", "check", "signals"}
      BY <3>1 DEF ServeInv, Fits
    <3> QED
      BY <3>1, <3>2, Ranks
  <2> QED
    BY <1>3, <2>1
<1>5. Top = stack[1]
  BY <1>1, TopHeld DEF Base
<1>6. \A q \in Senders \cap (listed \cup tag) : Told(q)
  BY <1>1, <1>5 DEF ServeInv, Fates, Reading
<1> QED
  BY <1>1, <1>4, <1>6 DEF ServeInv, Senders, Astray

LEMMA SignalsFit ==
  ASSUME NEW f, f.at \in {"check", "signals"} \/ (f.at = "recv" /\ f.p = 0)
  PROVE  Fits(f)'
  BY DEF Fits

LEMMA StillFew ==
  ASSUME Base, ServeInv, First, Astray' \subseteq Astray, UNCHANGED bounds
  PROVE  FewAstray'
<1>1. /\ IsFiniteSet(Astray) /\ Cardinality(Astray) <= bounds["late"] /\ bounds["late"] \in Nat
  BY DEF ServeInv, FewAstray, Base, IInv, TypeInv, Counters
<1>2. /\ IsFiniteSet(Astray') /\ Cardinality(Astray') <= Cardinality(Astray)
      /\ Cardinality(Astray') \in Nat /\ Cardinality(Astray) \in Nat
  BY <1>1, FS_Subset, FS_CardinalityType
<1> QED
  BY <1>1, <1>2 DEF FewAstray

LEMMA StartServe == ASSUME Mild, Base, ServeInv, First, ReloadStart PROVE ServeInv'
<1>1. /\ reload = PROC_RELOAD_START /\ CheckReload(PROC_RELOAD_START) /\ ~Normal
      /\ Fork(ProcNum) /\ reload' = PROC_RELOAD_WAIT_NEW /\ aged' = FALSE
      /\ UNCHANGED <<sig, tag>> /\ ~Normal'
  BY DEF ReloadStart, CheckReload, Normal, PROC_RELOAD_START, PROC_RELOAD_NORMAL,
         PROC_RELOAD_WAIT_NEW
<1>2. /\ During /\ Fates /\ stack # <<>>
      /\ \A q \in Senders \cap (listed \cup tag) : Told(q)
      /\ \A f \in Held' : f.at = "signals"
      /\ UNCHANGED <<mq, listed, stale, count, gen, bounds, settled>>
      /\ Senders' = Senders /\ Late \subseteq Astray
  BY <1>1, ReloadFacts
<1>3. exe \in Installed /\ ProcNum \in Nat /\ ProcNum > 0
  BY PidsAssumption DEF Mild, Base, BoundsInv, First
<1>4. /\ Unborn' = {} \/ Cardinality(Newborn) = ProcNum
      /\ Unborn = Unborn' \cup Newborn
      /\ IsFiniteSet(Newborn) /\ Cardinality(Newborn) <= ProcNum
  BY <1>1, <1>3, ForkedAll DEF Base
<1>5. /\ \A q \in Pids : life'[q] = IF q \in Newborn THEN "forked" ELSE life[q]
      /\ \A q \in Newborn : q \in Pids /\ life[q] = "unborn"
  <2>1. \A q \in Pids : \/ life'[q] = life[q]
                        \/ life[q] = "unborn" /\ life'[q] = "forked"
    BY <1>1, Forked DEF Base, IInv
  <2> QED
    BY <2>1 DEF Newborn
<1>6. \A q : Told(q)' <=> Told(q)
  BY <1>1 DEF Told
<1>7. tag \subseteq Pids /\ listed \subseteq Pids /\ stale \subseteq Pids
  BY DEF Base, IInv, TypeInv
<1>8. Fates'
  BY <1>1, <1>2, <1>5, <1>6, <1>7 DEF Fates
<1>9. FewAstray'
  <2>1. Late' \subseteq Late
    BY <1>2, <1>6 DEF Late
  <2>2. Astray' \subseteq Astray
    BY <1>1, <1>2, <2>1 DEF Astray
  <2> QED
    BY <1>2, <2>2, StillFew
<1>10. Hired' = Newborn
  <2>1. Hired = {} /\ \A q \in tag : life[q] # "unborn"
    BY <1>1, <1>2 DEF During, Fates
  <2> QED
    BY <1>1, <1>5, <2>1 DEF Hired
<1>11. Newborn # {}
  <2> SUFFICES ASSUME Newborn = {} PROVE FALSE
    OBVIOUS
  <2>1. Unborn' # {}
    BY <1>1, <1>2, <1>4 DEF During
  <2>2. Cardinality(Newborn) = 0
    BY FS_EmptySet
  <2> QED
    BY <1>3, <1>4, <2>1, <2>2
<1>12. During'
  BY <1>1, <1>2, <1>4, <1>5, <1>6, <1>7, <1>10, <1>11 DEF During, PROC_RELOAD_START,
     PROC_RELOAD_WAIT_NEW, PROC_RELOAD_KILLOLD, PROC_RELOAD_CLEAR
<1> QED
  BY <1>1, <1>2, <1>8, <1>9, <1>12, SignalsFit DEF ServeInv

\* A signal to the old processes.
LEMMA OldTold ==
  ASSUME Base, ServeInv, First, During, Kill(tag, "reload"), UNCHANGED <<life, tag, mq>>,
         \A q \in Senders \cap (listed \cup tag) : Told(q)
  PROVE  /\ \A q \in Pids : Told(q)' <=> Told(q) \/ q \in tag
         /\ Late' = Late /\ \A q \in tag : Told(q)'
<1>1. \A q \in Pids : sig'[q] = IF q \in tag \cap Alive THEN sig[q] \cup {"reload"} ELSE sig[q]
  BY DEF Kill
<1>2. \A q \in tag : life[q] # "unborn" /\ (life[q] = "gone" => Told(q)) /\ q \in Pids
  BY DEF ServeInv, Fates, Base, IInv, TypeInv
<1>3. \A q \in Pids : Told(q)' <=> Told(q) \/ q \in tag
  BY <1>1, <1>2 DEF Told, Alive
<1>4. Senders' = Senders /\ Senders \subseteq Pids
  BY SendersKnown DEF Senders, Base
<1> QED
  BY <1>2, <1>3, <1>4 DEF Late

\* The new processes that were asked for are all on the list.
LEMMA AllHired ==
  ASSUME Base, First, During, NewReady
  PROVE  Hired \subseteq listed
<1>1. /\ IsFiniteSet(listed) /\ count = Cardinality(listed) /\ count \in Nat /\ ~(count < 0)
      /\ ProcNum \in Nat
  BY FirstFacts, PidsAssumption DEF First
<1>2. IsFiniteSet(Hired) /\ Cardinality(Hired) <= ProcNum /\ listed \subseteq Hired
  BY DEF During, Hired, Base, IInv, TypeInv
<1>3. Cardinality(listed) <= Cardinality(Hired) /\ Cardinality(Hired) \in Nat
  BY <1>2, FS_Subset, FS_CardinalityType
<1>4. Cardinality(listed) = Cardinality(Hired)
  BY <1>1, <1>2, <1>3 DEF NewReady
<1>5. listed = Hired
  BY <1>2, <1>4, FS_Subset
<1> QED
  BY <1>5

LEMMA WaitServe == ASSUME Base, ServeInv, First, ReloadWaitNew PROVE ServeInv'
<1>1. /\ reload = PROC_RELOAD_WAIT_NEW /\ CheckReload(PROC_RELOAD_WAIT_NEW) /\ ~Normal
      /\ UNCHANGED <<life, tag>> /\ ~Normal'
  BY DEF ReloadWaitNew, CheckReload, Normal, PROC_RELOAD_KILLOLD, PROC_RELOAD_NORMAL,
         PROC_RELOAD_WAIT_NEW
<1>2. /\ During /\ Fates /\ stack # <<>>
      /\ \A q \in Senders \cap (listed \cup tag) : Told(q)
      /\ \A f \in Held' : f.at = "signals"
      /\ UNCHANGED <<mq, listed, stale, count, gen, bounds, settled>>
      /\ Senders' = Senders /\ Late \subseteq Astray
  BY <1>1, ReloadFacts
<1>3. Hired' = Hired /\ Unborn' = Unborn
  BY <1>1 DEF Hired, Unborn
<1>4. CASE NewReady \/ aged
  <2>1. Kill(tag, "reload") /\ reload' = PROC_RELOAD_KILLOLD /\ aged' = FALSE
    BY <1>4 DEF ReloadWaitNew
  <2>2. /\ \A q \in Pids : Told(q)' <=> Told(q) \/ q \in tag
        /\ Late' = Late /\ \A q \in tag : Told(q)'
    BY <1>1, <1>2, <2>1, OldTold
  <2>3. Hired \subseteq listed
    BY <1>1, <1>2, <1>4, AllHired DEF During
  <2>4. Fates'
    BY <1>1, <1>2, <2>2, SendersKnown DEF Fates, Base
  <2>5. FewAstray'
    <3>1. Astray' \subseteq Astray
      BY <1>1, <1>2, <2>2 DEF Astray
    <3> QED
      BY <1>2, <3>1, StillFew
  <2>6. During'
    BY <1>1, <1>2, <1>3, <2>1, <2>2, <2>3 DEF During, PROC_RELOAD_START,
       PROC_RELOAD_WAIT_NEW, PROC_RELOAD_KILLOLD, PROC_RELOAD_CLEAR
  <2> QED
    BY <1>1, <1>2, <2>4, <2>5, <2>6, SignalsFit DEF ServeInv
<1>5. CASE ~(NewReady \/ aged)
  <2>1. UNCHANGED <<sig, reload, aged>>
    BY <1>5 DEF ReloadWaitNew
  <2>2. \A q : Told(q)' <=> Told(q)
    BY <2>1 DEF Told
  <2>3. Fates'
    BY <1>1, <1>2, <2>2 DEF Fates
  <2>4. FewAstray'
    <3>1. Late' = Late
      BY <1>2, <2>2 DEF Late
    <3>2. Astray' \subseteq Astray
      BY <1>1, <1>2, <3>1 DEF Astray
    <3> QED
      BY <1>2, <3>2, StillFew
  <2>5. During'
    BY <1>1, <1>2, <1>3, <2>1, <2>2 DEF During
  <2> QED
    BY <1>1, <1>2, <2>3, <2>4, <2>5, SignalsFit DEF ServeInv
<1> QED
  BY <1>4, <1>5

LEMMA KillOldServe == ASSUME Base, ServeInv, First, ReloadKillOld PROVE ServeInv'
<1>1. /\ reload = PROC_RELOAD_KILLOLD /\ CheckReload(PROC_RELOAD_KILLOLD) /\ ~Normal
      /\ UNCHANGED <<life, tag>> /\ ~Normal'
      /\ Kill(tag, "reload") /\ reload' = PROC_RELOAD_CLEAR /\ aged' = FALSE
  BY DEF ReloadKillOld, CheckReload, Normal, PROC_RELOAD_KILLOLD, PROC_RELOAD_NORMAL,
         PROC_RELOAD_CLEAR
<1>2. /\ During /\ Fates /\ stack # <<>>
      /\ \A q \in Senders \cap (listed \cup tag) : Told(q)
      /\ \A f \in Held' : f.at = "signals"
      /\ UNCHANGED <<mq, listed, stale, count, gen, bounds, settled>>
      /\ Senders' = Senders /\ Late \subseteq Astray
  BY <1>1, ReloadFacts
<1>3. Hired' = Hired /\ Unborn' = Unborn
  BY <1>1 DEF Hired, Unborn
<1>4. /\ \A q \in Pids : Told(q)' <=> Told(q) \/ q \in tag
      /\ Late' = Late /\ \A q \in tag : Told(q)'
  BY <1>1, <1>2, OldTold
<1>5. Fates'
  BY <1>1, <1>2, <1>4, SendersKnown DEF Fates, Base
<1>6. FewAstray'
  <2>1. Astray' \subseteq Astray
    BY <1>1, <1>2, <1>4 DEF Astray
  <2> QED
    BY <1>2, <2>1, StillFew
<1>7. During'
  BY <1>1, <1>2, <1>3, <1>4 DEF During, PROC_RELOAD_START,
     PROC_RELOAD_WAIT_NEW, PROC_RELOAD_KILLOLD, PROC_RELOAD_CLEAR
<1> QED
  BY <1>1, <1>2, <1>5, <1>6, <1>7, SignalsFit DEF ServeInv

LEMMA ClearServe == ASSUME Base, ServeInv, First, ReloadClear PROVE ServeInv'
<1>1. /\ reload = PROC_RELOAD_CLEAR /\ CheckReload(PROC_RELOAD_CLEAR) /\ ~Normal
      /\ UNCHANGED <<sig, aged>>
  BY DEF ReloadClear, CheckReload, Normal, PROC_RELOAD_NORMAL, PROC_RELOAD_CLEAR
<1>2. /\ During /\ Fates /\ stack # <<>>
      /\ \A q \in Senders \cap (listed \cup tag) : Told(q)
      /\ \A f \in Held' : f.at = "signals"
      /\ UNCHANGED <<mq, listed, stale, count, gen, bounds, settled>>
      /\ Senders' = Senders /\ Late \subseteq Astray
  BY <1>1, ReloadFacts
<1>3. \A q : Told(q)' <=> Told(q)
  BY <1>1 DEF Told
<1>4. Late' = Late
  BY <1>2, <1>3 DEF Late
<1>5. /\ Hired \subseteq listed /\ \A q \in tag : Told(q)
      /\ Cardinality(Hired) = ProcNum \/ Unborn = {}
      /\ Hired # {} /\ IsFiniteSet(Hired)
  BY <1>1, <1>2 DEF During, PROC_RELOAD_CLEAR, PROC_RELOAD_START, PROC_RELOAD_KILLOLD
<1>6. CASE OldGone
  <2>1. tag' = {} /\ Normal' /\ UNCHANGED life
    BY <1>6 DEF ReloadClear, Normal
  <2>2. Fates'
    BY <1>1, <1>2, <1>3, <2>1 DEF Fates
  <2>3. /\ Ghosts' = {} /\ Young' = {} /\ Fresh' \subseteq Hired /\ Hired \subseteq Fresh'
    <3>1. \A q \in Pids : Told(q) <=> q \in tag
      BY <1>2, <1>5 DEF During
    <3>2. \A q \in Hired : life[q] = "up"
      BY <1>2, <1>5 DEF During
    <3>3. listed \subseteq Pids \ tag
      BY <1>2 DEF During, Base, IInv, TypeInv
    <3>4. Fresh' \subseteq Hired /\ Hired \subseteq Fresh'
      BY <1>3, <2>1, <3>1, <3>2 DEF Fresh, Hired
    <3>5. Young' = {}
      BY <1>3, <2>1, <3>1, <3>2 DEF Young, Hired
    <3>6. Ghosts' = {}
      BY <1>2, <1>3, <3>1, <3>3 DEF Ghosts
    <3> QED
      BY <3>4, <3>5, <3>6
  <2>4. FewAstray'
    <3>1. Astray' \subseteq Astray
      BY <1>2, <1>4, <2>3 DEF Astray
    <3> QED
      BY <1>2, <3>1, StillFew
  <2>5. After'
    <3>1. Fresh' = Hired /\ listed' \cup Fresh' = listed /\ Unborn' = Unborn
      BY <1>2, <1>5, <2>1, <2>3 DEF Unborn
    <3>2. IsFiniteSet(listed)
      BY FirstFacts DEF First
    <3>3. Cardinality(Hired) <= Cardinality(listed) /\ Cardinality(listed) \in Nat
          /\ Cardinality(Hired) \in Nat
      BY <1>5, <3>2, FS_Subset, FS_CardinalityType
    <3> QED
      BY <1>2, <1>5, <3>1, <3>3, PidsAssumption DEF After
  <2> QED
    BY <1>2, <2>1, <2>2, <2>4, <2>5, SignalsFit DEF ServeInv
<1>7. CASE ~OldGone
  <2>1. /\ UNCHANGED <<tag, reload>> /\ ~Normal'
        /\ \A q \in Pids : life'[q] = IF aged /\ q \in tag THEN "gone" ELSE life[q]
    BY <1>1, <1>7 DEF ReloadClear, Normal
  <2>2. Fates'
    BY <1>2, <1>3, <1>5, <2>1 DEF Fates, Base, IInv, TypeInv
  <2>3. FewAstray'
    <3>1. Astray' \subseteq Astray
      BY <1>2, <1>4, <2>1 DEF Astray
    <3> QED
      BY <1>2, <3>1, StillFew
  <2>4. Hired' = Hired /\ Unborn' = Unborn
    <3>1. \A q \in tag : life[q] # "unborn"
      BY <1>2 DEF Fates
    <3> QED
      BY <2>1, <3>1 DEF Hired, Unborn
  <2>5. During'
    <3>1. \A q \in listed : life'[q] = "up"
      BY <1>2, <2>1 DEF During, Base, IInv, TypeInv
    <3> QED
      BY <1>1, <1>2, <1>3, <2>1, <2>4, <3>1 DEF During
  <2> QED
    BY <1>2, <2>1, <2>2, <2>3, <2>5, SignalsFit DEF ServeInv
<1> QED
  BY <1>6, <1>7

-----------------------------------------------------------------------------
(* Reading, and the start of a cycle and of the reload. *)

LEMMA ReadMessage ==
  ASSUME Base, NoFailures, Recv
  PROVE  LET msg == mq[NextMsg]
         IN  /\ stack # <<>> /\ Top.at = "recv" /\ Note(msg)
             /\ UNCHANGED <<life, sig, tag, reload, aged, gen, bounds, settled, stack>>
             /\ msg.pid \in Pids /\ msg.pid \in Senders /\ Top.p \in {0, msg.pid}
             /\ msg.kind # "exception" /\ msg \in Messages
             /\ msg.kind = "ready" => Grown(life[msg.pid])
             /\ Senders' \subseteq Senders
<1> DEFINE n == NextMsg
           msg == mq[n]
<1>1. /\ stack # <<>> /\ Top.at = "recv" /\ n > 0 /\ mq' = Without(n)
      /\ UNCHANGED <<life, sig, tag, reload, aged, gen, bounds, settled>>
  BY DEF Recv, At, Top, procs, hot
<1>2. n \in DOMAIN mq /\ msg \in Messages
  BY <1>1, Received DEF Base, IInv
<1>3. msg.pid \in Senders /\ Senders' \subseteq Senders
  BY <1>1, ReadFrom DEF Base
<1>4. Top.p \in {0, msg.pid}
  <2> DEFINE mine == {i \in DOMAIN mq : Top.p \in {0, mq[i].pid}}
  <2>1. mine # {} /\ n = CHOOSE i \in mine : \A j \in mine : i <= j
    BY <1>1 DEF NextMsg
  <2>2. mine \in SUBSET Nat
    <3>1. mq \in Seq(Messages)
      BY DEF Base, IInv, TypeInv
    <3>2. DOMAIN mq = 1..Len(mq) /\ Len(mq) \in Nat
      BY <3>1, LenProperties
    <3> QED
      BY <3>2
  <2> HIDE DEF mine, n
  <2>3. \E i \in mine : \A j \in mine : i <= j
    BY <2>1, <2>2, Least
  <2>4. n \in mine
    BY <2>1, <2>3
  <2> QED
    BY <2>4 DEF mine
<1>5. count # GROUP_UNUSED /\ msg.kind # "exception"
  BY <1>2, FirstFacts DEF NoneReported
<1>6. Note(msg) /\ UNCHANGED stack
  BY <1>5 DEF Recv
<1>7. msg.kind = "ready" => Grown(life[msg.pid])
  BY <1>2 DEF Base, OrderInv, Ready, Grown
<1>8. msg.pid \in Pids
  BY <1>2 DEF Messages
<1> QED
  BY <1>1, <1>2, <1>3, <1>4, <1>5, <1>6, <1>7, <1>8

LEMMA RecvServe == ASSUME Base, Base', ServeInv, First, Recv PROVE ServeInv'
<1> DEFINE msg == mq[NextMsg]
           m == msg.pid
<1>1. /\ stack # <<>> /\ Top.at = "recv" /\ Note(msg)
      /\ UNCHANGED <<life, sig, tag, reload, aged, gen, bounds, settled, stack>>
      /\ m \in Pids /\ m \in Senders /\ Top.p \in {0, m}
      /\ msg.kind # "exception" /\ msg \in Messages
      /\ msg.kind = "ready" => Grown(life[m])
      /\ Senders' \subseteq Senders
  BY ReadMessage DEF First
<1> HIDE DEF msg
<1>2. /\ listed' = listed \/ (listed' = listed \cup {m} /\ IsNew(msg))
      /\ Normal => listed' = listed \cup {m}
      /\ stale' \subseteq stale /\ count' \in {count, count + 1}
  BY <1>1 DEF Note, IsNew, Normal, group
<1>3. /\ count \in Nat /\ ProcNum \in Nat /\ IsFiniteSet(listed)
  BY FirstFacts, PidsAssumption DEF First
<1>4. IsFiniteSet(listed')
  BY <1>2, <1>3, FS_AddElement
<1>5. Top \in Held /\ Top = stack[1]
  BY <1>1, TopHeld DEF Base
<1>6. Top.p # 0 => Told(m)
  BY <1>1, <1>5 DEF ServeInv, Fits
<1>7. /\ Held' = Held /\ Dropping' = Dropping /\ Young' = Young /\ Fresh' = Fresh
      /\ Hired' = Hired /\ Unborn' = Unborn /\ Normal' = Normal
      /\ \A q : Told(q)' <=> Told(q)
  BY <1>1 DEF Held, Dropping, Young, Fresh, Hired, Unborn, Normal, Told
<1>8. Fates'
  BY <1>1, <1>2, <1>5, <1>6, <1>7 DEF ServeInv, Fates, Reading
<1>9. ASSUME NEW f \in Held PROVE Fits(f)'
  <2>1. Fits(f)
    BY DEF ServeInv
  <2>2. f.at = "surplus" =>
          count' >= ProcNum + f.n + (IF Dropping' = {} THEN 0 ELSE 1)
    BY <1>2, <1>3, <1>7, <2>1 DEF Fits
  <2>3. f.at = "drop" => count' > ProcNum
    BY <1>2, <1>3, <2>1 DEF Fits
  <2> QED
    BY <1>1, <1>7, <2>1, <2>2, <2>3 DEF Fits
<1>10. FewAstray'
  <2>1. Late' \subseteq Late
    BY <1>1, <1>7 DEF Late
  <2>2. Ghosts' \subseteq Ghosts \cup Late
    BY <1>1, <1>2, <1>7 DEF Ghosts, Late
  <2>3. Astray' \subseteq Astray
    BY <1>7, <2>1, <2>2 DEF Astray
  <2> QED
    BY <1>1, <2>3, StillFew
<1>11. CASE Normal
  <2>1. After
    BY <1>11 DEF ServeInv
  <2> DEFINE A == listed \cup Fresh
             B == listed' \cup Fresh
  <2>2. A \subseteq B /\ IsFiniteSet(B) /\ listed \subseteq listed'
    BY <1>2, <1>4, <2>1, FS_Union DEF After
  <2> HIDE DEF A, B
  <2>3. Cardinality(A) <= Cardinality(B) /\ Cardinality(A) \in Nat /\ Cardinality(B) \in Nat
    BY <2>2, FS_Subset, FS_CardinalityType
  <2>4. Cardinality(A) >= ProcNum => Cardinality(B) >= ProcNum
    BY <1>3, <2>3
  <2>5. After'
    BY <1>1, <1>7, <2>1, <2>2, <2>4 DEF After, A, B
  <2> QED
    BY <1>7, <1>8, <1>9, <1>10, <1>11, <2>5 DEF ServeInv
<1>12. CASE ~Normal
  <2>1. During
    BY <1>12 DEF ServeInv
  <2>2. ASSUME IsNew(msg) PROVE m \notin tag /\ life[m] = "up"
    <3>1. msg.kind = "ready" /\ m \notin tag
      BY <1>1, <1>12, <2>2 DEF IsNew, Normal, Messages, Kinds
    <3>2. life[m] # "gone"
      BY <1>1, <2>1, <3>1 DEF During, ServeInv, Fates
    <3> QED
      BY <1>1, <3>1, <3>2 DEF ServeInv, Fates, Grown
  <2>3. During'
    BY <1>1, <1>2, <1>7, <2>1, <2>2 DEF During
  <2> QED
    BY <1>7, <1>8, <1>9, <1>10, <1>12, <2>3 DEF ServeInv
<1> QED
  BY <1>11, <1>12

LEMMA RunServe == ASSUME Base, ServeInv, First, Run PROVE ServeInv'
<1>1. /\ stack = <<>>
      /\ UNCHANGED <<life, sig, mq, listed, stale, count, tag, reload, aged, gen, bounds, settled>>
  BY DEF Run, procs, group, hot
<1>2. /\ stack' # <<>> /\ stack'[1].at = "recv" /\ stack'[1].p = 0
      /\ \A f \in Held' : (f.at = "recv" /\ f.p = 0) \/ f.at \in {"check", "signals"}
  BY RunStacked
<1>3. Held = {}
  BY <1>1 DEF Held
<1>4. Dropping = {} /\ Dropping' = {}
  BY <1>2, <1>3 DEF Dropping
<1>5. /\ Senders' = Senders /\ Late' = Late /\ Ghosts' = Ghosts /\ Young' = Young
      /\ Fresh' = Fresh /\ Hired' = Hired /\ Unborn' = Unborn /\ Normal' = Normal
  BY <1>1, <1>4 DEF Senders, Late, Ghosts, Young, Fresh, Hired, Unborn, Normal, Told
<1>6. FewAstray'
  BY <1>1, <1>5 DEF ServeInv, FewAstray, Astray
<1>7. Fates'
  BY <1>1, <1>2 DEF ServeInv, Fates, Told, Reading
<1>8. IF Normal' THEN After' ELSE During'
  BY <1>1, <1>5 DEF ServeInv, After, During, Told
<1> QED
  BY <1>2, <1>6, <1>7, <1>8, SignalsFit DEF ServeInv

\* The first reload finds all processes on the list, and one at least that it can start.
LEMMA SignalsServe == ASSUME Mild, Base, CheckSignals, First', ServeInv PROVE ServeInv'
<1>1. NoFailures /\ bounds["slow"] = 0 /\ UNCHANGED <<life, sig, mq, bounds>> /\ gen \in Nat
  BY DEF First, CheckSignals, procs, NoFailures, Base, CountInv, Started
<1>2. Sorted(stack)
  BY <1>1, FirstFacts
<1>3. /\ stack # <<>> /\ Top.at = "signals" /\ Stacked /\ Below = {}
      /\ hup => /\ stack' # <<>> /\ stack'[1].at = "recv" /\ stack'[1].p = 0
                /\ \A f \in Held' : (f.at = "recv" /\ f.p = 0) \/ f.at = "check"
      /\ ~hup => Held' = {}
  BY <1>2, SignalsStacked DEF Base
<1>4. CASE ~hup
  <2>1. UNCHANGED <<listed, stale, count, tag, reload, aged, gen, settled>>
    BY <1>4 DEF CheckSignals, group, hot
  <2>2. First
    BY <1>1, <2>1 DEF First
  <2> QED
    BY <1>1, <1>3, <1>4, <2>1, <2>2, Passing
<1>5. CASE hup
  <2>1. /\ tag' = listed /\ reload' = PROC_RELOAD_START /\ gen' = gen + 1
        /\ aged' = FALSE /\ listed' = {} /\ stale' = {} /\ ~Normal'
    BY <1>5 DEF CheckSignals, TagsOf, Normal, PROC_RELOAD_START, PROC_RELOAD_NORMAL
  <2>2. Peace
    BY <1>1, <2>1 DEF First, Peace, Quiet, NoFailures
  <2>3. /\ \A p \in Pids : sig[p] = {} /\ life[p] \in {"unborn", "forked", "init", "up"}
        /\ Charged \subseteq listed
    BY <1>5, <2>2 DEF Base, FirstInv, PeaceInv, Mild
  <2>4. \A p \in Pids : ~Told(p)'
    BY <1>1, <2>3 DEF Told
  <2>5. \A p \in tag' : life'[p] \notin {"unborn", "forked"}
    BY <1>1, <2>1 DEF Base, CountInv, Started
  <2>6. Fates'
    BY <1>1, <1>3, <1>5, <2>1, <2>3, <2>4, <2>5 DEF Fates, Reading
  <2>7. FewAstray'
    <3>1. Senders' \subseteq Pids
      BY <1>1, SendersKnown DEF Senders, Base
    <3>2. Astray' = {}
      BY <2>1, <2>4, <3>1 DEF Astray, Late
    <3>3. bounds'["late"] \in Nat
      BY <1>1 DEF Base, IInv, TypeInv, Counters
    <3> QED
      BY <3>2, <3>3, FS_EmptySet DEF FewAstray
  <2>8. Hired' = {}
    <3>1. \A p \in Pids : life[p] # "unborn" => p \in listed
      BY <2>3 DEF Charged, Alive
    <3> QED
      BY <1>1, <2>1, <3>1 DEF Hired
  <2>9. Unborn' # {}
    <3>1. IsFiniteSet(Charged) /\ Cardinality(Charged) <= ProcNum
      BY <2>2 DEF Peace, Base, CountInv, QuietInv, Few
    <3>2. Alive \in SUBSET Charged /\ Alive \in SUBSET Pids
      BY DEF Charged, Alive
    <3>3. /\ IsFiniteSet(Alive) /\ Cardinality(Alive) <= Cardinality(Charged)
          /\ Cardinality(Alive) \in Nat /\ Cardinality(Charged) \in Nat
      BY <3>1, <3>2, FS_Subset, FS_CardinalityType
    <3>4. Cardinality(Alive) <= ProcNum
      BY <3>1, <3>3, PidsAssumption
    <3>5. Alive # Pids
      BY <3>2, <3>3, <3>4 DEF Mild
    <3>6. PICK p \in Pids : p \notin Alive
      BY <3>2, <3>5
    <3> QED
      BY <1>1, <2>3, <3>6 DEF Alive, Unborn
  <2>10. During'
    <3>1. IsFiniteSet({}) /\ Cardinality({}) = 0
      BY FS_EmptySet
    <3> QED
      BY <2>1, <2>4, <2>8, <2>9, <3>1, PidsAssumption DEF During, PROC_RELOAD_START,
         PROC_RELOAD_WAIT_NEW, PROC_RELOAD_KILLOLD, PROC_RELOAD_CLEAR
  <2> QED
    BY <1>3, <1>5, <2>1, <2>6, <2>7, <2>10, SignalsFit DEF ServeInv
<1> QED
  BY <1>4, <1>5

-----------------------------------------------------------------------------
(* The processes and time. *)

\* A process goes on or exits, and it may report.
LEMMA ProcessServe ==
  ASSUME Base, Base', ServeInv, First, NEW p \in Pids, NEW l \in {"init", "up", "gone"},
         life[p] \in {"forked", "init", "up"}, UNCHANGED <<sig, controller>>,
         \A q \in Pids : life'[q] = IF q = p THEN l ELSE life[q],
         l = "gone" => Told(p),
         l = "init" => life[p] = "forked",
         Senders' \in {Senders, Senders \cup {p}},
         p \in Senders' => p \in Senders \/ Told(p) \/ stack = <<>> \/ p \notin listed \cup tag,
         \/ UNCHANGED bounds /\ (p \in Senders' => p \in Senders \/ ~Told(p))
         \/ bounds'["late"] = bounds["late"] + 1
  PROVE  ServeInv'
<1>1. /\ UNCHANGED <<sig, listed, stale, count, tag, reload, gen, aged, settled, stack>>
      /\ \A q : Told(q)' <=> Told(q)
  BY DEF controller, group, hot, Told
<1>2. Fates /\ FewAstray
  BY DEF ServeInv
<1>3. /\ Held' = Held /\ Dropping' = Dropping /\ Normal' = Normal
      /\ Unborn' = Unborn /\ Hired' = Hired /\ Fresh' = Fresh /\ Young' \subseteq Young
      /\ Ghosts' = Ghosts
  <2>1. Held' = Held /\ Dropping' = Dropping /\ Normal' = Normal
    BY <1>1 DEF Held, Dropping, Normal
  <2>2. Unborn' = Unborn /\ Hired' = Hired
    BY <1>1 DEF Unborn, Hired
  <2>3. Fresh' = Fresh /\ Young' \subseteq Young
    BY <1>1 DEF Fresh, Young
  <2>4. Ghosts' = Ghosts
    BY <1>1, <2>1 DEF Ghosts
  <2> QED
    BY <2>1, <2>2, <2>3, <2>4
<1>4. /\ \A q \in listed : life[q] \notin {"unborn", "forked"}
      /\ \A q \in tag : life[q] \notin {"unborn", "forked"} /\ q \in Pids
      /\ \A q \in stale : q \in Pids
  BY <1>2 DEF Base, CountInv, Started, Fates, IInv, TypeInv
<1>5. Fates'
  BY <1>1, <1>2, <1>4 DEF Fates, Reading
<1>6. ASSUME NEW f \in Held PROVE Fits(f)'
  <2>1. Fits(f)
    BY DEF ServeInv
  <2>2. f.at \in {"kill", "verify", "replace"} => f.p \in Pids /\ f.p # p
    BY <2>1, HeldType DEF Fits, Base
  <2> QED
    BY <1>1, <1>3, <2>1, <2>2 DEF Fits
<1>7. FewAstray'
  <2>1. CASE UNCHANGED bounds /\ (p \in Senders' => p \in Senders \/ ~Told(p))
    <3>1. Late' \subseteq Late
      BY <1>1, <2>1 DEF Late
    <3>2. Astray' \subseteq Astray
      BY <1>3, <3>1 DEF Astray
    <3> QED
      BY <2>1, <3>2, StillFew
  <2>2. CASE bounds'["late"] = bounds["late"] + 1
    <3>1. Late' \subseteq Late \cup {p}
      BY <1>1 DEF Late
    <3>2. Astray' \subseteq Astray \cup {p}
      BY <1>3, <3>1 DEF Astray
    <3>3. IsFiniteSet({p}) /\ Cardinality({p}) = 1
      BY FS_Singleton
    <3> DEFINE n == bounds'["late"]
               N == {p}
               T == Astray'
    <3>4. /\ IsFiniteSet(Astray) /\ Cardinality(Astray) <= bounds["late"]
          /\ bounds["late"] \in Nat /\ Cardinality(Astray) \in Nat
      BY <1>2, FS_CardinalityType DEF FewAstray, Base, IInv, TypeInv, Counters
    <3>5. n \in Nat /\ Cardinality(Astray) + Cardinality(N) <= n /\ T \subseteq Astray \cup N
          /\ IsFiniteSet(N)
      BY <2>2, <3>2, <3>3, <3>4
    <3> HIDE DEF n, N, T
    <3>6. IsFiniteSet(T) /\ Cardinality(T) <= n
      BY <3>4, <3>5, FewMore
    <3> QED
      BY <3>6 DEF FewAstray, T, n
  <2> QED
    BY <2>1, <2>2
<1>8. IF Normal' THEN After' ELSE During'
  <2>1. CASE Normal
    BY <1>1, <1>3, <2>1 DEF ServeInv, After
  <2>2. CASE ~Normal
    <3>1. During
      BY <2>2 DEF ServeInv
    <3>2. \A q \in listed : life'[q] = "up"
      <4>1. ASSUME NEW q \in listed PROVE life'[q] = "up"
        <5>1. life[q] = "up" /\ q \in Pids
          BY <3>1 DEF During, Base, IInv, TypeInv
        <5>2. ~Told(q)
          BY <3>1, <5>1 DEF During
        <5> QED
          BY <5>1, <5>2
      <4> QED
        BY <4>1
    <3> QED
      BY <1>1, <1>3, <2>2, <3>1, <3>2 DEF During
  <2> QED
    BY <2>1, <2>2
<1> QED
  BY <1>3, <1>5, <1>6, <1>7, <1>8 DEF ServeInv

LEMMA WorksServe ==
  ASSUME Base, Base', ServeInv, First, First', NEW p \in Pids, Works(p)
  PROVE  ServeInv'
<1>1. /\ UNCHANGED <<sig, controller>>
      /\ \A q \in Pids : q # p => life'[q] = life[q]
      /\ life[p] \in {"forked", "init", "up"}
  BY WorksFrame DEF Base, ServeInv, Fates
<1>2. ~\E b \in {"killed", "hangs", "segvs"} : \E max : Counted(b, max)
  <2>1. ASSUME NEW b \in {"killed", "hangs", "segvs"}, NEW max, Counted(b, max) PROVE FALSE
    <3>1. b \in Counters
      BY DEF Counters
    <3>2. bounds'[b] = bounds[b] + 1 /\ bounds[b] \in Nat
      BY <2>1, <3>1, CountedUp DEF Base, IInv, TypeInv
    <3> QED
      BY <2>1, <3>2 DEF First, NoFailures
  <2> QED
    BY <2>1
<1>3. life \in [Pids -> Lives]
  BY DEF Base, IInv, TypeInv
<1>4. \/ FirstReport(p) \/ InitDone(p) \/ Report(p) \/ LateReport(p) \/ Quit(p)
  BY <1>1, <1>2 DEF Works, Starts, Loop, Recover, Dies, ReportException, Die, Fails, Hang,
                    Killed, Segv, Become
<1>5. CASE FirstReport(p)
  <2>1. /\ life[p] = "forked" /\ life'[p] = "init" /\ UNCHANGED bounds
        /\ Send(p, "starting")
    BY <1>3, <1>5 DEF FirstReport, Become
  <2>2. Senders' = Senders \cup {p}
    BY <2>1, SentBy DEF Base, Kinds
  <2>3. ~Told(p) /\ p \notin listed \cup tag
    BY <2>1 DEF ServeInv, Fates, Base, CountInv, Started
  <2> QED
    BY <1>1, <2>1, <2>2, <2>3, ProcessServe
<1>6. CASE InitDone(p)
  <2>1. life'[p] = "up" /\ UNCHANGED bounds /\ Senders' = Senders
    BY <1>3, <1>6 DEF InitDone, Become, Senders
  <2> QED
    BY <1>1, <2>1, ProcessServe
<1>7. CASE Report(p)
  <2>1. /\ life[p] = "up" /\ life'[p] = "up" /\ UNCHANGED bounds /\ Send(p, "ready")
        /\ ~Told(p) /\ p \notin listed \ stale /\ (p \in tag => stack = <<>>)
    BY <1>7 DEF Report, procs, Told
  <2>2. Senders' = Senders \cup {p}
    BY <2>1, SentBy DEF Base, Kinds
  <2>3. p \notin listed
    BY <2>1 DEF ServeInv, Fates
  <2> QED
    BY <1>1, <2>1, <2>2, <2>3, ProcessServe
<1>8. CASE LateReport(p)
  <2>1. /\ life[p] = "up" /\ life'[p] = "up" /\ Send(p, "ready") /\ Told(p)
        /\ Counted("late", MaxLate)
    BY <1>8 DEF LateReport, procs, Told
  <2>2. Senders' = Senders \cup {p}
    BY <2>1, SentBy DEF Base, Kinds
  <2>3. bounds'["late"] = bounds["late"] + 1
    BY <2>1, CountedUp DEF Base, IInv, Counters
  <2> QED
    BY <1>1, <2>1, <2>2, <2>3, ProcessServe
<1>9. CASE Quit(p)
  <2>1. life'[p] = "gone" /\ Told(p) /\ UNCHANGED bounds /\ Senders' = Senders
    BY <1>3, <1>9 DEF Quit, Become, Told, Senders
  <2> QED
    BY <1>1, <2>1, ProcessServe
<1> QED
  BY <1>4, <1>5, <1>6, <1>7, <1>8, <1>9

LEMMA TimeServe ==
  ASSUME Base, Base', ServeInv, First, First', TimePasses
  PROVE  ServeInv'
<1>1. /\ UNCHANGED <<life, sig, mq, listed, count, tag, reload, gen, stack>>
      /\ UNCHANGED bounds \/ Counted("slow", MaxSlow)
  BY DEF TimePasses, Expire, AdjustDelayPasses, ReloadDelayPasses, procs, group, hot
<1>2. ~Counted("slow", MaxSlow)
  <2> SUFFICES ASSUME Counted("slow", MaxSlow) PROVE FALSE
    OBVIOUS
  <2>1. bounds'["slow"] = bounds["slow"] + 1 /\ bounds["slow"] \in Nat
    BY CountedUp DEF Base, IInv, TypeInv, Counters
  <2> QED
    BY <2>1 DEF First
<1>3. UNCHANGED bounds
  BY <1>1, <1>2
<1>4. stack = <<>> /\ Held = {}
  BY DEF TimePasses, Expire, AdjustDelayPasses, ReloadDelayPasses, Held
<1>5. /\ Held' = Held /\ Dropping' = Dropping /\ Senders' = Senders /\ Late' = Late
      /\ Young' = Young /\ Fresh' = Fresh /\ Hired' = Hired /\ Unborn' = Unborn
      /\ Normal' = Normal
  BY <1>1 DEF Held, Dropping, Senders, Late, Young, Fresh, Hired, Unborn, Normal, Told
<1>6. Ghosts' = Ghosts
  BY <1>1, <1>5 DEF Ghosts, Told
<1>7. Fates'
  <2>1. \A q \in stale' : life[q] = "gone"
    <3>1. ASSUME NEW q \in Pids, Expire(q) PROVE life[q] = "gone"
      <4>1. q \in listed /\ life[q] # "up" /\ life[q] # "init"
        BY <1>2, <3>1 DEF Expire
      <4> QED
        BY <4>1 DEF Base, CountInv, Started, ServeInv, Fates
    <3> QED
      BY <3>1 DEF TimePasses, Expire, AdjustDelayPasses, ReloadDelayPasses, group,
                  ServeInv, Fates
  <2> QED
    BY <1>1, <1>4, <2>1 DEF ServeInv, Fates, Told
<1>8. FewAstray'
  BY <1>3, <1>5, <1>6 DEF ServeInv, FewAstray, Astray
<1>9. AllHeardOf => \A q \in Pids : q \in tag \/ Told(q) \/ life[q] = "unborn" \/ q \in listed
  BY DEF AllHeardOf, ServeInv, Fates
<1>10. CASE Normal
  <2>1. After /\ tag = {}
    BY <1>10 DEF ServeInv, Base, IInv, ReloadInv, Normal
  <2>2. settled' => Fresh \subseteq listed
    <3>1. CASE UNCHANGED settled
      BY <2>1, <3>1 DEF After
    <3>2. CASE AdjustDelayPasses
      <4>1. AllHeardOf
        BY <1>2, <3>2 DEF AdjustDelayPasses
      <4> QED
        BY <1>9, <2>1, <4>1 DEF Fresh
    <3> QED
      BY <3>1, <3>2 DEF TimePasses, Expire, ReloadDelayPasses
  <2>3. After'
    BY <1>1, <1>5, <2>1, <2>2 DEF After
  <2> QED
    BY <1>4, <1>5, <1>7, <1>8, <1>10, <2>3 DEF ServeInv
<1>11. CASE ~Normal
  <2>1. During
    BY <1>11 DEF ServeInv
  <2>2. reload = PROC_RELOAD_WAIT_NEW /\ aged' => Hired \subseteq listed
    <3>1. CASE UNCHANGED aged
      BY <2>1, <3>1 DEF During
    <3>2. CASE ReloadDelayPasses
      <4>1. reload = PROC_RELOAD_WAIT_NEW => AllHeardOf
        BY <1>2, <3>2 DEF ReloadDelayPasses, PROC_RELOAD_WAIT_NEW, PROC_RELOAD_CLEAR
      <4> QED
        BY <1>9, <2>1, <4>1 DEF During, Hired
    <3> QED
      BY <3>1, <3>2 DEF TimePasses, Expire, AdjustDelayPasses, hot
  <2>3. During'
    BY <1>1, <1>5, <2>1, <2>2 DEF During, Told
  <2> QED
    BY <1>4, <1>5, <1>7, <1>8, <1>11, <2>3 DEF ServeInv
<1> QED
  BY <1>10, <1>11

-----------------------------------------------------------------------------
(* Every step of the first reload, and that a worker goes on serving. *)

\* A step that changes nothing.
LEMMA SameServe == ASSUME ServeInv, First, UNCHANGED vars PROVE ServeInv'
<1>1. UNCHANGED <<life, sig, mq, listed, stale, count, tag, reload, gen, aged, settled,
                  stack, bounds>>
  BY DEF vars, procs, group, hot
<1>2. /\ Held' = Held /\ Senders' = Senders /\ Unborn' = Unborn /\ Normal' = Normal
      /\ \A p : Told(p)' <=> Told(p)
  BY <1>1 DEF Held, Senders, Unborn, Normal, Told
<1>3. /\ Dropping' = Dropping /\ Hired' = Hired /\ Fresh' = Fresh /\ Young' = Young
      /\ Late' = Late
  BY <1>1, <1>2 DEF Dropping, Hired, Fresh, Young, Late
<1>4. Ghosts' = Ghosts
  BY <1>1, <1>2, <1>3 DEF Ghosts
<1>5. FewAstray'
  BY <1>1, <1>2, <1>3, <1>4 DEF ServeInv, FewAstray, Astray
<1>6. Fates'
  BY <1>1, <1>2 DEF ServeInv, Fates, Reading
<1>7. \A f \in Held : Fits(f)'
  BY <1>1, <1>2, <1>3 DEF ServeInv, Fits
<1>8. IF Normal' THEN After' ELSE During'
  BY <1>1, <1>2, <1>3 DEF ServeInv, After, During
<1> QED
  BY <1>2, <1>5, <1>6, <1>7, <1>8 DEF ServeInv

\* The steps of the controller that a reload does not begin with.
LEMMA ControllerServe ==
  ASSUME Mild, Base, Base', ServeInv, First, Controller, ~CheckSignals
  PROVE  ServeInv'
<1>1. ~ProcessException /\ ~CheckUnused
  BY FirstFacts DEF First, ProcessException, CheckUnused, At, Top
<1>2. CASE Run \/ Recv \/ RecvDone \/ SurplusTold \/ ProcsChecked
  BY <1>2, RunServe, RecvServe, ReturnsServe
<1>3. CASE KillDead \/ VerifyDead \/ Replace \/ CheckProc
  BY <1>3, KillServe, VerifyServe, ReplaceServe, ProcServe
<1>4. CASE CheckGroup \/ TellSurplus \/ Drop
  BY <1>4, GroupServe, TellServe, DropServe
<1>5. CASE ReloadStart \/ ReloadWaitNew \/ ReloadKillOld \/ ReloadClear
  BY <1>5, StartServe, WaitServe, KillOldServe, ClearServe
<1> QED
  BY <1>1, <1>2, <1>3, <1>4, <1>5 DEF Controller

LEMMA ControllerKeeps ==
  ASSUME Controller, ~CheckSignals
  PROVE  UNCHANGED <<gen, bounds>>
  BY DEF Controller, Run, Recv, RecvDone, ProcessException, KillDead, VerifyDead, Replace,
         CheckGroup, CheckUnused, TellSurplus, Drop, SurplusTold, CheckProc, ProcsChecked,
         ReloadStart, ReloadWaitNew, ReloadKillOld, ReloadClear, CheckReload, hot

LEMMA NextServe == ASSUME Mild, Base, Base', ServeInv, [Next]_vars PROVE ServeInv'
<1> SUFFICES ASSUME First' PROVE ServeInv'
  BY DEF ServeInv
<1>1. CASE CheckSignals
  BY <1>1, SignalsServe
<1>2. CASE Controller /\ ~CheckSignals
  <2>1. UNCHANGED <<gen, bounds>>
    BY <1>2, ControllerKeeps
  <2>2. First
    BY <2>1 DEF First, NoFailures
  <2> QED
    BY <1>2, <2>2, ControllerServe
<1>3. CASE \E p \in Pids : Works(p)
  <2>1. PICK p \in Pids : Works(p)
    BY <1>3
  <2>2. /\ UNCHANGED gen
        /\ UNCHANGED bounds \/ \E b \in Counters : \E max : Counted(b, max)
    BY <2>1, WorksFrame DEF Base, controller, hot
  <2>3. First
    BY <2>2, StillFirst DEF Base
  <2> QED
    BY <2>1, <2>3, WorksServe
<1>4. CASE TimePasses
  <2>1. UNCHANGED gen /\ (UNCHANGED bounds \/ Counted("slow", MaxSlow))
    BY <1>4 DEF TimePasses, Expire, AdjustDelayPasses, ReloadDelayPasses, hot
  <2>2. "slow" \in Counters
    BY DEF Counters
  <2>3. First
    BY <2>1, <2>2, StillFirst DEF Base
  <2> QED
    BY <1>4, <2>3, TimeServe
<1>5. CASE AskReload
  <2>1. gen' = 1 /\ hup' = TRUE
    BY <1>5 DEF First, AskReload
  <2>2. gen' + 1 <= bounds'["reloads"] /\ bounds'["reloads"] <= MaxReloads
    BY <2>1 DEF Base, BoundsInv
  <2>3. bounds'["reloads"] \in Nat /\ MaxReloads \in Nat /\ MaxReloads <= 1
    BY BoundsAssumption DEF Base, IInv, TypeInv, Counters, Mild
  <2> QED
    BY <2>1, <2>2, <2>3
<1>6. CASE UNCHANGED vars
  <2>1. UNCHANGED <<gen, bounds>>
    BY <1>6 DEF vars, hot
  <2>2. First
    BY <2>1 DEF First, NoFailures
  <2> QED
    BY <1>6, <2>2, SameServe
<1> QED
  BY <1>1, <1>2, <1>3, <1>4, <1>5, <1>6 DEF Next, Works

\* Who serves goes on serving if it keeps running and gets no signal.
LEMMA StillServing ==
  ASSUME Serving, \A p \in Pids : life[p] = "up" /\ sig[p] = {} =>
                                    life'[p] = "up" /\ sig'[p] = {}
  PROVE  Serving'
  BY DEF Serving

\* A process on the list that nobody has told to exit is at work.
LEMMA ListedServes ==
  ASSUME Base, ServeInv, First, NEW q \in listed, ~Told(q), q \notin Young
  PROVE  q \in Pids /\ life[q] = "up" /\ sig[q] = {}
<1>1. q \in Pids /\ life[q] # "unborn"
  BY DEF Base, IInv, TypeInv, Known
<1> QED
  BY <1>1 DEF ServeInv, Fates, Young, Told

\* A surplus process is told to exit: one that stays is at work, as there are more of them
\* than reports that may have come late.
LEMMA TellKeeps ==
  ASSUME Mild, Base, ServeInv, First, TellSurplus
  PROVE  Serving'
<1>1. PICK p \in listed : Kill({p}, "quit") /\ UNCHANGED life
  BY DEF TellSurplus, Tell
<1>2. /\ stack # <<>> /\ Top.at = "surplus" /\ Top.n > 0 /\ Top \in Held
  BY TopHeld DEF TellSurplus, At, Top, Base
<1>3. /\ Top.n \in Nat /\ count >= ProcNum + Top.n /\ Normal
      /\ ProcNum \in Nat /\ count = Cardinality(listed) /\ count \in Nat
      /\ IsFiniteSet(listed) /\ Sorted(stack)
  <2>1. Fits(Top)
    BY <1>2 DEF ServeInv
  <2>2. /\ ProcNum \in Nat /\ count = Cardinality(listed) /\ count \in Nat
        /\ IsFiniteSet(listed) /\ Sorted(stack)
    BY FirstFacts, PidsAssumption DEF First
  <2>3. Top.n \in Nat /\ count >= ProcNum + Top.n + (IF Dropping = {} THEN 0 ELSE 1)
    BY <1>2, <2>1 DEF Fits
  <2>4. count >= ProcNum + Top.n
    BY <2>2, <2>3
  <2> QED
    BY <1>2, <2>1, <2>2, <2>3, <2>4 DEF Fits
<1>4. Dropping = {}
  <2>1. ASSUME NEW f \in Held, f.at = "drop" PROVE FALSE
    <3>1. PICK i \in DOMAIN stack : f = stack[i]
      BY DEF Held
    <3>2. 1 \in DOMAIN stack /\ stack[1] = Top /\ DOMAIN stack \subseteq Nat \ {0}
      BY <1>2, TopType DEF Base, IInv, TypeInv
    <3>3. i # 1 /\ i \in Nat \ {0}
      BY <1>2, <2>1, <3>1, <3>2
    <3>4. Rank(Top) < Rank(f)
      BY <1>3, <3>1, <3>2, <3>3 DEF Sorted
    <3> QED
      BY <1>2, <2>1, <3>4, Ranks
  <2> QED
    BY <2>1 DEF Dropping
<1> DEFINE rest == listed \ {p}
<1>5. IsFiniteSet(rest) /\ Cardinality(rest) \in Nat /\ Cardinality(rest) >= ProcNum
  <2>1. /\ IsFiniteSet(rest) /\ Cardinality(rest) \in Nat
        /\ Cardinality(rest) = Cardinality(listed) - 1
    BY <1>3, FS_RemoveElement, FS_CardinalityType
  <2> HIDE DEF rest
  <2> QED
    BY <1>2, <1>3, <2>1
<1>6. /\ IsFiniteSet(Astray) /\ Cardinality(Astray) <= bounds["late"]
      /\ bounds["late"] <= MaxLate /\ bounds["late"] \in Nat /\ Cardinality(Astray) \in Nat
      /\ MaxLate \in Nat /\ MaxLate < ProcNum
  BY FS_CardinalityType, BoundsAssumption
     DEF ServeInv, FewAstray, Base, BoundsInv, IInv, TypeInv, Counters, Mild
<1>7. ~(rest \subseteq Astray)
  <2>1. rest \subseteq Astray => Cardinality(rest) <= Cardinality(Astray)
    BY <1>6, FS_Subset
  <2> QED
    BY <1>3, <1>5, <1>6, <2>1
<1>8. PICK q \in rest : q \notin Astray
  BY <1>7
<1>9. q \in listed /\ q # p /\ q \notin Ghosts /\ q \notin Young
  BY <1>3, <1>8 DEF Astray
<1>10. ~Told(q)
  BY <1>4, <1>9 DEF Ghosts
<1>11. q \in Pids /\ life[q] = "up" /\ sig[q] = {}
  BY <1>9, <1>10, ListedServes
<1>12. life'[q] = "up" /\ sig'[q] = {}
  BY <1>1, <1>9, <1>11 DEF Kill
<1> QED
  BY <1>11, <1>12 DEF Serving

\* The old processes are told to exit when the new ones are at work.
LEMMA OldKeeps ==
  ASSUME Base, ServeInv, First, NEW state, CheckReload(state), During,
         Hired # {}, Hired \subseteq listed,
         \A p \in Pids \ tag : life'[p] = life[p] /\ sig'[p] = sig[p]
  PROVE  Serving'
<1>1. PICK q \in Hired : TRUE
  OBVIOUS
<1>2. q \in Pids \ tag /\ q \in listed
  BY <1>1 DEF Hired
<1>3. life[q] = "up" /\ ~Told(q)
  BY <1>2 DEF During
<1> QED
  BY <1>2, <1>3 DEF Serving, Told

LEMMA ReloadKeeps ==
  ASSUME Base, ServeInv, First, Serving, ReloadWaitNew \/ ReloadKillOld \/ ReloadClear
  PROVE  Serving'
<1>1. CASE ReloadWaitNew
  <2>1. /\ reload = PROC_RELOAD_WAIT_NEW /\ CheckReload(PROC_RELOAD_WAIT_NEW) /\ ~Normal
        /\ UNCHANGED <<life, tag>>
    BY <1>1 DEF ReloadWaitNew, CheckReload, Normal, PROC_RELOAD_NORMAL, PROC_RELOAD_WAIT_NEW
  <2>2. During
    BY <2>1 DEF ServeInv
  <2>3. CASE NewReady \/ aged
    <3>1. Kill(tag, "reload")
      BY <1>1, <2>3 DEF ReloadWaitNew
    <3>2. Hired # {} /\ Hired \subseteq listed
      BY <2>1, <2>2, <2>3, AllHired DEF During, PROC_RELOAD_WAIT_NEW, PROC_RELOAD_START
    <3> QED
      BY <2>1, <2>2, <3>1, <3>2, OldKeeps DEF Kill
  <2>4. CASE ~(NewReady \/ aged)
    BY <1>1, <2>1, <2>4, StillServing DEF ReloadWaitNew
  <2> QED
    BY <2>3, <2>4
<1>2. CASE ReloadKillOld
  <2>1. /\ reload = PROC_RELOAD_KILLOLD /\ CheckReload(PROC_RELOAD_KILLOLD) /\ ~Normal
        /\ UNCHANGED <<life, tag>> /\ Kill(tag, "reload")
    BY <1>2 DEF ReloadKillOld, CheckReload, Normal, PROC_RELOAD_NORMAL, PROC_RELOAD_KILLOLD
  <2>2. During
    BY <2>1 DEF ServeInv
  <2>3. Hired # {} /\ Hired \subseteq listed
    BY <2>1, <2>2 DEF During, PROC_RELOAD_KILLOLD, PROC_RELOAD_START
  <2> QED
    BY <2>1, <2>2, <2>3, OldKeeps DEF Kill
<1>3. CASE ReloadClear
  <2>1. /\ reload = PROC_RELOAD_CLEAR /\ CheckReload(PROC_RELOAD_CLEAR) /\ ~Normal
        /\ UNCHANGED sig
        /\ \A p \in Pids \ tag : life'[p] = life[p]
    BY <1>3 DEF ReloadClear, CheckReload, Normal, PROC_RELOAD_NORMAL, PROC_RELOAD_CLEAR
  <2>2. During
    BY <2>1 DEF ServeInv
  <2>3. Hired # {} /\ Hired \subseteq listed
    BY <2>1, <2>2 DEF During, PROC_RELOAD_CLEAR, PROC_RELOAD_START
  <2> QED
    BY <2>1, <2>2, <2>3, OldKeeps
<1> QED
  BY <1>1, <1>2, <1>3

\* Nobody is told to exit before the first reload.
LEMMA PeaceKeeps ==
  ASSUME Base, Peace, Serving,
         TellSurplus \/ KillDead \/ ReloadWaitNew \/ ReloadKillOld \/ ReloadClear
  PROVE  FALSE
<1>1. stack # <<>>
  BY DEF TellSurplus, KillDead, ReloadWaitNew, ReloadKillOld, ReloadClear, CheckReload, At
<1>2. Working(Top) /\ reload = PROC_RELOAD_NORMAL
  BY <1>1, PeaceStack DEF Base, FirstInv
<1> QED
  BY <1>2 DEF TellSurplus, KillDead, ReloadWaitNew, ReloadKillOld, ReloadClear, CheckReload,
              At, Top, Working, PROC_RELOAD_NORMAL, PROC_RELOAD_WAIT_NEW,
              PROC_RELOAD_KILLOLD, PROC_RELOAD_CLEAR

\* A process that is told to exit because it stopped reporting is gone.
LEMMA KillKeeps ==
  ASSUME Base, ServeInv, First, Serving, KillDead
  PROVE  Serving'
<1>1. Top \in Held /\ Top.at = "kill" /\ Kill({Top.p}, "quit") /\ UNCHANGED life
  BY TopHeld DEF KillDead, At, Top, Base
<1>2. life[Top.p] = "gone"
  BY <1>1 DEF ServeInv, Fits
<1> QED
  BY <1>1, <1>2, StillServing DEF Kill, Alive

\* The other steps of the controller and of time do not touch who is at work.
LEMMA OthersKeep ==
  ASSUME IInv, Serving,
         \/ TimePasses \/ AskReload \/ UNCHANGED vars
         \/ Run \/ CheckSignals \/ Recv \/ RecvDone \/ ProcessException \/ VerifyDead
         \/ Replace \/ CheckGroup \/ CheckUnused \/ Drop \/ SurplusTold \/ CheckProc
         \/ ProcsChecked \/ ReloadStart
  PROVE  Serving'
<1>1. UNCHANGED sig
  BY DEF TimePasses, Expire, AdjustDelayPasses, ReloadDelayPasses, AskReload, vars, Run,
         CheckSignals, Recv, RecvDone, ProcessException, VerifyDead, Replace, CheckGroup,
         CheckUnused, Drop, SurplusTold, CheckProc, ProcsChecked, ReloadStart, procs
<1>2. UNCHANGED life \/ \E n : Fork(n)
  BY DEF TimePasses, Expire, AdjustDelayPasses, ReloadDelayPasses, AskReload, vars, Run,
         CheckSignals, Recv, RecvDone, ProcessException, VerifyDead, Replace, CheckGroup,
         CheckUnused, Drop, SurplusTold, CheckProc, ProcsChecked, ReloadStart, procs
<1>3. \A p \in Pids : life[p] = "up" => life'[p] = "up"
  BY <1>2 DEF Fork
<1> QED
  BY <1>1, <1>3, StillServing

\* A process that has not been told to exit goes on while nothing fails.
LEMMA WorksKeeps ==
  ASSUME Base, Serving, NoFailures, NoFailures', NEW p \in Pids, Works(p)
  PROVE  Serving'
<1>1. UNCHANGED sig /\ \A q \in Pids : q # p => life'[q] = life[q]
  BY WorksFrame DEF Base
<1>2. ~\E b \in {"killed", "hangs", "segvs"} : \E max : Counted(b, max)
  <2>1. ASSUME NEW b \in {"killed", "hangs", "segvs"}, NEW max, Counted(b, max) PROVE FALSE
    <3>1. b \in Counters
      BY DEF Counters
    <3>2. bounds'[b] = bounds[b] + 1 /\ bounds[b] \in Nat
      BY <2>1, <3>1, CountedUp DEF Base, IInv, TypeInv
    <3> QED
      BY <2>1, <3>2 DEF NoFailures
  <2> QED
    BY <2>1
<1>3. ~Fails(p) /\ ~Dies(p)
  BY <1>2, FirstFacts DEF Fails, Hang, Killed, Segv, Dies, ReportException, Die, Become,
     NoneDying
<1>4. life[p] = "up" /\ sig[p] = {} => life'[p] = "up"
  BY <1>3 DEF Works, Starts, FirstReport, InitDone, Loop, Report, LateReport, Quit, Recover,
              Become, procs
<1> QED
  BY <1>1, <1>4, StillServing

LEMMA ServingStep ==
  ASSUME Mild, Base, Base', ServeInv, [Next]_vars, Serving, NoFailures'
  PROVE  Serving'
<1>1. /\ bounds["slow"] = 0 /\ gen \in {0, 1}
  <2>1. bounds["slow"] \in Nat /\ bounds["slow"] <= MaxSlow /\ MaxSlow = 0
    BY DEF Base, IInv, TypeInv, Counters, BoundsInv, Mild
  <2>2. /\ gen + (IF hup THEN 1 ELSE 0) <= bounds["reloads"]
        /\ bounds["reloads"] <= MaxReloads /\ bounds["reloads"] \in Nat
        /\ MaxReloads \in Nat /\ MaxReloads <= 1 /\ gen \in Nat
    BY BoundsAssumption DEF Base, IInv, TypeInv, Counters, BoundsInv, Mild, CountInv, Started
  <2> QED
    BY <2>1, <2>2
<1>2. CASE TellSurplus \/ KillDead \/ ReloadWaitNew \/ ReloadKillOld \/ ReloadClear
  <2>1. NoFailures
    <3>1. UNCHANGED bounds
      BY <1>2 DEF TellSurplus, KillDead, ReloadWaitNew, ReloadKillOld, ReloadClear,
                  CheckReload
    <3> QED
      BY <3>1 DEF NoFailures
  <2>2. CASE gen = 0
    <3>1. Peace
      BY <1>1, <2>1, <2>2 DEF Peace, Quiet, NoFailures
    <3> QED
      BY <1>2, <3>1, PeaceKeeps
  <2>3. CASE gen = 1
    <3>1. First
      BY <1>1, <2>1, <2>3 DEF First
    <3> QED
      BY <1>2, <3>1, TellKeeps, KillKeeps, ReloadKeeps
  <2> QED
    BY <1>1, <2>2, <2>3
<1>3. CASE \E p \in Pids : Works(p)
  <2>1. PICK p \in Pids : Works(p)
    BY <1>3
  <2>2. UNCHANGED bounds \/ \E b \in Counters : \E max : Counted(b, max)
    BY <2>1, WorksFrame DEF Base
  <2>3. UNCHANGED gen
    BY <2>1, WorksFrame DEF Base, controller, hot
  <2>4. NoFailures
    <3>1. CASE UNCHANGED bounds
      BY <3>1 DEF NoFailures
    <3>2. CASE \E b \in Counters : \E max : Counted(b, max)
      <4>1. \A c \in Counters : bounds[c] \in Nat /\ bounds'[c] \in {bounds[c], bounds[c] + 1}
        BY <3>2, CountedUp DEF Base, IInv, TypeInv
      <4>2. {"segvs", "killed", "hangs"} \subseteq Counters
        BY DEF Counters
      <4>3. \A c \in {"segvs", "killed", "hangs"} : bounds'[c] = 0 => bounds[c] = 0
        BY <4>1, <4>2
      <4> QED
        BY <4>3 DEF NoFailures
    <3> QED
      BY <2>2, <3>1, <3>2
  <2> QED
    BY <2>1, <2>4, WorksKeeps
<1>4. CASE /\ [Next]_vars /\ ~\E p \in Pids : Works(p)
           /\ ~(TellSurplus \/ KillDead \/ ReloadWaitNew \/ ReloadKillOld \/ ReloadClear)
  BY <1>4, OthersKeep DEF Next, Controller, Works, Base
<1> QED
  BY <1>2, <1>3, <1>4

(* There is always a worker to serve requests, once there is one and as long as none
   fails.  Before the first hot reload check_group tells nobody to exit.  In the reload the
   old workers are told when all that were forked for it are on the list.  After it reports
   that came late may have put workers on the list that were told to exit before, but of
   these, and of the ones that were forked in their places, there are fewer than procnum:
   when check_group tells surplus workers to exit, one that is at work stays. *)
THEOREM FirstReloadKeepsServing ==
  ASSUME ~Hasty, MaxSlow = 0, MaxReloads <= 1, MaxLate < ProcNum,
         "spp_worker" \in Installed,
         \A S \in SUBSET Pids : IsFiniteSet(S) /\ Cardinality(S) <= ProcNum => S # Pids
  PROVE  Spec => KeepsServing
<1>1. Mild
  BY DEF Mild
<1>2. Init => FirstInv /\ OrderInv /\ BoundsInv /\ ServeInv
  <2>1. Init => ServeInv
    BY DEF Init, ServeInv, First
  <2> QED
    BY <2>1, InitFirst, InitOrder, InitBounds
<1>3. IInv /\ CountInv /\ FirstInv /\ [Next]_vars => FirstInv'
  BY NextFirst
<1>4. IInv /\ OrderInv /\ [Next]_vars => OrderInv'
  BY NextOrder
<1>5. IInv /\ CountInv /\ BoundsInv /\ [Next]_vars => BoundsInv'
  BY NextBounds
<1>6. Base /\ Base' /\ ServeInv /\ [Next]_vars => ServeInv'
  BY <1>1, NextServe
<1>7. Base /\ Base' /\ ServeInv /\ [Next]_vars =>
        [Serving /\ NoFailures' => Serving']_vars
  BY <1>1, ServingStep
<1>8. Base <=> IInv /\ CountInv /\ FirstInv /\ OrderInv /\ BoundsInv
  BY DEF Base
<1>9. Spec => []Base
  BY <1>2, <1>3, <1>4, <1>5, <1>8, Invariant, CountInvariant, PTL DEF Spec
<1> QED
  BY <1>2, <1>6, <1>7, <1>9, PTL DEF Spec, KeepsServing
=============================================================================
