------------------------- MODULE MicroThread_proofs -------------------------
(* Invariance proofs for the micro-thread scheduler, for every pool size, quota,
   reserve, number of tasks and timeout. *)
EXTENDS MicroThread, SequenceTheorems, FunctionTheorems, FiniteSetTheorems,
        WellFoundedInduction, TLAPS

-----------------------------------------------------------------------------
(* Queues without duplicates: what pushing and popping does to their elements. *)

LEMMA AppendElems ==
    ASSUME NEW S, NEW s \in Seq(S), NEW e \in S
    PROVE  /\ Append(s, e) \in Seq(S)
           /\ Elems(Append(s, e)) = Elems(s) \cup {e}
           /\ Len(Append(s, e)) = Len(s) + 1
           /\ (Distinct(s) /\ e \notin Elems(s)) => Distinct(Append(s, e))
           /\ Append(s, e) # <<>>
<1> DEFINE r == Append(s, e)
<1>1. /\ r \in Seq(S) /\ Len(r) = Len(s) + 1 /\ r # <<>>
      /\ DOMAIN s = 1 .. Len(s) /\ DOMAIN r = 1 .. Len(s) + 1
      /\ \A i \in 1 .. Len(s) : r[i] = s[i]
      /\ r[Len(s) + 1] = e
      /\ Len(s) \in Nat
  OBVIOUS
<1> HIDE DEF r
<1>2. Elems(r) = Elems(s) \cup {e}
  <2>1. ASSUME NEW x \in Elems(r) PROVE x \in Elems(s) \cup {e}
    BY <1>1, <2>1 DEF Elems
  <2>2. ASSUME NEW x \in Elems(s) \cup {e} PROVE x \in Elems(r)
    <3>1. CASE x = e
      <4>1. Len(s) + 1 \in DOMAIN r
        BY <1>1
      <4> QED BY <4>1, <3>1, <1>1 DEF Elems
    <3>2. CASE x \in Elems(s)
      <4>1. PICK i \in DOMAIN s : x = s[i]
        BY <3>2 DEF Elems
      <4>2. i \in DOMAIN r /\ r[i] = x
        BY <1>1, <4>1
      <4> QED BY <4>2 DEF Elems
    <3> QED BY <2>2, <3>1, <3>2
  <2> QED BY <2>1, <2>2
<1>3. ASSUME Distinct(s), e \notin Elems(s) PROVE Distinct(r)
  <2> SUFFICES ASSUME NEW i \in DOMAIN r, NEW j \in DOMAIN r, r[i] = r[j]
               PROVE  i = j
    BY DEF Distinct
  <2>1. \A k \in 1 .. Len(s) : r[k] # e
    BY <1>1, <1>3 DEF Elems
  <2> QED BY <1>1, <1>3, <2>1 DEF Distinct
<1> QED BY <1>1, <1>2, <1>3 DEF r

LEMMA TailElems ==
    ASSUME NEW S, NEW s \in Seq(S), s # <<>>
    PROVE  /\ Tail(s) \in Seq(S)
           /\ Head(s) \in S
           /\ Head(s) \in Elems(s)
           /\ Len(Tail(s)) = Len(s) - 1
           /\ Len(s) > 0
           /\ Distinct(s) => /\ Distinct(Tail(s))
                             /\ Elems(Tail(s)) = Elems(s) \ {Head(s)}
<1> DEFINE r == Tail(s)
           h == Head(s)
<1>1. /\ r \in Seq(S) /\ h \in S /\ Len(r) = Len(s) - 1 /\ Len(s) > 0
      /\ Len(s) \in Nat
      /\ DOMAIN s = 1 .. Len(s) /\ DOMAIN r = 1 .. Len(s) - 1
      /\ \A i \in 1 .. Len(s) - 1 : r[i] = s[i + 1]
      /\ h = s[1]
  OBVIOUS
<1> HIDE DEF r, h
<1>2. h \in Elems(s)
  BY <1>1 DEF Elems
<1>3. ASSUME Distinct(s) PROVE Distinct(r)
  <2> SUFFICES ASSUME NEW i \in DOMAIN r, NEW j \in DOMAIN r, r[i] = r[j]
               PROVE  i = j
    BY DEF Distinct
  <2>1. i + 1 \in DOMAIN s /\ j + 1 \in DOMAIN s /\ s[i + 1] = s[j + 1]
    BY <1>1
  <2>2. i + 1 = j + 1
    BY <1>3, <2>1 DEF Distinct
  <2> QED BY <2>2, <1>1
<1>4. ASSUME Distinct(s) PROVE Elems(r) = Elems(s) \ {h}
  <2>1. ASSUME NEW x \in Elems(r) PROVE x \in Elems(s) \ {h}
    <3>1. PICK i \in DOMAIN r : x = r[i]
      BY DEF Elems
    <3>2. i + 1 \in DOMAIN s /\ x = s[i + 1] /\ i + 1 # 1 /\ 1 \in DOMAIN s
      BY <1>1, <3>1
    <3>3. x # h
      BY <3>2, <1>1, <1>4 DEF Distinct
    <3> QED BY <3>2, <3>3 DEF Elems
  <2>2. ASSUME NEW x \in Elems(s) \ {h} PROVE x \in Elems(r)
    <3>1. PICK i \in DOMAIN s : x = s[i]
      BY DEF Elems
    <3>2. i - 1 \in DOMAIN r /\ r[i - 1] = x
      BY <1>1, <3>1, <2>2
    <3> QED BY <3>2 DEF Elems
  <2> QED BY <2>1, <2>2
<1> QED BY <1>1, <1>2, <1>3, <1>4 DEF r, h

LEMMA EmptyElems == Elems(<<>>) = {} /\ Distinct(<<>>)
  BY DEF Elems, Distinct

LEMMA ElemsOfSeq == ASSUME NEW S, NEW s \in Seq(S) PROVE Elems(s) \subseteq S
  BY DEF Elems
-----------------------------------------------------------------------------
(* The inductive invariant. *)

(* A thread is linked into one waiting place at most. *)
Exclusive ==
    \A t \in All :
        /\ HasFlag(t, "FREE_LIST") => flag[t] = {"FREE_LIST"}
        /\ HasFlag(t, "RUN_LIST") => flag[t] \subseteq {"RUN_LIST", "SUB_LIST"}
        /\ HasFlag(t, "SLEEP_LIST") =>
                flag[t] \subseteq {"SLEEP_LIST", "IO_LIST", "SUB_LIST"}
        /\ HasFlag(t, "IO_LIST") => HasFlag(t, "SLEEP_LIST")
        /\ HasFlag(t, "PEND_LIST") => flag[t] \subseteq {"PEND_LIST", "SUB_LIST"}

(* The running thread is in none of them until it has yielded. *)
CurrentUnlinked ==
    /\ pc # "schedule" => flag[curr_thread] \subseteq {"SUB_LIST"}
    /\ pc = "reclaim" => curr_thread # Primo /\ parent[curr_thread] = NULL

(* The threads mt_exec_all_task has created and not yet attached. *)
CreatedInv ==
    /\ Distinct(list)
    /\ \A t \in Elems(list) :
          /\ t \in objs /\ t # Daemon /\ t # curr_thread
          /\ flag[t] = {} /\ sublist[t] = {}
          /\ type[t] = "SUB_THREAD"
    /\ list # <<>> => pc \in {"creating", "adding", "cleanup"}

DaemonInv ==
    /\ Daemon \in objs
    /\ flag[Daemon] = {}
    /\ type[Daemon] = "DAEMON" /\ type[Primo] = "PRIMORDIAL"
    /\ pc \in {"dispatch", "expire"} => curr_thread = Daemon
    /\ curr_thread = Daemon => pc \in {"dispatch", "expire", "schedule"}

(* Objects outside the pool are as the constructor leaves them. *)
ObjsInv ==
    \A t \in Threads \ objs : flag[t] = {} /\ t # curr_thread

JoinInv ==
    /\ \A p, s \in All : s \in sublist[p] <=> parent[s] = p
    /\ \A p \in All : HasFlag(p, "PEND_LIST") => sublist[p] # {}
    /\ \A s \in All : parent[s] # NULL =>
          /\ type[s] = "SUB_THREAD"
          /\ \/ HasFlag(parent[s], "PEND_LIST")
             \/ parent[s] = curr_thread /\ pc = "adding"
    /\ \A s \in All : type[s] = "SUB_THREAD" =>
          \/ parent[s] # NULL
          \/ s \in Elems(list)
          \/ s = curr_thread /\ pc = "reclaim"
    /\ pc = "adding" /\ list = <<>> => sublist[curr_thread] # {}

(* A thread that no list links runs, or waits to be attached by its creator. *)
NoLost ==
    \A t \in (objs \cup {Primo}) \ {Daemon} :
        flag[t] \subseteq {"SUB_LIST"} =>
            t \in Elems(list) \/ (t = curr_thread /\ pc # "schedule")

IInv ==
    /\ TypeOK /\ FlagsMatchLists /\ Exclusive /\ CurrentUnlinked /\ CreatedInv
    /\ DaemonInv /\ ObjsInv /\ JoinInv /\ PoolCounts /\ NoLost
-----------------------------------------------------------------------------
(* Steps that leave parents, the local list and the running thread alone. *)
LEMMA JoinFrame ==
    ASSUME TypeOK, JoinInv,
           UNCHANGED <<type, parent, sublist, list, curr_thread>>,
           \A t \in All : HasFlag(t, "PEND_LIST")' = HasFlag(t, "PEND_LIST"),
           pc' = "adding" <=> pc = "adding",
           pc = "reclaim" => pc' = "reclaim"
    PROVE  JoinInv'
<1>1. Elems(list)' = Elems(list)
  BY DEF Elems
<1>2. \A s \in All : parent[s] # NULL => parent[s] \in All
  BY DEF TypeOK
<1> QED BY <1>1, <1>2 DEF JoinInv

(* The running thread gives the CPU up and is linked into the heap, and into
   the I/O list as well when it waits for I/O. *)
LEMMA BlockStep ==
    ASSUME IInv, NEW t \in All, Sleep(t) \/ WaitIo(t)
    PROVE  IInv'
<1>a. TypeOK /\ FlagsMatchLists /\ Exclusive /\ CurrentUnlinked /\ CreatedInv
      /\ DaemonInv /\ ObjsInv /\ JoinInv /\ PoolCounts /\ NoLost
  BY DEF IInv
<1>b. /\ UNCHANGED <<freelist, runlist, list, objs, total_num, use_num, waitnum>>
      /\ UNCHANGED <<type, parent, sublist, curr_thread, pend_list>>
      /\ t = curr_thread /\ pc = "user" /\ pc' = "schedule"
      /\ sleeplist' = sleeplist \cup {t}
  BY DEF Sleep, WaitIo, Running, threadVars, poolVars, runVars
<1>c. wakeup' \in [All -> Int]
  BY <1>a, ClockAssumption DEF TypeOK, Sleep, WaitIo
<1>d. PICK x \in {{"SLEEP_LIST"}, {"IO_LIST", "SLEEP_LIST"}} :
          /\ flag' = [flag EXCEPT ![t] = @ \cup x]
          /\ iolist' = IF "IO_LIST" \in x THEN iolist \cup {t} ELSE iolist
  <2>1. CASE Sleep(t)
    BY <2>1 DEF Sleep, SetFlag
  <2>2. CASE WaitIo(t)
    <3>1. flag' = SetFlag(SetFlag(flag, t, "IO_LIST"), t, "SLEEP_LIST")
      BY <2>2 DEF WaitIo
    <3>2. flag' = [flag EXCEPT ![t] = @ \cup {"IO_LIST", "SLEEP_LIST"}]
      BY <1>a, <3>1 DEF SetFlag, TypeOK
    <3> QED BY <2>2, <3>2 DEF WaitIo
  <2> QED BY <2>1, <2>2
<1>e. /\ flag' \in [All -> SUBSET Flags]
      /\ \A u \in All : flag'[u] = IF u = t THEN flag[u] \cup x ELSE flag[u]
  BY <1>a, <1>d DEF TypeOK, Flags
<1>f. flag[t] \subseteq {"SUB_LIST"} /\ t # Daemon /\ list = <<>>
  BY <1>a, <1>b DEF CurrentUnlinked, DaemonInv, CreatedInv
<1>q. /\ Elems(freelist)' = Elems(freelist) /\ Distinct(freelist)' = Distinct(freelist)
      /\ Elems(runlist)' = Elems(runlist) /\ Distinct(runlist)' = Distinct(runlist)
      /\ Elems(list)' = Elems(list) /\ Distinct(list)' = Distinct(list)
  BY <1>b DEF Elems, Distinct
<1>1. TypeOK'
  BY <1>a, <1>b, <1>c, <1>d, <1>e DEF TypeOK, Points
<1>2. FlagsMatchLists'
  BY <1>a, <1>b, <1>d, <1>e, <1>q DEF FlagsMatchLists, HasFlag
<1>3. Exclusive'
  BY <1>a, <1>d, <1>e, <1>f DEF Exclusive, HasFlag
<1>4. CurrentUnlinked'
  BY <1>b DEF CurrentUnlinked
<1>5. CreatedInv'
  BY <1>b, <1>f, <1>q, EmptyElems DEF CreatedInv
<1>6. DaemonInv'
  BY <1>a, <1>b, <1>e, <1>f, PoolAssumption DEF DaemonInv, All
<1>7. ObjsInv'
  BY <1>a, <1>b, <1>e DEF ObjsInv, All
<1>8. JoinInv'
  <2>1. \A u \in All : HasFlag(u, "PEND_LIST")' = HasFlag(u, "PEND_LIST")
    BY <1>d, <1>e DEF HasFlag
  <2> QED BY <1>a, <1>b, <2>1, JoinFrame
<1>9. PoolCounts'
  BY <1>a, <1>b, <1>q DEF PoolCounts
<1>10. NoLost'
  BY <1>a, <1>b, <1>d, <1>e, <1>q, ZenonT(60) DEF NoLost, TypeOK, All
<1> QED BY <1>1, <1>2, <1>3, <1>4, <1>5, <1>6, <1>7, <1>8, <1>9, <1>10 DEF IInv

(* Steps that only move the control point, or read the clock. *)
LEMMA ControlFrame ==
    ASSUME IInv, pc' \in Points, wakeup' \in [All -> Int],
           UNCHANGED <<flag, threadVars, poolVars, iolist, pend_list, sleeplist,
                       runVars, curr_thread, list>>,
           pc \notin {"schedule", "adding", "reclaim"},
           pc' = "reclaim" => curr_thread # Primo /\ parent[curr_thread] = NULL,
           pc' = "adding" => list # <<>>,
           list # <<>> => pc' \in {"creating", "adding", "cleanup"},
           pc' \in {"dispatch", "expire"} => curr_thread = Daemon,
           curr_thread = Daemon => pc' \in {"dispatch", "expire", "schedule"},
           pc' = "schedule" => curr_thread = Daemon
    PROVE  IInv'
<1>a. TypeOK /\ FlagsMatchLists /\ Exclusive /\ CurrentUnlinked /\ CreatedInv
      /\ DaemonInv /\ ObjsInv /\ JoinInv /\ PoolCounts /\ NoLost
  BY DEF IInv
<1>b. /\ UNCHANGED <<freelist, runlist, list, objs, total_num, use_num, waitnum>>
      /\ UNCHANGED <<type, parent, sublist, flag, curr_thread>>
      /\ UNCHANGED <<iolist, pend_list, sleeplist>>
  BY DEF threadVars, poolVars, runVars
<1>q. /\ Elems(freelist)' = Elems(freelist) /\ Distinct(freelist)' = Distinct(freelist)
      /\ Elems(runlist)' = Elems(runlist) /\ Distinct(runlist)' = Distinct(runlist)
      /\ Elems(list)' = Elems(list) /\ Distinct(list)' = Distinct(list)
  BY <1>b DEF Elems, Distinct
<1>1. TypeOK'
  BY <1>a, <1>b DEF TypeOK
<1>2. FlagsMatchLists'
  BY <1>a, <1>b, <1>q DEF FlagsMatchLists, HasFlag
<1>3. Exclusive'
  BY <1>a, <1>b DEF Exclusive, HasFlag
<1>4. CurrentUnlinked'
  BY <1>a, <1>b DEF CurrentUnlinked
<1>5. CreatedInv'
  BY <1>a, <1>b, <1>q DEF CreatedInv
<1>6. DaemonInv'
  BY <1>a, <1>b DEF DaemonInv
<1>7. ObjsInv'
  BY <1>a, <1>b DEF ObjsInv
<1>8. JoinInv'
  BY <1>a, <1>b, <1>q DEF JoinInv, HasFlag
<1>9. PoolCounts'
  BY <1>a, <1>b, <1>q DEF PoolCounts
<1>10. NoLost'
  BY <1>a, <1>b, <1>q DEF NoLost
<1> QED BY <1>1, <1>2, <1>3, <1>4, <1>5, <1>6, <1>7, <1>8, <1>9, <1>10 DEF IInv

LEMMA ControlStep ==
    ASSUME IInv,
           \/ \E t \in All : ExecAllTask(t) \/ RunEnds(t)
           \/ CreateSubFails \/ AllCreated \/ ExecFailed
           \/ SetLastClock(0) \/ DaemonSwitch
    PROVE  IInv'
<1>a. TypeOK /\ FlagsMatchLists /\ Exclusive /\ CurrentUnlinked /\ CreatedInv
      /\ DaemonInv /\ ObjsInv /\ JoinInv /\ PoolCounts /\ NoLost
  BY DEF IInv
<1>b. curr_thread # Daemon => pc \notin {"dispatch", "expire"}
  BY <1>a DEF DaemonInv
<1>c. pc \in {"user", "dispatch", "expire"} => list = <<>>
  BY <1>a DEF CreatedInv
<1>d. pc = "user" => curr_thread # Daemon
  BY <1>a DEF DaemonInv
<1>e. wakeup \in [All -> Int]
  BY <1>a DEF TypeOK
<1>1. ASSUME NEW t \in All, ExecAllTask(t) PROVE IInv'
  BY <1>1, <1>a, <1>c, <1>d, <1>e, ControlFrame
     DEF ExecAllTask, Running, Points, waitVars
<1>2. ASSUME NEW t \in All, RunEnds(t) PROVE IInv'
  <2>1. parent[t] = NULL
    BY <1>2, <1>a DEF RunEnds, JoinInv
  <2> QED BY <1>2, <2>1, <1>a, <1>c, <1>d, <1>e, ControlFrame
          DEF RunEnds, Running, Points, waitVars
<1>3. CASE CreateSubFails
  BY <1>3, <1>a, <1>e, ControlFrame DEF CreateSubFails, Points, waitVars, DaemonInv
<1>4. CASE AllCreated
  BY <1>4, <1>a, <1>e, ControlFrame DEF AllCreated, Points, waitVars, DaemonInv
<1>5. CASE ExecFailed
  BY <1>5, <1>a, <1>e, ControlFrame DEF ExecFailed, Points, waitVars, DaemonInv
<1>6. CASE SetLastClock(0)
  <2>1. \A w \in EpollTimeouts : w \in Int
    BY <1>e, ClockAssumption DEF EpollTimeouts, HeapTops, TypeOK
  <2>2. wakeup' \in [All -> Int]
    BY <1>6, <1>e, <2>1, ClockAssumption DEF SetLastClock
  <2> QED BY <1>6, <2>2, <1>a, <1>c, ControlFrame
          DEF SetLastClock, Points, DaemonInv
<1>7. CASE DaemonSwitch
  BY <1>7, <1>a, <1>c, <1>e, ControlFrame DEF DaemonSwitch, Points, waitVars, DaemonInv
<1> QED BY <1>1, <1>2, <1>3, <1>4, <1>5, <1>6, <1>7

(* mt_exec_all_task waits for the sub threads it has attached. *)
LEMMA WaitStep ==
    ASSUME IInv, Wait
    PROVE  IInv'
<1>a. TypeOK /\ FlagsMatchLists /\ Exclusive /\ CurrentUnlinked /\ CreatedInv
      /\ DaemonInv /\ ObjsInv /\ JoinInv /\ PoolCounts /\ NoLost
  BY DEF IInv
<1> DEFINE t == curr_thread
<1>b. /\ UNCHANGED <<freelist, runlist, list, objs, total_num, use_num, waitnum>>
      /\ UNCHANGED <<type, parent, sublist, wakeup, curr_thread, iolist, sleeplist>>
      /\ pc = "adding" /\ list = <<>> /\ pc' = "schedule"
      /\ pend_list' = pend_list \cup {t}
      /\ flag' = [flag EXCEPT ![t] = @ \cup {"PEND_LIST"}]
  BY DEF Wait, SetFlag, threadVars, poolVars, runVars
<1>c. /\ t \in All /\ t # Daemon /\ flag[t] \subseteq {"SUB_LIST"}
      /\ sublist[t] # {}
  BY <1>a, <1>b DEF TypeOK, DaemonInv, CurrentUnlinked, JoinInv
<1>d. /\ flag' \in [All -> SUBSET Flags]
      /\ \A u \in All : flag'[u] = IF u = t THEN flag[u] \cup {"PEND_LIST"}
                                          ELSE flag[u]
  BY <1>a, <1>b, <1>c DEF TypeOK, Flags
<1>q. /\ Elems(freelist)' = Elems(freelist) /\ Distinct(freelist)' = Distinct(freelist)
      /\ Elems(runlist)' = Elems(runlist) /\ Distinct(runlist)' = Distinct(runlist)
      /\ Elems(list)' = Elems(list) /\ Distinct(list)' = Distinct(list)
  BY <1>b DEF Elems, Distinct
<1>1. TypeOK'
  BY <1>a, <1>b, <1>c, <1>d DEF TypeOK, Points
<1>2. FlagsMatchLists'
  BY <1>a, <1>b, <1>d, <1>q DEF FlagsMatchLists, HasFlag
<1>3. Exclusive'
  BY <1>a, <1>c, <1>d DEF Exclusive, HasFlag
<1>4. CurrentUnlinked'
  BY <1>b DEF CurrentUnlinked
<1>5. CreatedInv'
  BY <1>b, <1>q, EmptyElems DEF CreatedInv
<1>6. DaemonInv'
  BY <1>a, <1>b, <1>c, <1>d, PoolAssumption DEF DaemonInv, All
<1>7. ObjsInv'
  BY <1>a, <1>b, <1>d DEF ObjsInv, All
<1>8. JoinInv'
  <2>1. \A s \in All : parent[s] # NULL => parent[s] \in All
    BY <1>a DEF TypeOK
  <2> QED BY <1>a, <1>b, <1>c, <1>d, <1>q, <2>1 DEF JoinInv, HasFlag
<1>9. PoolCounts'
  BY <1>a, <1>b, <1>q DEF PoolCounts
<1>10. NoLost'
  BY <1>a, <1>b, <1>c, <1>d, <1>q DEF NoLost, TypeOK, All
<1> QED BY <1>1, <1>2, <1>3, <1>4, <1>5, <1>6, <1>7, <1>8, <1>9, <1>10 DEF IInv

(* An event or a timeout takes t off the heap. *)
LEMMA WakeStep ==
    ASSUME IInv, WakeupTimeout \/ \E t \in All : EpollNotify(t)
    PROVE  IInv'
<1>a. TypeOK /\ FlagsMatchLists /\ Exclusive /\ CurrentUnlinked /\ CreatedInv
      /\ DaemonInv /\ ObjsInv /\ JoinInv /\ PoolCounts /\ NoLost
  BY DEF IInv
<1>0. PICK t \in All :
          /\ pc \in {"dispatch", "expire"}
          /\ HasFlag(t, "SLEEP_LIST")
          /\ Wake(t)
          /\ UNCHANGED <<threadVars, poolVars, pend_list, curr_thread, pc, list>>
  <2>1. CASE WakeupTimeout
    <3>1. HeapTops \subseteq sleeplist /\ sleeplist \subseteq All
      BY <1>a DEF HeapTops, TypeOK
    <3> QED BY <1>a, <2>1, <3>1 DEF WakeupTimeout, FlagsMatchLists
  <2>2. ASSUME NEW t \in All, EpollNotify(t)
        PROVE  /\ pc \in {"dispatch", "expire"}
               /\ HasFlag(t, "SLEEP_LIST")
               /\ Wake(t)
               /\ UNCHANGED <<threadVars, poolVars, pend_list, curr_thread, pc, list>>
    BY <1>a, <2>2 DEF EpollNotify, Exclusive
  <2> QED BY <2>1, <2>2
<1>b. /\ UNCHANGED <<freelist, list, objs, total_num, use_num, pend_list>>
      /\ UNCHANGED <<type, parent, sublist, curr_thread, pc>>
      /\ sleeplist' = sleeplist \ {t} /\ iolist' = iolist \ {t}
      /\ runlist' = Append(runlist, t) /\ waitnum' = waitnum + 1
      /\ wakeup' = [wakeup EXCEPT ![t] = 0]
      /\ flag' = [flag EXCEPT ![t] = (@ \ {"IO_LIST", "SLEEP_LIST"})
                                         \cup {"RUN_LIST"}]
      /\ list = <<>> /\ pc \in {"dispatch", "expire"}
  BY <1>0, <1>a DEF Wake, Woken, InsertRunable, threadVars, poolVars, CreatedInv
<1>c. /\ flag' \in [All -> SUBSET Flags]
      /\ \A u \in All : flag'[u] =
              IF u = t THEN (flag[u] \ {"IO_LIST", "SLEEP_LIST"}) \cup {"RUN_LIST"}
                       ELSE flag[u]
      /\ wakeup' \in [All -> Int]
  <2>1. flag' \in [All -> SUBSET Flags]
    BY <1>a, <1>b DEF TypeOK, Flags
  <2>2. \A u \in All : flag'[u] =
            IF u = t THEN (flag[u] \ {"IO_LIST", "SLEEP_LIST"}) \cup {"RUN_LIST"}
                     ELSE flag[u]
    BY <1>a, <1>b DEF TypeOK
  <2>3. wakeup' \in [All -> Int]
    BY <1>a, <1>b DEF TypeOK
  <2> QED BY <2>1, <2>2, <2>3
<1>d. /\ "SLEEP_LIST" \in flag[t]
      /\ flag[t] \subseteq {"SLEEP_LIST", "IO_LIST", "SUB_LIST"}
      /\ t # curr_thread /\ t # Daemon /\ t \notin Elems(runlist)
  BY <1>0, <1>a, <1>b DEF HasFlag, Exclusive, CurrentUnlinked, DaemonInv,
                          FlagsMatchLists
<1>q. /\ Elems(freelist)' = Elems(freelist) /\ Distinct(freelist)' = Distinct(freelist)
      /\ Elems(list)' = Elems(list) /\ Distinct(list)' = Distinct(list)
  BY <1>b DEF Elems, Distinct
<1>r. /\ runlist' \in Seq(All) /\ Len(runlist') = Len(runlist) + 1
      /\ Elems(runlist') = Elems(runlist) \cup {t} /\ Distinct(runlist')
  BY <1>a, <1>b, <1>d, AppendElems DEF TypeOK, FlagsMatchLists
<1>s. Elems(runlist)' = Elems(runlist') /\ Distinct(runlist)' = Distinct(runlist')
  BY DEF Elems, Distinct
<1>1. TypeOK'
  BY <1>a, <1>b, <1>c, <1>r DEF TypeOK
<1>2. FlagsMatchLists'
  BY <1>a, <1>b, <1>c, <1>d, <1>q, <1>r, <1>s DEF FlagsMatchLists, HasFlag
<1>3. Exclusive'
  BY <1>a, <1>c, <1>d DEF Exclusive, HasFlag
<1>4. CurrentUnlinked'
  BY <1>a, <1>b, <1>c, <1>d DEF CurrentUnlinked, TypeOK
<1>5. CreatedInv'
  BY <1>b, <1>q, EmptyElems DEF CreatedInv
<1>6. DaemonInv'
  BY <1>a, <1>b, <1>c, <1>d, PoolAssumption DEF DaemonInv, All
<1>7. ObjsInv'
  BY <1>a, <1>b, <1>c, <1>d DEF ObjsInv, All
<1>8. JoinInv'
  <2>1. \A u \in All : HasFlag(u, "PEND_LIST")' = HasFlag(u, "PEND_LIST")
    BY <1>c DEF HasFlag
  <2> QED BY <1>a, <1>b, <2>1, JoinFrame
<1>9. PoolCounts'
  BY <1>a, <1>b, <1>q, <1>r DEF PoolCounts
<1>10. NoLost'
  BY <1>a, <1>b, <1>c, <1>q DEF NoLost, TypeOK, All
<1> QED BY <1>1, <1>2, <1>3, <1>4, <1>5, <1>6, <1>7, <1>8, <1>9, <1>10 DEF IInv

(* The next thread leaves the run queue, or the daemon takes over. *)
LEMMA ThreadSchduleStep ==
    ASSUME IInv, ThreadSchdule
    PROVE  IInv'
<1>a. TypeOK /\ FlagsMatchLists /\ Exclusive /\ CurrentUnlinked /\ CreatedInv
      /\ DaemonInv /\ ObjsInv /\ JoinInv /\ PoolCounts /\ NoLost
  BY DEF IInv
<1>0. /\ UNCHANGED <<freelist, list, objs, total_num, use_num>>
      /\ UNCHANGED <<type, parent, sublist, iolist, pend_list, sleeplist, wakeup>>
      /\ pc = "schedule" /\ list = <<>>
  BY <1>a DEF ThreadSchdule, threadVars, poolVars, waitVars, CreatedInv
<1>q. /\ Elems(freelist)' = Elems(freelist) /\ Distinct(freelist)' = Distinct(freelist)
      /\ Elems(list)' = Elems(list) /\ Distinct(list)' = Distinct(list)
  BY <1>0 DEF Elems, Distinct
<1>j. ASSUME \A u \in All : HasFlag(u, "PEND_LIST")' = HasFlag(u, "PEND_LIST"),
             pc' # "adding"
      PROVE  JoinInv'
  <2>1. \A s \in All : parent[s] # NULL => parent[s] \in All
    BY <1>a DEF TypeOK
  <2> QED BY <1>a, <1>0, <1>q, <1>j, <2>1 DEF JoinInv
<1>x. CASE runlist = <<>>
  <2>b. /\ curr_thread' = Daemon /\ pc' = "dispatch"
        /\ UNCHANGED <<flag, runlist, waitnum>>
    BY <1>x DEF ThreadSchdule, runVars
  <2>q. Elems(runlist)' = Elems(runlist) /\ Distinct(runlist)' = Distinct(runlist)
    BY <2>b DEF Elems, Distinct
  <2>1. TypeOK'
    BY <1>a, <1>0, <2>b, PoolAssumption DEF TypeOK, Points, All
  <2>2. FlagsMatchLists' /\ Exclusive'
    BY <1>a, <1>0, <1>q, <2>b, <2>q DEF FlagsMatchLists, Exclusive, HasFlag
  <2>3. CurrentUnlinked' /\ CreatedInv' /\ DaemonInv'
    BY <1>a, <1>0, <1>q, <2>b, EmptyElems
       DEF CurrentUnlinked, CreatedInv, DaemonInv
  <2>4. ObjsInv'
    BY <1>a, <1>0, <2>b DEF ObjsInv, DaemonInv
  <2>5. JoinInv'
    BY <1>j, <2>b DEF HasFlag
  <2>6. PoolCounts'
    BY <1>a, <1>0, <1>q, <2>b DEF PoolCounts
  <2>7. NoLost'
    BY <1>a, <1>0, <1>q, <2>b DEF NoLost
  <2> QED BY <2>1, <2>2, <2>3, <2>4, <2>5, <2>6, <2>7 DEF IInv
<1>y. CASE runlist # <<>>
  <2> DEFINE t == Head(runlist)
  <2>b. /\ curr_thread' = t /\ pc' = "user"
        /\ runlist' = Tail(runlist) /\ waitnum' = waitnum - 1
        /\ flag' = [flag EXCEPT ![t] = @ \ {"RUN_LIST"}]
    BY <1>y DEF ThreadSchdule, UnsetFlag
  <2>c. /\ t \in All /\ t \in Elems(runlist)
        /\ runlist' \in Seq(All) /\ Len(runlist') = Len(runlist) - 1
        /\ Len(runlist) \in Nat /\ Len(runlist) > 0
        /\ Elems(runlist') = Elems(runlist) \ {t} /\ Distinct(runlist')
    BY <1>a, <1>y, <2>b, TailElems DEF TypeOK, FlagsMatchLists
  <2>s. Elems(runlist)' = Elems(runlist') /\ Distinct(runlist)' = Distinct(runlist')
    BY DEF Elems, Distinct
  <2> HIDE DEF t
  <2>d. /\ flag' \in [All -> SUBSET Flags]
        /\ \A u \in All : flag'[u] = IF u = t THEN flag[u] \ {"RUN_LIST"}
                                            ELSE flag[u]
    BY <1>a, <2>b, <2>c DEF TypeOK
  <2>e. /\ "RUN_LIST" \in flag[t] /\ flag[t] \subseteq {"RUN_LIST", "SUB_LIST"}
        /\ t # Daemon
    BY <1>a, <2>c DEF FlagsMatchLists, HasFlag, Exclusive, DaemonInv
  <2>1. TypeOK'
    BY <1>a, <1>0, <2>b, <2>c, <2>d DEF TypeOK, Points, PoolCounts
  <2>2. FlagsMatchLists'
    BY <1>a, <1>0, <1>q, <2>c, <2>d, <2>e, <2>s DEF FlagsMatchLists, HasFlag
  <2>3. Exclusive'
    BY <1>a, <2>d, <2>e DEF Exclusive, HasFlag
  <2>4. CurrentUnlinked' /\ CreatedInv'
    BY <1>0, <1>q, <2>b, <2>c, <2>d, <2>e, EmptyElems DEF CurrentUnlinked, CreatedInv
  <2>5. DaemonInv'
    BY <1>a, <1>0, <2>b, <2>d, <2>e, PoolAssumption DEF DaemonInv, All
  <2>6. ObjsInv'
    BY <1>a, <1>0, <2>b, <2>d, <2>e DEF ObjsInv, All
  <2>7. JoinInv'
    <3>1. \A u \in All : HasFlag(u, "PEND_LIST")' = HasFlag(u, "PEND_LIST")
      BY <2>d DEF HasFlag
    <3> QED BY <1>j, <2>b, <3>1
  <2>8. PoolCounts'
    BY <1>a, <1>0, <1>q, <2>b, <2>c DEF PoolCounts
  <2>9. NoLost'
    BY <1>a, <1>0, <1>q, <2>b, <2>d DEF NoLost, All, TypeOK
  <2> QED BY <2>1, <2>2, <2>3, <2>4, <2>5, <2>6, <2>7, <2>8, <2>9 DEF IInv
<1> QED BY <1>x, <1>y

(* A created thread is attached to the running one and made runable. *)
LEMMA AddSubThreadStep ==
    ASSUME IInv, AddSubThread
    PROVE  IInv'
<1>a. TypeOK /\ FlagsMatchLists /\ Exclusive /\ CurrentUnlinked /\ CreatedInv
      /\ DaemonInv /\ ObjsInv /\ JoinInv /\ PoolCounts /\ NoLost
  BY DEF IInv
<1> DEFINE t == Head(list)
           p == curr_thread
<1>b. /\ UNCHANGED <<freelist, objs, total_num, use_num, type, curr_thread, pc>>
      /\ UNCHANGED <<iolist, pend_list, sleeplist, wakeup>>
      /\ pc = "adding" /\ list # <<>> /\ list' = Tail(list)
      /\ runlist' = Append(runlist, t) /\ waitnum' = waitnum + 1
      /\ sublist' = [sublist EXCEPT ![p] = @ \cup {t}]
      /\ parent' = [parent EXCEPT ![t] = p]
      /\ flag' = SetFlag(SetFlag(flag, t, "SUB_LIST"), t, "RUN_LIST")
  BY DEF AddSubThread, InsertRunable, poolVars, waitVars
<1>c. /\ t \in Threads /\ t \in Elems(list)
      /\ list' \in Seq(Threads) /\ Distinct(list')
      /\ Elems(list') = Elems(list) \ {t}
  BY <1>a, <1>b, TailElems DEF TypeOK, CreatedInv
<1> HIDE DEF t
<1>d. /\ t \in All /\ t \in objs /\ t # Daemon /\ t # p /\ p \in All
      /\ flag[t] = {} /\ sublist[t] = {} /\ type[t] = "SUB_THREAD"
      /\ parent[t] = NULL /\ p # NULL /\ t # NULL
      /\ t \notin Elems(runlist)
  BY <1>a, <1>c, PoolAssumption
     DEF CreatedInv, TypeOK, All, FlagsMatchLists, HasFlag
<1>e. /\ flag' \in [All -> SUBSET Flags]
      /\ \A u \in All : flag'[u] = IF u = t THEN {"RUN_LIST", "SUB_LIST"}
                                          ELSE flag[u]
  BY <1>a, <1>b, <1>d DEF TypeOK, Flags, SetFlag
<1>f. /\ sublist' \in [All -> SUBSET All]
      /\ \A u \in All : sublist'[u] = IF u = p THEN sublist[u] \cup {t}
                                             ELSE sublist[u]
  BY <1>a, <1>b, <1>d DEF TypeOK
<1>g. /\ parent' \in [All -> All \cup {NULL}]
      /\ \A u \in All : parent'[u] = IF u = t THEN p ELSE parent[u]
  BY <1>a, <1>b, <1>d DEF TypeOK
<1>r. /\ runlist' \in Seq(All) /\ Len(runlist') = Len(runlist) + 1
      /\ Elems(runlist') = Elems(runlist) \cup {t} /\ Distinct(runlist')
  BY <1>a, <1>b, <1>d, AppendElems DEF TypeOK, FlagsMatchLists
<1>q. /\ Elems(freelist)' = Elems(freelist) /\ Distinct(freelist)' = Distinct(freelist)
      /\ Elems(runlist)' = Elems(runlist') /\ Distinct(runlist)' = Distinct(runlist')
      /\ Elems(list)' = Elems(list') /\ Distinct(list)' = Distinct(list')
  BY <1>b DEF Elems, Distinct
<1>1. TypeOK'
  BY <1>a, <1>b, <1>c, <1>e, <1>f, <1>g, <1>r DEF TypeOK
<1>2. FlagsMatchLists'
  <2>1. ASSUME NEW u \in All
        PROVE  /\ "FREE_LIST" \in flag'[u] <=> u \in Elems(freelist)
               /\ "RUN_LIST" \in flag'[u] <=> u \in Elems(runlist')
               /\ "SLEEP_LIST" \in flag'[u] <=> u \in sleeplist
               /\ "IO_LIST" \in flag'[u] <=> u \in iolist
               /\ "PEND_LIST" \in flag'[u] <=> u \in pend_list
               /\ "SUB_LIST" \in flag'[u] <=> parent'[u] # NULL
    <3>0. /\ "FREE_LIST" \in flag[u] <=> u \in Elems(freelist)
          /\ "RUN_LIST" \in flag[u] <=> u \in Elems(runlist)
          /\ "SLEEP_LIST" \in flag[u] <=> u \in sleeplist
          /\ "IO_LIST" \in flag[u] <=> u \in iolist
          /\ "PEND_LIST" \in flag[u] <=> u \in pend_list
          /\ "SUB_LIST" \in flag[u] <=> parent[u] # NULL
      BY <1>a DEF FlagsMatchLists, HasFlag
    <3>1. CASE u = t
      <4>1. flag[u] = {} /\ flag'[u] = {"RUN_LIST", "SUB_LIST"} /\ parent'[u] # NULL
        BY <3>1, <1>d, <1>e, <1>g
      <4> QED BY <3>0, <3>1, <4>1, <1>r
    <3>2. CASE u # t
      <4>1. flag'[u] = flag[u] /\ parent'[u] = parent[u]
        BY <3>2, <1>e, <1>g
      <4> QED BY <3>0, <3>2, <4>1, <1>r
    <3> QED BY <3>1, <3>2
  <2>2. Distinct(freelist)' /\ Distinct(runlist)'
    BY <1>a, <1>q, <1>r DEF FlagsMatchLists
  <2> QED BY <1>b, <1>q, <2>1, <2>2 DEF FlagsMatchLists, HasFlag
<1>3. Exclusive'
  BY <1>a, <1>e DEF Exclusive, HasFlag
<1>4. CurrentUnlinked'
  BY <1>a, <1>b, <1>d, <1>e DEF CurrentUnlinked
<1>5. CreatedInv'
  <2>1. \A u \in Elems(list') : u \in Elems(list) /\ u # t /\ u \in All
    BY <1>a, <1>c, ElemsOfSeq DEF All
  <2>2. \A u \in Elems(list') : u # p
    BY <1>a, <2>1 DEF CreatedInv
  <2> QED BY <1>a, <1>b, <1>c, <1>e, <1>f, <1>q, <2>1, <2>2 DEF CreatedInv
<1>6. DaemonInv'
  BY <1>a, <1>b, <1>d, <1>e, PoolAssumption DEF DaemonInv, All
<1>7. ObjsInv'
  BY <1>a, <1>b, <1>d, <1>e DEF ObjsInv, All
<1>8. JoinInv'
  <2>1. \A s, u \in All : s \in sublist'[u] <=> parent'[s] = u
    <3> TAKE s, u \in All
    <3>1. s \in sublist[u] <=> parent[s] = u
      BY <1>a DEF JoinInv
    <3>2. u # NULL
      BY PoolAssumption
    <3>3. CASE s = t
      BY <3>1, <3>2, <3>3, <1>d, <1>f, <1>g
    <3>4. CASE s # t
      BY <3>1, <3>4, <1>f, <1>g
    <3> QED BY <3>3, <3>4
  <2>2. \A u \in All : HasFlag(u, "PEND_LIST")' <=> HasFlag(u, "PEND_LIST")
    BY <1>d, <1>e DEF HasFlag
  <2>3. \A u \in All : HasFlag(u, "PEND_LIST")' => sublist'[u] # {}
    BY <1>a, <1>f, <2>2 DEF JoinInv
  <2>4. \A s \in All : parent[s] # NULL => parent[s] \in All
    BY <1>a DEF TypeOK
  <2>5. \A s \in All : parent'[s] # NULL =>
            /\ type'[s] = "SUB_THREAD"
            /\ \/ "PEND_LIST" \in flag'[parent'[s]]
               \/ parent'[s] = curr_thread' /\ pc' = "adding"
    <3> SUFFICES ASSUME NEW s \in All, parent'[s] # NULL
                 PROVE  /\ type[s] = "SUB_THREAD"
                        /\ \/ "PEND_LIST" \in flag'[parent'[s]]
                           \/ parent'[s] = p
      BY <1>b
    <3>1. CASE s = t
      BY <3>1, <1>d, <1>g
    <3>2. CASE s # t
      <4>1. parent'[s] = parent[s] /\ parent[s] \in All
        BY <3>2, <1>g, <2>4
      <4>2. /\ type[s] = "SUB_THREAD"
            /\ HasFlag(parent[s], "PEND_LIST") \/ parent[s] = p
        BY <1>a, <4>1 DEF JoinInv
      <4> QED BY <4>1, <4>2, <2>2 DEF HasFlag
    <3> QED BY <3>1, <3>2
  <2>6. \A s \in All : type'[s] = "SUB_THREAD" =>
            parent'[s] # NULL \/ s \in Elems(list')
    BY <1>a, <1>b, <1>c, <1>d, <1>g DEF JoinInv
  <2>7. sublist'[curr_thread'] # {}
    BY <1>b, <1>d, <1>f
  <2> QED BY <1>b, <1>q, <2>1, <2>3, <2>5, <2>6, <2>7 DEF JoinInv, HasFlag
<1>9. PoolCounts'
  BY <1>a, <1>b, <1>q, <1>r DEF PoolCounts
<1>10. NoLost'
  <2> SUFFICES ASSUME NEW u \in (objs' \cup {Primo}) \ {Daemon},
                      flag'[u] \subseteq {"SUB_LIST"}
               PROVE  u \in Elems(list)' \/ (u = curr_thread' /\ pc' # "schedule")
    BY DEF NoLost
  <2>1. u \in All
    BY <1>a, <1>b DEF TypeOK, All
  <2>2. u # t /\ flag[u] \subseteq {"SUB_LIST"}
    BY <1>e, <2>1
  <2>3. u \in Elems(list) \/ (u = curr_thread /\ pc # "schedule")
    BY <1>a, <1>b, <2>2 DEF NoLost
  <2> QED BY <1>b, <1>c, <1>q, <2>2, <2>3
<1> QED BY <1>1, <1>2, <1>3, <1>4, <1>5, <1>6, <1>7, <1>8, <1>9, <1>10 DEF IInv

(* A sub thread leaves its parent, and wakes it when it is the last. *)
LEMMA WakeupParentStep ==
    ASSUME IInv, NEW t \in All, WakeupParent(t)
    PROVE  IInv'
<1>a. TypeOK /\ FlagsMatchLists /\ Exclusive /\ CurrentUnlinked /\ CreatedInv
      /\ DaemonInv /\ ObjsInv /\ JoinInv /\ PoolCounts /\ NoLost
  BY DEF IInv
<1> DEFINE p == parent[t]
<1>b. /\ UNCHANGED <<freelist, list, objs, total_num, use_num, type, curr_thread>>
      /\ UNCHANGED <<iolist, sleeplist, wakeup>>
      /\ t = curr_thread /\ pc = "user" /\ pc' = "reclaim" /\ list = <<>>
      /\ type[t] = "SUB_THREAD" /\ p # NULL
      /\ sublist' = [sublist EXCEPT ![p] = @ \ {t}]
      /\ parent' = [parent EXCEPT ![t] = NULL]
      /\ IF sublist[p] \ {t} = {}
         THEN /\ pend_list' = pend_list \ {p}
              /\ flag' = SetFlag(UnsetFlag(UnsetFlag(flag, t, "SUB_LIST"),
                                           p, "PEND_LIST"), p, "RUN_LIST")
              /\ runlist' = Append(runlist, p) /\ waitnum' = waitnum + 1
         ELSE /\ flag' = UnsetFlag(flag, t, "SUB_LIST")
              /\ UNCHANGED <<pend_list, runlist, waitnum>>
  BY <1>a DEF WakeupParent, Running, InsertRunable, LastSub, poolVars, runVars,
              CreatedInv
<1>c. /\ p \in All /\ p # t
      /\ "PEND_LIST" \in flag[p] /\ flag[p] \subseteq {"PEND_LIST", "SUB_LIST"}
      /\ flag[t] \subseteq {"SUB_LIST"}
      /\ t # Daemon /\ p # Daemon /\ t # Primo
      /\ p \notin Elems(runlist)
      /\ p \in pend_list
  BY <1>a, <1>b DEF TypeOK, JoinInv, HasFlag, Exclusive, CurrentUnlinked, DaemonInv,
                    FlagsMatchLists
<1> DEFINE last == sublist[p] \ {t} = {}
<1>e. /\ flag' \in [All -> SUBSET Flags]
      /\ \A u \in All : flag'[u] =
             IF u = t THEN {}
             ELSE IF u = p /\ last
                  THEN (flag[u] \ {"PEND_LIST"}) \cup {"RUN_LIST"}
                  ELSE flag[u]
  <2>1. flag[t] \ {"SUB_LIST"} = {}
    BY <1>c
  <2>2. flag' \in [All -> SUBSET Flags]
    <3>1. /\ flag \in [All -> SUBSET Flags] /\ "RUN_LIST" \in Flags
          /\ \A f \in [All -> SUBSET Flags], u \in All, x \in Flags :
                /\ UnsetFlag(f, u, x) \in [All -> SUBSET Flags]
                /\ SetFlag(f, u, x) \in [All -> SUBSET Flags]
      BY <1>a DEF TypeOK, SetFlag, UnsetFlag, Flags
    <3>2. "SUB_LIST" \in Flags /\ "PEND_LIST" \in Flags
      BY DEF Flags
    <3>3. UnsetFlag(flag, t, "SUB_LIST") \in [All -> SUBSET Flags]
      BY <3>1, <3>2
    <3>4. CASE last
      <4>1. UnsetFlag(UnsetFlag(flag, t, "SUB_LIST"), p, "PEND_LIST")
               \in [All -> SUBSET Flags]
        BY <1>c, <3>1, <3>2, <3>3
      <4> QED BY <1>b, <1>c, <3>1, <3>4, <4>1
    <3>5. CASE ~last
      BY <1>b, <3>3, <3>5
    <3> QED BY <3>4, <3>5
  <2>3. CASE last
    <3> DEFINE f1 == [flag EXCEPT ![t] = @ \ {"SUB_LIST"}]
               f2 == [f1 EXCEPT ![p] = @ \ {"PEND_LIST"}]
               f3 == [f2 EXCEPT ![p] = @ \cup {"RUN_LIST"}]
    <3>1. flag' = f3
      BY <1>b, <2>3 DEF SetFlag, UnsetFlag
    <3>2. /\ f1 \in [All -> SUBSET Flags]
          /\ \A u \in All : f1[u] = IF u = t THEN {} ELSE flag[u]
      BY <1>a, <2>1 DEF TypeOK
    <3> HIDE DEF f1
    <3>3. /\ f2 \in [All -> SUBSET Flags]
          /\ \A u \in All : f2[u] = IF u = p THEN f1[u] \ {"PEND_LIST"} ELSE f1[u]
      BY <3>2
    <3> HIDE DEF f2
    <3>4. \A u \in All : f3[u] = IF u = p THEN f2[u] \cup {"RUN_LIST"} ELSE f2[u]
      BY <3>3
    <3> QED BY <2>2, <2>3, <3>1, <3>2, <3>3, <3>4, <1>c
  <2>4. CASE ~last
    BY <1>a, <1>b, <2>1, <2>2, <2>4 DEF TypeOK, UnsetFlag
  <2> QED BY <2>3, <2>4
<1>f. /\ sublist' \in [All -> SUBSET All]
      /\ \A u \in All : sublist'[u] = IF u = p THEN sublist[u] \ {t} ELSE sublist[u]
  BY <1>a, <1>b, <1>c DEF TypeOK
<1>g. /\ parent' \in [All -> All \cup {NULL}]
      /\ \A u \in All : parent'[u] = IF u = t THEN NULL ELSE parent[u]
  BY <1>a, <1>b DEF TypeOK
<1>h. pend_list' = IF last THEN pend_list \ {p} ELSE pend_list
  BY <1>b
<1>r. /\ runlist' \in Seq(All) /\ Distinct(runlist')
      /\ Elems(runlist') = IF last THEN Elems(runlist) \cup {p} ELSE Elems(runlist)
      /\ waitnum' = Len(runlist') /\ waitnum' \in Nat
  <2>1. /\ runlist \in Seq(All) /\ Distinct(runlist) /\ waitnum = Len(runlist)
        /\ Len(runlist) \in Nat
    BY <1>a DEF TypeOK, FlagsMatchLists, PoolCounts
  <2>2. CASE last
    <3>1. runlist' = Append(runlist, p) /\ waitnum' = waitnum + 1
      BY <1>b, <2>2
    <3> QED BY <2>1, <2>2, <3>1, <1>c, AppendElems
  <2>3. CASE ~last
    <3>1. runlist' = runlist /\ waitnum' = waitnum
      BY <1>b, <2>3
    <3> QED BY <2>1, <2>3, <3>1
  <2> QED BY <2>2, <2>3
<1>q. /\ Elems(freelist)' = Elems(freelist) /\ Distinct(freelist)' = Distinct(freelist)
      /\ Elems(runlist)' = Elems(runlist') /\ Distinct(runlist)' = Distinct(runlist')
      /\ Elems(list)' = Elems(list) /\ Distinct(list)' = Distinct(list)
  BY <1>b DEF Elems, Distinct
<1>i. parent[t] # NULL /\ \A s \in All : parent[s] # NULL => parent[s] \in All
  BY <1>a, <1>b DEF TypeOK
<1> HIDE DEF p, last
<1>1. TypeOK'
  BY <1>a, <1>b, <1>e, <1>f, <1>g, <1>h, <1>r DEF TypeOK, Points
<1>2. FlagsMatchLists'
  BY <1>a, <1>b, <1>c, <1>e, <1>g, <1>h, <1>q, <1>r DEF FlagsMatchLists, HasFlag
<1>3. Exclusive'
  BY <1>a, <1>c, <1>e DEF Exclusive, HasFlag
<1>4. CurrentUnlinked'
  BY <1>b, <1>c, <1>e, <1>g DEF CurrentUnlinked
<1>5. CreatedInv'
  BY <1>b, <1>q, EmptyElems DEF CreatedInv
<1>6. DaemonInv'
  BY <1>a, <1>b, <1>c, <1>e, PoolAssumption DEF DaemonInv, All
<1>7. ObjsInv'
  BY <1>a, <1>b, <1>c, <1>e DEF ObjsInv, All
<1>8. JoinInv'
  <2>1. \A u, s \in All : s \in sublist'[u] <=> parent'[s] = u
    BY <1>a, <1>c, <1>f, <1>g, PoolAssumption DEF JoinInv, p
  <2>2. \A u \in All : HasFlag(u, "PEND_LIST")' =>
            HasFlag(u, "PEND_LIST") /\ (u = p => ~last)
    BY <1>c, <1>e DEF HasFlag
  <2>3. \A u \in All : HasFlag(u, "PEND_LIST")' => sublist'[u] # {}
    BY <1>a, <1>f, <2>2 DEF JoinInv, last
  <2>4. ASSUME NEW s \in All, parent'[s] # NULL
        PROVE  type'[s] = "SUB_THREAD" /\ "PEND_LIST" \in flag'[parent'[s]]
    <3>1. /\ s # t /\ parent'[s] = parent[s] /\ parent[s] \in All
          /\ type[s] = "SUB_THREAD" /\ "PEND_LIST" \in flag[parent[s]]
      BY <1>a, <1>b, <1>g, <1>i, <2>4 DEF JoinInv, HasFlag
    <3>2. s \in sublist[parent[s]]
      BY <1>a, <3>1 DEF JoinInv
    <3>3. parent[s] = p => ~last
      BY <3>1, <3>2 DEF last
    <3>4. parent[s] # t
      BY <1>c, <3>1
    <3>5. "PEND_LIST" \in flag'[parent[s]]
      BY <1>e, <3>1, <3>3, <3>4
    <3> QED BY <1>b, <3>1, <3>5 DEF HasFlag
  <2>5. \A s \in All : type'[s] = "SUB_THREAD" =>
            parent'[s] # NULL \/ s \in Elems(list) \/ s = curr_thread'
    BY <1>a, <1>b, <1>g DEF JoinInv
  <2>6. pc' = "reclaim" /\ Elems(list)' = Elems(list)
    BY <1>b, <1>q
  <2> QED BY <2>1, <2>3, <2>4, <2>5, <2>6 DEF JoinInv, HasFlag
<1>9. PoolCounts'
  BY <1>a, <1>b, <1>q, <1>r DEF PoolCounts
<1>10. NoLost'
  <2> SUFFICES ASSUME NEW u \in (objs' \cup {Primo}) \ {Daemon},
                      flag'[u] \subseteq {"SUB_LIST"}
               PROVE  u \in Elems(list)' \/ (u = curr_thread' /\ pc' # "schedule")
    BY DEF NoLost
  <2>1. u \in All
    BY <1>a, <1>b DEF TypeOK, All
  <2>2. CASE u = t
    BY <1>b, <2>2
  <2>3. CASE u # t
    <3>1. flag[u] \subseteq {"SUB_LIST"}
      BY <1>c, <1>e, <2>1, <2>3
    <3>2. u \in Elems(list) \/ (u = curr_thread /\ pc # "schedule")
      BY <1>a, <1>b, <3>1 DEF NoLost
    <3> QED BY <1>b, <1>q, <2>3, <3>2
  <2> QED BY <2>2, <2>3
<1> QED BY <1>1, <1>2, <1>3, <1>4, <1>5, <1>6, <1>7, <1>8, <1>9, <1>10 DEF IInv

-----------------------------------------------------------------------------
(* What AllocThread hands out is linked nowhere and known to nobody, and the
   counters follow. *)
LEMMA AllocPool ==
    ASSUME IInv, NEW t \in Threads, AllocThread(t), pc # "schedule"
    PROVE  /\ objs' = objs \cup {t} /\ t \in All
           /\ freelist' \in Seq(Threads) /\ Distinct(freelist')
           /\ Elems(freelist') = Elems(freelist) \ {t}
           /\ Len(freelist') <= DefaultThreadNum
           /\ total_num' \in Nat /\ use_num' \in Nat
           /\ total_num' = Cardinality(objs \cup {t})
           /\ use_num' = Cardinality((objs \cup {t}) \ (Elems(freelist) \ {t}))
           /\ total_num' <= MaxNum \/ total_num' <= DefaultThreadNum
           /\ flag[t] \ {"FREE_LIST"} = {}
           /\ t # Daemon /\ t # Primo /\ t # curr_thread /\ t \notin Elems(list)
           /\ t \notin Elems(runlist) /\ parent[t] = NULL /\ sublist[t] = {}
<1>a. TypeOK /\ FlagsMatchLists /\ Exclusive /\ CurrentUnlinked /\ CreatedInv
      /\ DaemonInv /\ ObjsInv /\ JoinInv /\ PoolCounts /\ NoLost
  BY DEF IInv
<1>b. IsFiniteSet(objs) /\ IsFiniteSet(objs \ Elems(freelist))
  <2>1. IsFiniteSet(objs)
    BY <1>a, PoolAssumption, FS_Subset DEF TypeOK
  <2> QED BY <2>1, FS_Subset
<1>c. t \in All /\ t # Primo
  BY PoolAssumption DEF All
<1>1. CASE freelist # <<>> /\ t = Head(freelist) /\ freelist' = Tail(freelist)
           /\ use_num' = use_num + 1 /\ UNCHANGED <<objs, total_num>>
  <2>1. /\ t \in Elems(freelist) /\ freelist' \in Seq(Threads)
        /\ Len(freelist') = Len(freelist) - 1 /\ Len(freelist) \in Nat
        /\ Distinct(freelist') /\ Elems(freelist') = Elems(freelist) \ {t}
    BY <1>a, <1>1, TailElems DEF TypeOK, FlagsMatchLists
  <2>2. flag[t] = {"FREE_LIST"}
    BY <1>a, <1>c, <2>1 DEF FlagsMatchLists, Exclusive, HasFlag
  <2>3. t \in objs
    BY <1>a, <2>2 DEF ObjsInv
  <2>4. (objs \cup {t}) \ (Elems(freelist) \ {t}) = (objs \ Elems(freelist)) \cup {t}
        /\ objs \cup {t} = objs /\ t \notin objs \ Elems(freelist)
    BY <2>1, <2>3
  <2>5. Cardinality((objs \ Elems(freelist)) \cup {t}) = use_num + 1
    BY <1>a, <1>b, <2>4, FS_AddElement DEF PoolCounts
  <2>6. t # Daemon /\ t # curr_thread /\ t \notin Elems(list)
    BY <1>a, <2>2 DEF DaemonInv, CurrentUnlinked, CreatedInv
  <2>7. t \notin Elems(runlist) /\ parent[t] = NULL
    BY <1>a, <1>c, <2>2 DEF FlagsMatchLists, HasFlag
  <2>8. sublist[t] = {}
    <3>1. \A s \in All : parent[s] # t
      BY <1>a, <1>c, <2>2, <2>6, PoolAssumption DEF JoinInv, HasFlag
    <3> QED BY <1>a, <1>c, <3>1 DEF JoinInv, TypeOK
  <2>9. Len(freelist') <= DefaultThreadNum
    BY <1>a, <2>1, PoolAssumption DEF PoolCounts
  <2>10. /\ total_num' \in Nat /\ use_num' \in Nat
         /\ total_num' <= MaxNum \/ total_num' <= DefaultThreadNum
    BY <1>1, <1>a, SMTT(40) DEF TypeOK, PoolCounts
  <2>11. /\ total_num' = Cardinality(objs \cup {t})
         /\ use_num' = Cardinality((objs \cup {t}) \ (Elems(freelist) \ {t}))
    BY <1>1, <1>a, <2>4, <2>5 DEF PoolCounts
  <2> QED BY <1>1, <1>c, <2>1, <2>2, <2>4, <2>6, <2>7, <2>8, <2>9, <2>10, <2>11
<1>2. CASE freelist = <<>> /\ HasQuota /\ t \notin objs /\ objs' = objs \cup {t}
           /\ total_num' = total_num + 1 /\ use_num' = use_num + 1
           /\ UNCHANGED freelist
  <2>1. flag[t] = {} /\ t # curr_thread
    BY <1>a, <1>2 DEF ObjsInv
  <2>2. Elems(freelist) = {} /\ Distinct(freelist) /\ Len(freelist) = 0
    BY <1>2, EmptyElems
  <2>3. t # Daemon /\ t \notin Elems(list)
    BY <1>a, <1>2 DEF DaemonInv, CreatedInv
  <2>4. t \notin Elems(runlist) /\ parent[t] = NULL
    BY <1>a, <1>c, <2>1 DEF FlagsMatchLists, HasFlag
  <2>5. sublist[t] = {}
    <3>1. \A s \in All : parent[s] # t
      BY <1>a, <1>c, <2>1, PoolAssumption DEF JoinInv, HasFlag
    <3> QED BY <1>a, <1>c, <3>1 DEF JoinInv, TypeOK
  <2>6. Cardinality(objs \cup {t}) = total_num + 1
    BY <1>a, <1>b, <1>2, FS_AddElement DEF PoolCounts
  <2>7. use_num = total_num
    <3>1. objs \ Elems(freelist) = objs
      BY <2>2
    <3> QED BY <1>a, <3>1 DEF PoolCounts
  <2>8. (objs \cup {t}) \ (Elems(freelist) \ {t}) = objs \cup {t}
    BY <2>2
  <2>9. /\ total_num' \in Nat /\ use_num' \in Nat /\ total_num' <= MaxNum
    BY <1>a, <1>2, PoolAssumption DEF TypeOK, HasQuota
  <2>10. freelist \in Seq(Threads) /\ Len(freelist) <= DefaultThreadNum
    BY <1>a DEF TypeOK, PoolCounts
  <2> QED BY <1>2, <1>c, <2>1, <2>2, <2>3, <2>4, <2>5, <2>6, <2>7, <2>8, <2>9, <2>10
<1> QED BY <1>1, <1>2 DEF AllocThread

(* A thread of the pool is started. *)
LEMMA StartThreadStep ==
    ASSUME IInv, NEW c \in All, StartThread(c)
    PROVE  IInv'
<1>a. TypeOK /\ FlagsMatchLists /\ Exclusive /\ CurrentUnlinked /\ CreatedInv
      /\ DaemonInv /\ ObjsInv /\ JoinInv /\ PoolCounts /\ NoLost
  BY DEF IInv
<1>p. /\ UNCHANGED <<type, parent, sublist, list, curr_thread, pc>>
      /\ UNCHANGED <<iolist, pend_list, sleeplist, wakeup>>
      /\ pc = "user"
  BY DEF StartThread, Running, threadVars, waitVars
<1> PICK t \in Threads :
         /\ AllocThread(t)
         /\ flag' = SetFlag(UnsetFlag(flag, t, "FREE_LIST"), t, "RUN_LIST")
         /\ InsertRunable(t)
  BY DEF StartThread
<1>b. /\ AllocThread(t)
      /\ flag' = SetFlag(UnsetFlag(flag, t, "FREE_LIST"), t, "RUN_LIST")
      /\ runlist' = Append(runlist, t) /\ waitnum' = waitnum + 1
  BY DEF InsertRunable
<1>d. /\ objs' = objs \cup {t} /\ t \in All
      /\ freelist' \in Seq(Threads) /\ Distinct(freelist')
      /\ Elems(freelist') = Elems(freelist) \ {t}
      /\ Len(freelist') <= DefaultThreadNum
      /\ total_num' \in Nat /\ use_num' \in Nat
      /\ total_num' = Cardinality(objs')
      /\ use_num' = Cardinality(objs' \ Elems(freelist'))
      /\ total_num' <= MaxNum \/ total_num' <= DefaultThreadNum
      /\ flag[t] \ {"FREE_LIST"} = {}
      /\ t # Daemon /\ t # Primo /\ t # curr_thread /\ t \notin Elems(list)
      /\ t \notin Elems(runlist) /\ parent[t] = NULL
  BY <1>b, <1>p, AllocPool
<1>e. /\ flag' \in [All -> SUBSET Flags]
      /\ \A u \in All : flag'[u] = IF u = t THEN {"RUN_LIST"} ELSE flag[u]
  <2> DEFINE f1 == [flag EXCEPT ![t] = @ \ {"FREE_LIST"}]
  <2>1. flag' = [f1 EXCEPT ![t] = @ \cup {"RUN_LIST"}]
    BY <1>b DEF SetFlag, UnsetFlag
  <2>2. /\ f1 \in [All -> SUBSET Flags] /\ "RUN_LIST" \in Flags
        /\ \A u \in All : f1[u] = IF u = t THEN {} ELSE flag[u]
    BY <1>a, <1>d DEF TypeOK, Flags
  <2> HIDE DEF f1
  <2> QED BY <2>1, <2>2, <1>d, ZenonT(60)
<1>r. /\ runlist' \in Seq(All) /\ Len(runlist') = Len(runlist) + 1
      /\ Elems(runlist') = Elems(runlist) \cup {t} /\ Distinct(runlist')
  BY <1>a, <1>b, <1>d, AppendElems DEF TypeOK, FlagsMatchLists
<1>q. /\ Elems(freelist)' = Elems(freelist') /\ Distinct(freelist)' = Distinct(freelist')
      /\ Elems(runlist)' = Elems(runlist') /\ Distinct(runlist)' = Distinct(runlist')
      /\ Elems(list)' = Elems(list) /\ Distinct(list)' = Distinct(list)
  BY <1>p DEF Elems, Distinct
<1>1. TypeOK'
  BY <1>a, <1>p, <1>b, <1>d, <1>e, <1>r DEF TypeOK
<1>2. FlagsMatchLists'
  <2>1. ASSUME NEW u \in All
        PROVE  /\ "FREE_LIST" \in flag'[u] <=> u \in Elems(freelist')
               /\ "RUN_LIST" \in flag'[u] <=> u \in Elems(runlist')
               /\ "SLEEP_LIST" \in flag'[u] <=> u \in sleeplist
               /\ "IO_LIST" \in flag'[u] <=> u \in iolist
               /\ "PEND_LIST" \in flag'[u] <=> u \in pend_list
               /\ "SUB_LIST" \in flag'[u] <=> parent[u] # NULL
    <3>0. /\ "FREE_LIST" \in flag[u] <=> u \in Elems(freelist)
          /\ "RUN_LIST" \in flag[u] <=> u \in Elems(runlist)
          /\ "SLEEP_LIST" \in flag[u] <=> u \in sleeplist
          /\ "IO_LIST" \in flag[u] <=> u \in iolist
          /\ "PEND_LIST" \in flag[u] <=> u \in pend_list
          /\ "SUB_LIST" \in flag[u] <=> parent[u] # NULL
      BY <1>a DEF FlagsMatchLists, HasFlag
    <3>1. CASE u = t
      <4>1. flag'[u] = {"RUN_LIST"} /\ flag[u] \ {"FREE_LIST"} = {}
        BY <3>1, <1>d, <1>e
      <4> QED BY <3>0, <3>1, <4>1, <1>d, <1>r
    <3>2. CASE u # t
      <4>1. flag'[u] = flag[u]
        BY <3>2, <1>e
      <4> QED BY <3>0, <3>2, <4>1, <1>d, <1>r
    <3> QED BY <3>1, <3>2
  <2> QED BY <1>p, <1>d, <1>q, <1>r, <2>1 DEF FlagsMatchLists, HasFlag
<1>3. Exclusive'
  BY <1>a, <1>e DEF Exclusive, HasFlag
<1>4. CurrentUnlinked'
  BY <1>a, <1>p, <1>d, <1>e DEF CurrentUnlinked, TypeOK
<1>5. CreatedInv'
  <2>1. \A u \in Elems(list) : u \in All
    BY <1>a, ElemsOfSeq DEF TypeOK, All
  <2> QED BY <1>a, <1>p, <1>d, <1>e, <1>q, <2>1 DEF CreatedInv
<1>6. DaemonInv'
  BY <1>a, <1>p, <1>d, <1>e, PoolAssumption DEF DaemonInv, All
<1>7. ObjsInv'
  BY <1>a, <1>p, <1>d, <1>e DEF ObjsInv, All
<1>8. JoinInv'
  <2>1. \A u \in All : HasFlag(u, "PEND_LIST")' = HasFlag(u, "PEND_LIST")
    BY <1>d, <1>e DEF HasFlag
  <2> QED BY <1>a, <1>p, <2>1, JoinFrame
<1>9. PoolCounts'
  BY <1>a, <1>b, <1>d, <1>q, <1>r DEF PoolCounts
<1>10. NoLost'
  BY <1>a, <1>p, <1>d, <1>e, <1>q, ZenonT(60) DEF NoLost, TypeOK, All
<1> QED BY <1>1, <1>2, <1>3, <1>4, <1>5, <1>6, <1>7, <1>8, <1>9, <1>10 DEF IInv

(* A thread of the pool joins the local list of mt_exec_all_task. *)
LEMMA CreateSubStep ==
    ASSUME IInv, CreateSub
    PROVE  IInv'
<1>a. TypeOK /\ FlagsMatchLists /\ Exclusive /\ CurrentUnlinked /\ CreatedInv
      /\ DaemonInv /\ ObjsInv /\ JoinInv /\ PoolCounts /\ NoLost
  BY DEF IInv
<1>p. /\ UNCHANGED <<parent, sublist, curr_thread, pc, runlist, waitnum>>
      /\ UNCHANGED <<iolist, pend_list, sleeplist, wakeup>>
      /\ pc = "creating"
  BY DEF CreateSub, waitVars, runVars
<1> PICK t \in Threads :
         /\ AllocThread(t)
         /\ flag' = UnsetFlag(flag, t, "FREE_LIST")
         /\ type' = [type EXCEPT ![t] = "SUB_THREAD"]
         /\ list' = Append(list, t)
  BY DEF CreateSub
<1>b. /\ AllocThread(t)
      /\ flag' = [flag EXCEPT ![t] = @ \ {"FREE_LIST"}]
      /\ type' = [type EXCEPT ![t] = "SUB_THREAD"]
      /\ list' = Append(list, t)
  BY DEF UnsetFlag
<1>d. /\ objs' = objs \cup {t} /\ t \in All
      /\ freelist' \in Seq(Threads) /\ Distinct(freelist')
      /\ Elems(freelist') = Elems(freelist) \ {t}
      /\ Len(freelist') <= DefaultThreadNum
      /\ total_num' \in Nat /\ use_num' \in Nat
      /\ total_num' = Cardinality(objs')
      /\ use_num' = Cardinality(objs' \ Elems(freelist'))
      /\ total_num' <= MaxNum \/ total_num' <= DefaultThreadNum
      /\ flag[t] \ {"FREE_LIST"} = {}
      /\ t # Daemon /\ t # Primo /\ t # curr_thread /\ t \notin Elems(list)
      /\ parent[t] = NULL /\ sublist[t] = {}
  BY <1>b, <1>p, AllocPool
<1>e. /\ flag' \in [All -> SUBSET Flags]
      /\ \A u \in All : flag'[u] = IF u = t THEN {} ELSE flag[u]
  BY <1>a, <1>b, <1>d, ZenonT(60) DEF TypeOK
<1>t. /\ type' \in [All -> Types]
      /\ \A u \in All : type'[u] = IF u = t THEN "SUB_THREAD" ELSE type[u]
  BY <1>a, <1>b, <1>d DEF TypeOK, Types
<1>l. /\ list' \in Seq(Threads) /\ Elems(list') = Elems(list) \cup {t}
      /\ Distinct(list')
  BY <1>a, <1>b, <1>d, AppendElems DEF TypeOK, CreatedInv
<1>q. /\ Elems(freelist)' = Elems(freelist') /\ Distinct(freelist)' = Distinct(freelist')
      /\ Elems(runlist)' = Elems(runlist) /\ Distinct(runlist)' = Distinct(runlist)
      /\ Elems(list)' = Elems(list') /\ Distinct(list)' = Distinct(list')
  BY <1>p DEF Elems, Distinct
<1>1. TypeOK'
  BY <1>a, <1>p, <1>d, <1>e, <1>t, <1>l DEF TypeOK
<1>2. FlagsMatchLists'
  <2>1. ASSUME NEW u \in All
        PROVE  /\ "FREE_LIST" \in flag'[u] <=> u \in Elems(freelist')
               /\ "RUN_LIST" \in flag'[u] <=> u \in Elems(runlist)
               /\ "SLEEP_LIST" \in flag'[u] <=> u \in sleeplist
               /\ "IO_LIST" \in flag'[u] <=> u \in iolist
               /\ "PEND_LIST" \in flag'[u] <=> u \in pend_list
               /\ "SUB_LIST" \in flag'[u] <=> parent[u] # NULL
    <3>0. /\ "FREE_LIST" \in flag[u] <=> u \in Elems(freelist)
          /\ "RUN_LIST" \in flag[u] <=> u \in Elems(runlist)
          /\ "SLEEP_LIST" \in flag[u] <=> u \in sleeplist
          /\ "IO_LIST" \in flag[u] <=> u \in iolist
          /\ "PEND_LIST" \in flag[u] <=> u \in pend_list
          /\ "SUB_LIST" \in flag[u] <=> parent[u] # NULL
      BY <1>a DEF FlagsMatchLists, HasFlag
    <3>1. CASE u = t
      <4>1. flag'[u] = {} /\ flag[u] \ {"FREE_LIST"} = {}
        BY <3>1, <1>d, <1>e
      <4> QED BY <3>0, <3>1, <4>1, <1>d
    <3>2. CASE u # t
      <4>1. flag'[u] = flag[u]
        BY <3>2, <1>e
      <4> QED BY <3>0, <3>2, <4>1, <1>d
    <3> QED BY <3>1, <3>2
  <2> QED BY <1>a, <1>p, <1>d, <1>q, <2>1 DEF FlagsMatchLists, HasFlag
<1>3. Exclusive'
  BY <1>a, <1>e DEF Exclusive, HasFlag
<1>4. CurrentUnlinked'
  BY <1>a, <1>p, <1>d, <1>e DEF CurrentUnlinked, TypeOK
<1>5. CreatedInv'
  <2>1. \A u \in Elems(list) : u \in All /\ u # t
    BY <1>a, <1>d, ElemsOfSeq DEF TypeOK, All
  <2> QED BY <1>a, <1>p, <1>d, <1>e, <1>t, <1>l, <1>q, <2>1 DEF CreatedInv
<1>6. DaemonInv'
  BY <1>a, <1>p, <1>d, <1>e, <1>t, PoolAssumption DEF DaemonInv, All
<1>7. ObjsInv'
  BY <1>a, <1>p, <1>d, <1>e DEF ObjsInv, All
<1>8. JoinInv'
  <2>1. \A u \in All : HasFlag(u, "PEND_LIST")' = HasFlag(u, "PEND_LIST")
    BY <1>a, <1>d, <1>e DEF HasFlag
  <2>2. \A s \in All : parent[s] # NULL => parent[s] \in All /\ s # t
    BY <1>a, <1>d DEF TypeOK
  <2>3. \A s \in All : type'[s] = "SUB_THREAD" =>
            parent[s] # NULL \/ s \in Elems(list')
    BY <1>a, <1>p, <1>t, <1>l DEF JoinInv
  <2>4. \A s \in All : parent[s] # NULL =>
            type'[s] = "SUB_THREAD" /\ HasFlag(parent[s], "PEND_LIST")
    BY <1>a, <1>p, <1>t, <2>2 DEF JoinInv
  <2> QED BY <1>a, <1>p, <1>q, <2>1, <2>2, <2>3, <2>4 DEF JoinInv
<1>9. PoolCounts'
  BY <1>a, <1>p, <1>d, <1>q DEF PoolCounts
<1>10. NoLost'
  BY <1>a, <1>p, <1>d, <1>e, <1>l, <1>q DEF NoLost, TypeOK, All
<1> QED BY <1>1, <1>2, <1>3, <1>4, <1>5, <1>6, <1>7, <1>8, <1>9, <1>10 DEF IInv

-----------------------------------------------------------------------------
(* What FreeThread leaves behind: t is queued, and whichever thread it destroys
   was free before and is not t. *)
LEMMA FreePool ==
    ASSUME IInv, NEW t \in objs, flag[t] = {}, FreeThread(t)
    PROVE  \E v \in SUBSET Threads :
               /\ t \notin v /\ \A u \in v : flag[u] = {"FREE_LIST"}
               /\ objs' = objs \ v
               /\ freelist' \in Seq(Threads) /\ Distinct(freelist')
               /\ Elems(freelist') = (Elems(freelist) \cup {t}) \ v
               /\ Len(freelist') <= DefaultThreadNum
               /\ total_num' \in Nat /\ use_num' \in Nat
               /\ total_num' = Cardinality(objs \ v)
               /\ use_num' = Cardinality((objs \ Elems(freelist)) \ {t})
               /\ total_num' <= MaxNum \/ total_num' <= DefaultThreadNum
               /\ flag' = [u \in All |-> CASE u \in v -> {}
                                           [] u = t -> {"FREE_LIST"}
                                           [] OTHER -> flag[u]]
               /\ type' = [type EXCEPT ![t] = "NORMAL"]
               /\ parent' = [parent EXCEPT ![t] = NULL]
               /\ sublist' = [sublist EXCEPT ![t] = {}]
               /\ wakeup' = [wakeup EXCEPT ![t] = 0]
<1>a. TypeOK /\ FlagsMatchLists /\ Exclusive /\ ObjsInv /\ PoolCounts
  BY DEF IInv
<1>b. IsFiniteSet(objs) /\ IsFiniteSet(objs \ Elems(freelist))
  <2>1. IsFiniteSet(objs)
    BY <1>a, PoolAssumption, FS_Subset DEF TypeOK
  <2> QED BY <2>1, FS_Subset
<1> DEFINE queue == Append(freelist, t)
<1>c. /\ t \in Threads /\ t \in All /\ t \notin Elems(freelist)
      /\ freelist \in Seq(Threads) /\ Distinct(freelist)
  BY <1>a DEF TypeOK, All, FlagsMatchLists, HasFlag
<1>d. /\ queue \in Seq(Threads) /\ Elems(queue) = Elems(freelist) \cup {t}
      /\ Len(queue) = Len(freelist) + 1 /\ Distinct(queue) /\ queue # <<>>
  BY <1>c, AppendElems
<1>e. /\ Len(freelist) \in Nat /\ Len(freelist) <= DefaultThreadNum
      /\ DefaultThreadNum \in Nat \ {0} /\ MaxNum \in Nat
  BY <1>a, PoolAssumption DEF TypeOK, PoolCounts
<1>f. /\ use_num - 1 = Cardinality((objs \ Elems(freelist)) \ {t})
      /\ use_num - 1 \in Nat
  <2>1. /\ t \in objs \ Elems(freelist)
        /\ use_num = Cardinality(objs \ Elems(freelist)) /\ use_num \in Nat
    BY <1>a, <1>c DEF PoolCounts, TypeOK
  <2>2. /\ IsFiniteSet((objs \ Elems(freelist)) \ {t})
        /\ use_num - 1 = Cardinality((objs \ Elems(freelist)) \ {t})
    BY <1>b, <2>1, FS_RemoveElement
  <2> QED BY <2>2, FS_CardinalityType
<1>1. CASE OverReserve(queue)
  <2>1. Retire(t, {Head(queue)}, Tail(queue))
    BY <1>1 DEF FreeThread
  <2> DEFINE v == {Head(queue)}
  <2>2. Len(queue) > DefaultThreadNum /\ Len(queue) > 1
    BY <1>1 DEF OverReserve
  <2>3. /\ Head(queue) = freelist[1] /\ 1 \in DOMAIN freelist
    BY <1>c, <1>e, <2>2
  <2>4. Head(queue) \in Elems(freelist)
    BY <2>3 DEF Elems
  <2>5. /\ Tail(queue) \in Seq(Threads) /\ Distinct(Tail(queue))
        /\ Elems(Tail(queue)) = Elems(queue) \ v
        /\ Len(Tail(queue)) = Len(queue) - 1
    BY <1>d, TailElems
  <2>6. Head(queue) \in Threads /\ Head(queue) \in All
    BY <2>4, <1>c, ElemsOfSeq DEF All
  <2>7. flag[Head(queue)] = {"FREE_LIST"}
    BY <2>4, <2>6, <1>a DEF FlagsMatchLists, Exclusive, HasFlag
  <2>8. Head(queue) \in objs
    BY <2>6, <2>7, <1>a DEF ObjsInv
  <2>9. /\ total_num = Cardinality(objs) /\ total_num \in Nat
        /\ total_num <= MaxNum \/ total_num <= DefaultThreadNum
    BY <1>a DEF PoolCounts, TypeOK
  <2>10. total_num - 1 = Cardinality(objs \ v) /\ total_num - 1 \in Nat
    <3>1. IsFiniteSet(objs \ v) /\ total_num - 1 = Cardinality(objs \ v)
      BY <1>b, <2>8, <2>9, FS_RemoveElement
    <3> QED BY <3>1, FS_CardinalityType
  <2>11. total_num - 1 <= MaxNum \/ total_num - 1 <= DefaultThreadNum
    BY <2>9, <1>e
  <2>12. Len(Tail(queue)) <= DefaultThreadNum
    BY <2>5, <1>d, <1>e
  <2>13. v \in SUBSET Threads /\ t \notin v /\ \A u \in v : flag[u] = {"FREE_LIST"}
    BY <2>4, <2>6, <2>7, <1>c
  <2>14. /\ use_num' = use_num - 1 /\ freelist' = Tail(queue) /\ objs' = objs \ v
         /\ total_num' = total_num - 1
         /\ flag' = [u \in All |-> CASE u \in v -> {}
                                     [] u = t -> {"FREE_LIST"}
                                     [] OTHER -> flag[u]]
         /\ type' = [type EXCEPT ![t] = "NORMAL"]
         /\ parent' = [parent EXCEPT ![t] = NULL]
         /\ sublist' = [sublist EXCEPT ![t] = {}]
         /\ wakeup' = [wakeup EXCEPT ![t] = 0]
    BY <2>1 DEF Retire
  <2> HIDE DEF v, queue
  <2> QED BY <1>d, <1>f, <2>5, <2>10, <2>11, <2>12, <2>13, <2>14
<1>2. CASE ~OverReserve(queue)
  <2>1. Retire(t, {}, queue)
    BY <1>2 DEF FreeThread
  <2> DEFINE v == {}
  <2>2. Len(queue) <= DefaultThreadNum
    BY <1>2, <1>d, <1>e DEF OverReserve
  <2>3. /\ total_num = Cardinality(objs \ v) /\ total_num \in Nat
        /\ total_num <= MaxNum \/ total_num <= DefaultThreadNum
    <3>1. objs \ v = objs
      OBVIOUS
    <3> QED BY <1>a, <3>1 DEF PoolCounts, TypeOK
  <2>4. /\ use_num' = use_num - 1 /\ freelist' = queue /\ objs' = objs \ v
        /\ total_num' = total_num
        /\ flag' = [u \in All |-> CASE u \in v -> {}
                                    [] u = t -> {"FREE_LIST"}
                                    [] OTHER -> flag[u]]
        /\ type' = [type EXCEPT ![t] = "NORMAL"]
        /\ parent' = [parent EXCEPT ![t] = NULL]
        /\ sublist' = [sublist EXCEPT ![t] = {}]
        /\ wakeup' = [wakeup EXCEPT ![t] = 0]
    BY <2>1 DEF Retire
  <2>5. /\ v \in SUBSET Threads /\ t \notin v /\ \A u \in v : flag[u] = {"FREE_LIST"}
        /\ Elems(queue) = (Elems(freelist) \cup {t}) \ v
    BY <1>d
  <2> HIDE DEF v, queue
  <2> QED BY <1>d, <1>f, <2>2, <2>3, <2>4, <2>5
<1> QED BY <1>1, <1>2

(* FreeThread called by mt_exec_all_task for a thread it could not use, and by
   the running thread for itself. *)
LEMMA FreeStep ==
    ASSUME IInv, FreeSub \/ ScheduleReclaim
    PROVE  IInv'
<1>a. TypeOK /\ FlagsMatchLists /\ Exclusive /\ CurrentUnlinked /\ CreatedInv
      /\ DaemonInv /\ ObjsInv /\ JoinInv /\ PoolCounts /\ NoLost
  BY DEF IInv
<1>p. UNCHANGED <<runlist, waitnum, iolist, pend_list, sleeplist, curr_thread>>
  BY DEF FreeSub, ScheduleReclaim, runVars
<1>t. PICK t \in objs :
          /\ FreeThread(t) /\ flag[t] = {} /\ t # Daemon
          /\ \/ /\ pc = "cleanup" /\ pc' = "cleanup" /\ t # curr_thread
                /\ Elems(list') = Elems(list) \ {t}
             \/ /\ pc = "reclaim" /\ pc' = "schedule" /\ t = curr_thread
                /\ list = <<>> /\ Elems(list') = Elems(list)
          /\ list' \in Seq(Threads) /\ Distinct(list')
  <2>1. CASE FreeSub
    <3>1. /\ pc = "cleanup" /\ list # <<>> /\ FreeThread(Head(list))
          /\ list' = Tail(list) /\ pc' = pc
      BY <2>1 DEF FreeSub
    <3>2. /\ Head(list) \in Elems(list) /\ list' \in Seq(Threads)
          /\ Distinct(list') /\ Elems(list') = Elems(list) \ {Head(list)}
      BY <1>a, <3>1, TailElems DEF TypeOK, CreatedInv
    <3>3. /\ Head(list) \in objs /\ flag[Head(list)] = {}
          /\ Head(list) # Daemon /\ Head(list) # curr_thread
      BY <1>a, <3>2 DEF CreatedInv
    <3> QED BY <3>1, <3>2, <3>3
  <2>2. CASE ScheduleReclaim
    <3>1. /\ pc = "reclaim" /\ FreeThread(curr_thread)
          /\ list' = list /\ pc' = "schedule"
      BY <2>2 DEF ScheduleReclaim
    <3>2. list = <<>> /\ list' \in Seq(Threads) /\ Distinct(list')
      BY <1>a, <3>1 DEF CreatedInv, TypeOK
    <3>3. /\ curr_thread \in All /\ curr_thread # Primo
          /\ parent[curr_thread] = NULL /\ flag[curr_thread] \subseteq {"SUB_LIST"}
      BY <1>a, <3>1 DEF CurrentUnlinked, TypeOK
    <3>4. flag[curr_thread] = {}
      BY <1>a, <3>3 DEF FlagsMatchLists, HasFlag
    <3>5. curr_thread \in objs /\ curr_thread # Daemon
      BY <1>a, <3>1, <3>3 DEF ObjsInv, All, DaemonInv
    <3> QED BY <3>1, <3>2, <3>4, <3>5
  <2> QED BY <2>1, <2>2
<1>s. t \in All /\ parent[t] = NULL /\ sublist[t] = {} /\ t # Primo
  <2>1. t \in All /\ parent[t] = NULL /\ t # Primo
    BY <1>a, <1>t, PoolAssumption DEF TypeOK, All, FlagsMatchLists, HasFlag
  <2>2. \A s \in All : parent[s] # t
    BY <1>a, <1>t, <2>1, PoolAssumption DEF JoinInv, HasFlag
  <2> QED BY <1>a, <2>1, <2>2 DEF JoinInv, TypeOK
<1>v. PICK v \in SUBSET Threads :
          /\ t \notin v /\ \A u \in v : flag[u] = {"FREE_LIST"}
          /\ objs' = objs \ v
          /\ freelist' \in Seq(Threads) /\ Distinct(freelist')
          /\ Elems(freelist') = (Elems(freelist) \cup {t}) \ v
          /\ Len(freelist') <= DefaultThreadNum
          /\ total_num' \in Nat /\ use_num' \in Nat
          /\ total_num' = Cardinality(objs \ v)
          /\ use_num' = Cardinality((objs \ Elems(freelist)) \ {t})
          /\ total_num' <= MaxNum \/ total_num' <= DefaultThreadNum
          /\ flag' = [u \in All |-> CASE u \in v -> {}
                                      [] u = t -> {"FREE_LIST"}
                                      [] OTHER -> flag[u]]
          /\ type' = [type EXCEPT ![t] = "NORMAL"]
          /\ parent' = [parent EXCEPT ![t] = NULL]
          /\ sublist' = [sublist EXCEPT ![t] = {}]
          /\ wakeup' = [wakeup EXCEPT ![t] = 0]
  BY <1>t, FreePool
<1>e. /\ flag' \in [All -> SUBSET Flags]
      /\ \A u \in All : flag'[u] = IF u \in v THEN {}
                                    ELSE IF u = t THEN {"FREE_LIST"} ELSE flag[u]
  <2>1. flag \in [All -> SUBSET Flags] /\ "FREE_LIST" \in Flags
    BY <1>a DEF TypeOK, Flags
  <2> QED BY <1>v, <2>1
<1>f. /\ type' \in [All -> Types]
      /\ \A u \in All : type'[u] = IF u = t THEN "NORMAL" ELSE type[u]
  BY <1>a, <1>v, <1>s DEF TypeOK, Types
<1>g. parent' = parent /\ sublist' = sublist /\ wakeup' \in [All -> Int]
  BY <1>a, <1>v, <1>s DEF TypeOK
<1>h. \A u \in v : u \in All /\ u # Daemon /\ u # t /\ parent[u] = NULL
                   /\ u \notin Elems(list)
  BY <1>a, <1>v DEF All, DaemonInv, FlagsMatchLists, HasFlag, CreatedInv
<1>c. curr_thread \notin v
  BY <1>a, <1>t, <1>v DEF CurrentUnlinked
<1>q. /\ Elems(freelist)' = Elems(freelist') /\ Distinct(freelist)' = Distinct(freelist')
      /\ Elems(runlist)' = Elems(runlist) /\ Distinct(runlist)' = Distinct(runlist)
      /\ Elems(list)' = Elems(list') /\ Distinct(list)' = Distinct(list')
  BY <1>p DEF Elems, Distinct
<1>1. TypeOK'
  BY <1>a, <1>p, <1>t, <1>v, <1>e, <1>f, <1>g DEF TypeOK, Points
<1>2. FlagsMatchLists'
  <2>1. ASSUME NEW u \in All
        PROVE  /\ "FREE_LIST" \in flag'[u] <=> u \in Elems(freelist')
               /\ "RUN_LIST" \in flag'[u] <=> u \in Elems(runlist)
               /\ "SLEEP_LIST" \in flag'[u] <=> u \in sleeplist
               /\ "IO_LIST" \in flag'[u] <=> u \in iolist
               /\ "PEND_LIST" \in flag'[u] <=> u \in pend_list
               /\ "SUB_LIST" \in flag'[u] <=> parent[u] # NULL
    <3>0. /\ "FREE_LIST" \in flag[u] <=> u \in Elems(freelist)
          /\ "RUN_LIST" \in flag[u] <=> u \in Elems(runlist)
          /\ "SLEEP_LIST" \in flag[u] <=> u \in sleeplist
          /\ "IO_LIST" \in flag[u] <=> u \in iolist
          /\ "PEND_LIST" \in flag[u] <=> u \in pend_list
          /\ "SUB_LIST" \in flag[u] <=> parent[u] # NULL
      BY <1>a DEF FlagsMatchLists, HasFlag
    <3>1. CASE u = t
      <4>1. flag'[u] = {"FREE_LIST"} /\ flag[u] = {} /\ u \in Elems(freelist')
        BY <3>1, <1>t, <1>v, <1>e
      <4> QED BY <3>0, <4>1
    <3>2. CASE u \in v
      <4>1. flag'[u] = {} /\ flag[u] = {"FREE_LIST"} /\ u \notin Elems(freelist')
        BY <3>2, <1>v, <1>e
      <4> QED BY <3>0, <4>1
    <3>3. CASE u # t /\ u \notin v
      <4>1. flag'[u] = flag[u] /\ (u \in Elems(freelist') <=> u \in Elems(freelist))
        BY <3>3, <1>v, <1>e
      <4> QED BY <3>0, <4>1
    <3> QED BY <3>1, <3>2, <3>3
  <2> QED BY <1>a, <1>p, <1>v, <1>g, <1>q, <2>1 DEF FlagsMatchLists, HasFlag
<1>3. Exclusive'
  BY <1>a, <1>e DEF Exclusive, HasFlag
<1>4. CurrentUnlinked'
  BY <1>a, <1>p, <1>t, <1>e, <1>c DEF CurrentUnlinked, TypeOK
<1>5. CreatedInv'
  <2>1. \A u \in Elems(list') : u \in Elems(list) /\ u \in All /\ u # t /\ u \notin v
    BY <1>a, <1>t, <1>h, ElemsOfSeq, EmptyElems DEF TypeOK, All
  <2>2. list' # <<>> => pc' = "cleanup"
    <3>1. ASSUME pc = "reclaim", list = <<>>, Elems(list') = Elems(list)
          PROVE  list' = <<>>
      <4>1. Elems(list') = {}
        BY <3>1, EmptyElems
      <4> QED BY <4>1, <1>t, TailElems
    <3> QED BY <1>t, <3>1
  <2> QED BY <1>a, <1>p, <1>t, <1>v, <1>e, <1>f, <1>g, <1>q, <2>1, <2>2 DEF CreatedInv
<1>6. DaemonInv'
  BY <1>a, <1>p, <1>t, <1>s, <1>v, <1>e, <1>f, <1>h, PoolAssumption DEF DaemonInv, All
<1>7. ObjsInv'
  BY <1>a, <1>p, <1>t, <1>v, <1>e, <1>c DEF ObjsInv, All
<1>8. JoinInv'
  <2>1. \A u \in All : HasFlag(u, "PEND_LIST")' = HasFlag(u, "PEND_LIST")
    BY <1>t, <1>v, <1>e DEF HasFlag
  <2>2. \A s \in All : parent[s] # NULL => parent[s] \in All /\ s # t
    BY <1>a, <1>s DEF TypeOK
  <2>3. \A s \in All : type'[s] = "SUB_THREAD" =>
            parent[s] # NULL \/ s \in Elems(list')
    BY <1>a, <1>t, <1>f, EmptyElems DEF JoinInv
  <2>4. \A s \in All : parent[s] # NULL =>
            type'[s] = "SUB_THREAD" /\ HasFlag(parent[s], "PEND_LIST")
    BY <1>a, <1>t, <1>f, <2>2 DEF JoinInv
  <2> QED BY <1>a, <1>p, <1>t, <1>g, <1>q, <2>1, <2>2, <2>3, <2>4 DEF JoinInv
<1>9. PoolCounts'
  <2>1. (objs \ v) \ ((Elems(freelist) \cup {t}) \ v) = (objs \ Elems(freelist)) \ {t}
    <3>1. \A u \in v : u \in Elems(freelist)
      BY <1>a, <1>v, <1>h DEF FlagsMatchLists, HasFlag
    <3> QED BY <3>1
  <2> QED BY <1>a, <1>p, <1>v, <1>q, <2>1 DEF PoolCounts
<1>10. NoLost'
  <2> SUFFICES ASSUME NEW u \in (objs' \cup {Primo}) \ {Daemon},
                      flag'[u] \subseteq {"SUB_LIST"}
               PROVE  u \in Elems(list)' \/ (u = curr_thread' /\ pc' # "schedule")
    BY DEF NoLost
  <2>1. u \in All
    BY <1>a, <1>v DEF TypeOK, All
  <2>2. u # t /\ u \notin v /\ u \in objs \cup {Primo}
    BY <1>e, <1>v, <2>1, <1>s, PoolAssumption
  <2>3. u \in Elems(list) \/ (u = curr_thread /\ pc # "schedule")
    BY <1>a, <1>e, <2>1, <2>2 DEF NoLost
  <2> QED BY <1>p, <1>t, <1>q, <2>2, <2>3
<1> QED BY <1>1, <1>2, <1>3, <1>4, <1>5, <1>6, <1>7, <1>8, <1>9, <1>10 DEF IInv

-----------------------------------------------------------------------------
LEMMA InitInv == Init => IInv
<1> SUFFICES ASSUME Init PROVE IInv
  OBVIOUS
<1> DEFINE I == 1 .. DefaultThreadNum - 1
<1>1. PICK rest \in [I -> Threads \ {Daemon}] :
          /\ \A i, j \in DOMAIN rest : i # j => rest[i] # rest[j]
          /\ freelist = rest
          /\ objs = {Daemon} \cup {rest[i] : i \in DOMAIN rest}
          /\ flag = [t \in All |-> IF \E i \in DOMAIN rest : rest[i] = t
                                   THEN {"FREE_LIST"} ELSE {}]
  BY DEF Init
<1>2. /\ total_num = DefaultThreadNum /\ use_num = 1 /\ waitnum = 0
      /\ type = [t \in All |-> CASE t = Daemon -> "DAEMON"
                                 [] t = Primo  -> "PRIMORDIAL"
                                 [] OTHER      -> "NORMAL"]
      /\ parent = [t \in All |-> NULL]
      /\ sublist = [t \in All |-> {}]
      /\ wakeup = [t \in All |-> 0]
      /\ runlist = <<>> /\ list = <<>>
      /\ iolist = {} /\ pend_list = {} /\ sleeplist = {}
      /\ curr_thread = Primo /\ pc = "user"
  BY DEF Init
<1>3. /\ freelist \in Seq(Threads) /\ Len(freelist) = DefaultThreadNum - 1
      /\ DOMAIN freelist = I
  <2>1. DefaultThreadNum - 1 \in Nat /\ rest \in [I -> Threads]
    BY PoolAssumption
  <2>2. rest \in Seq(Threads)
    BY <2>1
  <2> QED BY <2>1, <2>2, <1>1
<1> DEFINE R == Elems(freelist)
<1>4. /\ Distinct(freelist) /\ R \subseteq Threads \ {Daemon}
      /\ objs = {Daemon} \cup R
      /\ \A t \in All : flag[t] = IF t \in R THEN {"FREE_LIST"} ELSE {}
  <2>1. \A t : t \in R <=> \E i \in DOMAIN rest : rest[i] = t
    BY <1>1 DEF Elems
  <2>2. {rest[i] : i \in DOMAIN rest} = R
    BY <1>1 DEF Elems
  <2>3. Distinct(freelist)
    BY <1>1 DEF Distinct
  <2>4. R \subseteq Threads \ {Daemon}
    BY <1>1, <2>1
  <2> QED BY <1>1, <2>1, <2>2, <2>3, <2>4
<1>5. /\ Cardinality(objs) = DefaultThreadNum
      /\ Cardinality(objs \ R) = 1
  <2>1. IsFiniteSet(R) /\ Cardinality(R) = DefaultThreadNum - 1
    <3>1. freelist \in [I -> R] /\ \A i, j \in I : freelist[i] = freelist[j] => i = j
      BY <1>1, <1>3, <1>4 DEF Elems, Distinct
    <3>2. \A t \in R : \E i \in I : freelist[i] = t
      BY <1>3 DEF Elems
    <3> HIDE DEF R
    <3>3. freelist \in Bijection(I, R)
      BY <3>1, <3>2, Fun_IsBij
    <3>4. ExistsBijection(I, R)
      BY <3>3 DEF ExistsBijection
    <3>5. IsFiniteSet(I) /\ Cardinality(I) = DefaultThreadNum - 1
      BY FS_Interval, PoolAssumption
    <3> HIDE DEF I
    <3> QED BY <3>4, <3>5, FS_Bijection
  <2>2. Daemon \notin R /\ objs = R \cup {Daemon} /\ objs \ R = {Daemon}
    BY <1>4
  <2>3. Cardinality(R \cup {Daemon}) = Cardinality(R) + 1
    BY <2>1, <2>2, FS_AddElement
  <2>4. Cardinality({Daemon}) = 1
    <3>1. Cardinality({} \cup {Daemon}) = Cardinality({}) + 1
      BY FS_AddElement, FS_EmptySet
    <3>2. {} \cup {Daemon} = {Daemon}
      OBVIOUS
    <3> QED BY <3>1, <3>2, FS_EmptySet
  <2>5. (DefaultThreadNum - 1) + 1 = DefaultThreadNum
    BY PoolAssumption
  <2> HIDE DEF R
  <2> QED BY <2>1, <2>2, <2>3, <2>4, <2>5
<1>6. /\ Daemon \in All /\ Primo \in All /\ Daemon # Primo
      /\ Primo \notin R /\ NULL \notin All /\ Threads \subseteq All
  BY <1>4, PoolAssumption DEF All
<1> HIDE DEF I, R
<1>7. Elems(runlist) = {} /\ Elems(list) = {} /\ Distinct(runlist) /\ Distinct(list)
      /\ Len(runlist) = 0
  BY <1>2, EmptyElems
<1>8. TypeOK
  <2>1. flag \in [All -> SUBSET Flags]
    BY <1>1 DEF Flags
  <2>2. type \in [All -> Types]
    BY <1>2 DEF Types
  <2> QED BY <1>2, <1>3, <1>4, <1>6, <2>1, <2>2, PoolAssumption DEF TypeOK, Points
<1>9. FlagsMatchLists
  BY <1>2, <1>4, <1>7 DEF FlagsMatchLists, HasFlag, R
<1>10. Exclusive
  BY <1>4 DEF Exclusive, HasFlag
<1>11. CurrentUnlinked /\ CreatedInv
  BY <1>2, <1>4, <1>6, <1>7 DEF CurrentUnlinked, CreatedInv
<1>12. DaemonInv
  BY <1>2, <1>4, <1>6 DEF DaemonInv
<1>13. ObjsInv
  BY <1>2, <1>4, <1>6, PoolAssumption DEF ObjsInv
<1>14. JoinInv
  <2>1. \A s \in All : type[s] # "SUB_THREAD"
    BY <1>2
  <2> QED BY <1>2, <1>4, <1>6, <2>1 DEF JoinInv, HasFlag
<1>15. PoolCounts
  BY <1>2, <1>3, <1>5, <1>7, PoolAssumption DEF PoolCounts, R
<1>16. NoLost
  BY <1>2, <1>4, <1>6, PoolAssumption DEF NoLost
<1> QED BY <1>8, <1>9, <1>10, <1>11, <1>12, <1>13, <1>14, <1>15, <1>16 DEF IInv

LEMMA StutterStep == IInv /\ UNCHANGED vars => IInv'
<1> SUFFICES ASSUME IInv, UNCHANGED vars PROVE IInv'
  OBVIOUS
<1>1. /\ UNCHANGED <<flag, type, parent, sublist, wakeup>>
      /\ UNCHANGED <<objs, freelist, total_num, use_num>>
      /\ UNCHANGED <<runlist, waitnum, iolist, pend_list, sleeplist>>
      /\ UNCHANGED <<curr_thread, pc, list>>
  BY DEF vars, threadVars, poolVars, waitVars, runVars
<1>2. /\ Elems(freelist)' = Elems(freelist) /\ Distinct(freelist)' = Distinct(freelist)
      /\ Elems(runlist)' = Elems(runlist) /\ Distinct(runlist)' = Distinct(runlist)
      /\ Elems(list)' = Elems(list) /\ Distinct(list)' = Distinct(list)
  BY <1>1 DEF Elems, Distinct
<1>3. TypeOK' /\ PoolCounts'
  BY <1>1, <1>2 DEF IInv, TypeOK, PoolCounts
<1>4. FlagsMatchLists' /\ Exclusive'
  BY <1>1, <1>2 DEF IInv, FlagsMatchLists, Exclusive, HasFlag
<1>5. CurrentUnlinked' /\ DaemonInv' /\ ObjsInv'
  BY <1>1 DEF IInv, CurrentUnlinked, DaemonInv, ObjsInv
<1>6. CreatedInv' /\ JoinInv' /\ NoLost'
  BY <1>1, <1>2 DEF IInv, CreatedInv, JoinInv, NoLost, HasFlag
<1> QED BY <1>3, <1>4, <1>5, <1>6 DEF IInv

LEMMA NextInv == IInv /\ [Next]_vars => IInv'
<1> SUFFICES ASSUME IInv, Next PROVE IInv'
  BY StutterStep
<1>1. CASE \E t \in All : StartThread(t) \/ ExecAllTask(t) \/ Yield(t)
  BY <1>1, StartThreadStep, BlockStep, ControlStep, WakeupParentStep DEF Yield
<1>2. CASE Library
  BY <1>2, CreateSubStep, AddSubThreadStep, WaitStep, FreeStep, ControlStep
     DEF Library
<1>3. CASE ThreadSchdule
  BY <1>3, ThreadSchduleStep
<1>4. CASE DaemonStep
  BY <1>4, WakeStep, ControlStep DEF DaemonStep
<1> QED BY <1>1, <1>2, <1>3, <1>4 DEF Next

LEMMA Invariant == Spec => []IInv
<1>1. Init => IInv
  BY InitInv
<1>2. IInv /\ [Next]_vars => IInv'
  BY NextInv
<1> QED BY <1>1, <1>2, PTL DEF Spec

-----------------------------------------------------------------------------
(* The theorems. *)

(* Every variable of the scheduler keeps its type, whatever the pool's size. *)
THEOREM TypeCorrect == Spec => []TypeOK
<1>1. IInv => TypeOK
  BY DEF IInv
<1> QED BY <1>1, Invariant, PTL

(* The flag word of a thread tells exactly the queues it is linked into, and no
   queue holds a thread twice, so that no ASSERT of the queue operations of
   MtFrame fails and no list is corrupted by linking an element twice. *)
THEOREM FlagsCorrect == Spec => []FlagsMatchLists
<1>1. IInv => FlagsMatchLists
  BY DEF IInv
<1> QED BY <1>1, Invariant, PTL

(* The pool's counters are the sizes they stand for; the pool keeps within its
   quota, or within its reserve when that is larger. *)
THEOREM PoolCorrect == Spec => []PoolCounts
<1>1. IInv => PoolCounts
  BY DEF IInv
<1> QED BY <1>1, Invariant, PTL

(* A thread that frees itself is never the one FreeThread destroys, so the
   stack in use stays allocated until another thread runs. *)
THEOREM StackSafe == Spec => []StackAlive
<1>1. IInv => StackAlive
  BY DEF IInv, StackAlive, ObjsInv, TypeOK, All
<1> QED BY <1>1, Invariant, PTL

(* A parent that waits has a live sub thread that will wake it, and parents and
   sub threads agree on whom the parent waits for. *)
THEOREM JoinCorrect == Spec => []JoinConsistent
<1>1. ASSUME IInv PROVE JoinConsistent
  <2>a. TypeOK /\ FlagsMatchLists /\ JoinInv /\ ObjsInv /\ Exclusive /\ DaemonInv
    BY <1>1 DEF IInv
  <2>1. \A p \in pend_list : sublist[p] # {}
    BY <2>a DEF TypeOK, FlagsMatchLists, JoinInv
  <2>2. ASSUME NEW s \in All, parent[s] # NULL
        PROVE  /\ type[s] = "SUB_THREAD"
               /\ s \in objs /\ ~HasFlag(s, "FREE_LIST")
               /\ parent[s] \in pend_list \/ (parent[s] = curr_thread /\ pc = "adding")
    <3>1. HasFlag(s, "SUB_LIST") /\ type[s] = "SUB_THREAD"
      BY <2>a, <2>2 DEF FlagsMatchLists, JoinInv
    <3>2. s \in objs
      BY <2>a, <3>1, PoolAssumption DEF ObjsInv, HasFlag, All, DaemonInv
    <3>3. ~HasFlag(s, "FREE_LIST")
      BY <2>a, <3>1 DEF Exclusive, HasFlag
    <3>4. parent[s] \in pend_list \/ (parent[s] = curr_thread /\ pc = "adding")
      BY <2>a, <2>2 DEF JoinInv, FlagsMatchLists, TypeOK
    <3> QED BY <3>1, <3>2, <3>3, <3>4
  <2> QED BY <2>a, <2>1, <2>2 DEF JoinConsistent, JoinInv
<1> QED BY <1>1, Invariant, PTL

(* No thread of the pool is ever lost and none can be scheduled twice: each is
   free, runable, asleep, waiting for its sub threads, about to be attached by
   its creator, or running, and in one of these places only. *)
THEOREM OnePlaceOnly == Spec => []OnePlace
<1>1. ASSUME IInv PROVE OnePlace
  <2>a. TypeOK /\ FlagsMatchLists /\ Exclusive /\ CurrentUnlinked /\ CreatedInv
        /\ DaemonInv /\ ObjsInv /\ NoLost
    BY <1>1 DEF IInv
  <2> DEFINE F == Elems(freelist)
             R == Elems(runlist)
             L == Elems(list)
             C == IF pc = "schedule" THEN {} ELSE {curr_thread}
  <2>1. /\ F \subseteq All /\ R \subseteq All /\ L \subseteq All /\ C \subseteq All
        /\ sleeplist \subseteq All /\ pend_list \subseteq All
    BY <2>a, ElemsOfSeq DEF TypeOK, All
  <2>2. ASSUME NEW t \in All
        PROVE  /\ t \in F => flag[t] = {"FREE_LIST"}
               /\ t \in R => "RUN_LIST" \in flag[t] /\ flag[t] \subseteq {"RUN_LIST", "SUB_LIST"}
               /\ t \in sleeplist => /\ "SLEEP_LIST" \in flag[t]
                                      /\ flag[t] \subseteq {"SLEEP_LIST", "IO_LIST", "SUB_LIST"}
               /\ t \in pend_list => /\ "PEND_LIST" \in flag[t]
                                      /\ flag[t] \subseteq {"PEND_LIST", "SUB_LIST"}
               /\ t \in L => flag[t] = {} /\ t # curr_thread
               /\ t \in C => flag[t] \subseteq {"SUB_LIST"} /\ t = curr_thread
    BY <2>a DEF FlagsMatchLists, HasFlag, Exclusive, CreatedInv, CurrentUnlinked
  <2>3. ASSUME NEW t \in All
        PROVE  /\ ~(t \in F /\ t \in R) /\ ~(t \in F /\ t \in sleeplist)
               /\ ~(t \in F /\ t \in pend_list) /\ ~(t \in F /\ t \in L)
               /\ ~(t \in F /\ t \in C)
               /\ ~(t \in R /\ t \in sleeplist) /\ ~(t \in R /\ t \in pend_list)
               /\ ~(t \in R /\ t \in L) /\ ~(t \in R /\ t \in C)
               /\ ~(t \in sleeplist /\ t \in pend_list)
               /\ ~(t \in sleeplist /\ t \in L) /\ ~(t \in sleeplist /\ t \in C)
               /\ ~(t \in pend_list /\ t \in L) /\ ~(t \in pend_list /\ t \in C)
               /\ ~(t \in L /\ t \in C)
    BY <2>2
  <2>4. ASSUME NEW t \in (objs \cup {Primo}) \ {Daemon}
        PROVE  \/ t \in F \/ t \in R \/ t \in sleeplist \/ t \in pend_list
               \/ t \in L \/ t \in C
    <3>1. t \in All /\ flag[t] \subseteq Flags /\ (HasFlag(t, "IO_LIST") => HasFlag(t, "SLEEP_LIST"))
      BY <2>a DEF TypeOK, All, Exclusive
    <3>2. CASE flag[t] \subseteq {"SUB_LIST"}
      BY <2>a, <3>2 DEF NoLost
    <3>3. CASE ~(flag[t] \subseteq {"SUB_LIST"})
      <4>1. \/ HasFlag(t, "FREE_LIST") \/ HasFlag(t, "RUN_LIST")
            \/ HasFlag(t, "SLEEP_LIST") \/ HasFlag(t, "PEND_LIST")
        BY <3>1, <3>3 DEF Flags, HasFlag
      <4> QED BY <2>a, <3>1, <4>1 DEF FlagsMatchLists
    <3> QED BY <3>2, <3>3
  <2>5. ASSUME NEW t \in All \ {Daemon},
               \/ t \in F \/ t \in R \/ t \in sleeplist \/ t \in pend_list
               \/ t \in L \/ t \in C
        PROVE  t \in objs \cup {Primo}
    <3>1. CASE t \in L \/ t \in C
      BY <2>a, <3>1 DEF CreatedInv, ObjsInv, All
    <3>2. CASE t \in F \/ t \in R \/ t \in sleeplist \/ t \in pend_list
      <4>1. flag[t] # {}
        BY <2>2, <3>2
      <4> QED BY <2>a, <4>1 DEF ObjsInv, All
    <3> QED BY <2>5, <3>1, <3>2
  <2>6. iolist \subseteq sleeplist
    BY <2>a DEF TypeOK, FlagsMatchLists, Exclusive
  <2> HIDE DEF F, R, L, C
  <2>7. Places = <<F, R, sleeplist, pend_list, L, C>>
    BY DEF Places, F, R, L, C
  <2>8. /\ DOMAIN Places = 1 .. 6
        /\ Places[1] = F /\ Places[2] = R /\ Places[3] = sleeplist
        /\ Places[4] = pend_list /\ Places[5] = L /\ Places[6] = C
    BY <2>7
  <2>9. \A i \in 1 .. 6 : i = 1 \/ i = 2 \/ i = 3 \/ i = 4 \/ i = 5 \/ i = 6
    OBVIOUS
  <2>10. \A t : (\E i \in 1 .. 6 : t \in Places[i]) <=>
                  (t \in F \/ t \in R \/ t \in sleeplist \/ t \in pend_list
                    \/ t \in L \/ t \in C)
    BY <2>8, <2>9
  <2>11. (UNION {Places[i] : i \in DOMAIN Places}) \ {Daemon}
            = (objs \cup {Primo}) \ {Daemon}
    <3>1. \A t : t \in UNION {Places[i] : i \in DOMAIN Places}
                   <=> \E i \in 1 .. 6 : t \in Places[i]
      BY <2>8
    <3> QED BY <2>1, <2>4, <2>5, <2>10, <3>1
  <2>12. \A i, j \in DOMAIN Places : i # j => Places[i] \cap Places[j] = {}
    <3> SUFFICES ASSUME NEW i \in 1 .. 6, NEW j \in 1 .. 6, i # j,
                        NEW t \in Places[i], t \in Places[j]
                 PROVE  FALSE
      BY <2>8
    <3>1. t \in All
      BY <2>1, <2>8, <2>9
    <3> QED BY <2>3, <2>8, <2>9, <3>1
  <2> QED BY <2>6, <2>11, <2>12 DEF OnePlace
<1> QED BY <1>1, Invariant, PTL

-----------------------------------------------------------------------------
(* Sleepers and the clock. *)

(* Outside WakeupTimeout no sleeper is overdue: epoll_wait was given the time of
   the earliest one. *)
SleepInv ==
    \A t \in sleeplist : wakeup[t] >= IF pc = "expire" THEN -MaxLag ELSE 0

(* Steps that let no time pass and put no thread to sleep. *)
LEMMA NoTime ==
    ASSUME TypeOK, SleepInv, sleeplist' \subseteq sleeplist, pc' = "expire" => pc = "expire",
           pc = "expire" => pc' = "expire",
           \A u \in sleeplist' : wakeup'[u] \in {wakeup[u], 0}
    PROVE  SleepInv'
<1> SUFFICES ASSUME NEW u \in sleeplist'
             PROVE  wakeup'[u] >= IF pc' = "expire" THEN -MaxLag ELSE 0
  BY DEF SleepInv
<1>1. u \in All /\ wakeup[u] \in Int /\ wakeup[u] >= IF pc = "expire" THEN -MaxLag ELSE 0
  BY DEF TypeOK, SleepInv
<1> QED BY <1>1, ClockAssumption

LEMMA SleepStep ==
    ASSUME TypeOK, SleepInv, [Next]_vars, MaxNum <= HeapSafe, DefaultThreadNum <= HeapSafe
    PROVE  SleepInv'
<1>1. CASE UNCHANGED vars
  BY <1>1, NoTime DEF vars, waitVars
<1>2. CASE \E t \in All : Sleep(t) \/ WaitIo(t)
  <2>1. PICK t \in All : Sleep(t) \/ WaitIo(t)
    BY <1>2
  <2>2. PICK ms \in Delays : wakeup' = [wakeup EXCEPT ![t] = ms]
    BY <2>1 DEF Sleep, WaitIo
  <2>3. sleeplist' = sleeplist \cup {t} /\ pc = "user" /\ pc' = "schedule"
    BY <2>1 DEF Sleep, WaitIo, Running
  <2>4. ASSUME NEW u \in sleeplist' PROVE wakeup'[u] >= 0
    <3>1. u \in All /\ wakeup'[u] = IF u = t THEN ms ELSE wakeup[u]
      BY <2>2, <2>3 DEF TypeOK
    <3>2. u # t => wakeup[u] >= 0
      BY <2>3 DEF SleepInv
    <3>3. ms >= 0
      BY ClockAssumption
    <3> QED BY <3>1, <3>2, <3>3
  <2> QED BY <2>3, <2>4 DEF SleepInv
<1>3. CASE \E t \in All : StartThread(t) \/ ExecAllTask(t) \/ RunEnds(t) \/ WakeupParent(t)
  <2>1. UNCHANGED <<sleeplist, wakeup>> /\ pc = "user" /\ pc' # "expire"
    BY <1>3 DEF StartThread, ExecAllTask, RunEnds, WakeupParent, Running, waitVars
  <2> QED BY <2>1, NoTime
<1>4. CASE CreateSub \/ CreateSubFails \/ AllCreated \/ AddSubThread \/ Wait \/ ExecFailed
           \/ ThreadSchdule
  <2>1. UNCHANGED <<sleeplist, wakeup>> /\ pc # "expire" /\ pc' # "expire"
    BY <1>4 DEF CreateSub, CreateSubFails, AllCreated, AddSubThread, Wait, ExecFailed,
                ThreadSchdule, waitVars
  <2> QED BY <2>1, NoTime
<1>5. CASE FreeSub \/ ScheduleReclaim
  <2>1. PICK t : wakeup' = [wakeup EXCEPT ![t] = 0]
    BY <1>5 DEF FreeSub, ScheduleReclaim, FreeThread, Retire
  <2>2. UNCHANGED sleeplist /\ pc # "expire" /\ pc' # "expire"
    BY <1>5 DEF FreeSub, ScheduleReclaim
  <2>3. \A u \in sleeplist' : wakeup'[u] \in {wakeup[u], 0}
    BY <2>1, <2>2 DEF TypeOK
  <2> QED BY <2>2, <2>3, NoTime
<1>6. CASE WakeupTimeout \/ \E t \in All : EpollNotify(t)
  <2>1. PICK t : Wake(t)
    BY <1>6 DEF WakeupTimeout, EpollNotify
  <2>2. UNCHANGED pc
    BY <1>6 DEF WakeupTimeout, EpollNotify
  <2>3. /\ sleeplist' \subseteq sleeplist
        /\ \A u \in sleeplist' : wakeup'[u] \in {wakeup[u], 0}
    BY <2>1 DEF Wake, TypeOK
  <2> QED BY <2>2, <2>3, NoTime
<1>7. CASE SetLastClock(0)
  <2>1. PICK w \in EpollTimeouts : \E passed \in 0 .. w + MaxLag :
          wakeup' = [t \in All |-> IF t \in sleeplist THEN wakeup[t] - passed
                                                      ELSE wakeup[t]]
    BY <1>7 DEF SetLastClock
  <2>2. PICK passed \in 0 .. w + MaxLag :
          wakeup' = [t \in All |-> IF t \in sleeplist THEN wakeup[t] - passed
                                                      ELSE wakeup[t]]
    BY <2>1
  <2>3. pc = "dispatch" /\ pc' = "expire" /\ sleeplist' = sleeplist
    BY <1>7 DEF SetLastClock
  <2>4. ASSUME NEW u \in sleeplist PROVE wakeup'[u] >= -MaxLag
    <3>1. PICK t \in HeapTops : w = IF wakeup[t] < 0 THEN 0 ELSE wakeup[t]
      BY <2>1, <2>4 DEF EpollTimeouts
    <3>2. t \in sleeplist /\ wakeup[t] <= wakeup[u]
      BY <3>1, <2>4 DEF HeapTops
    <3>3. wakeup[t] \in Int /\ wakeup[u] \in Int /\ u \in All
          /\ wakeup[t] >= 0 /\ wakeup[u] >= 0
      BY <3>2, <2>3, <2>4 DEF TypeOK, SleepInv
    <3>4. w = wakeup[t] /\ wakeup'[u] = wakeup[u] - passed
      BY <3>1, <3>3, <2>2, <2>4
    <3> HIDE <2>1, <2>2
    <3>5. passed \in Int /\ passed <= w + MaxLag
      BY <3>3, <3>4, ClockAssumption
    <3> QED BY <3>2, <3>3, <3>4, <3>5, ClockAssumption
  <2> QED BY <2>3, <2>4 DEF SleepInv
<1>8. CASE DaemonSwitch
  <2>1. /\ sleeplist = {} \/ \E t \in HeapTops : wakeup[t] > 0
        /\ UNCHANGED <<sleeplist, wakeup>> /\ pc' = "schedule"
    BY <1>8 DEF DaemonSwitch, waitVars
  <2>2. ASSUME NEW u \in sleeplist PROVE wakeup[u] >= 0
    <3>1. PICK t \in HeapTops : wakeup[t] > 0
      BY <2>1, <2>2
    <3>2. t \in sleeplist /\ wakeup[t] <= wakeup[u]
      BY <3>1, <2>2 DEF HeapTops
    <3> QED BY <3>1, <3>2, <2>2 DEF TypeOK
  <2> QED BY <2>1, <2>2 DEF SleepInv
<1> QED
  BY <1>1, <1>2, <1>3, <1>4, <1>5, <1>6, <1>7, <1>8 DEF Next, Yield, Library, DaemonStep

(* No sleeper is overdue by more than the time spent outside epoll_wait, for any
   timeouts and any order of events, while the pool is too small for the heap to
   lose its order. *)
THEOREM SleepersOnTime ==
    ASSUME MaxNum <= HeapSafe, DefaultThreadNum <= HeapSafe
    PROVE  Spec => []NoOversleep
<1>1. Init => SleepInv
  BY DEF Init, SleepInv
<1>2. IInv /\ SleepInv /\ [Next]_vars => SleepInv'
  BY SleepStep DEF IInv
<1>3. TypeOK /\ SleepInv => NoOversleep
  <2> SUFFICES ASSUME TypeOK, SleepInv, NEW t \in sleeplist
               PROVE  wakeup[t] >= -MaxLag
    BY DEF NoOversleep
  <2>1. wakeup[t] \in Int /\ wakeup[t] >= IF pc = "expire" THEN -MaxLag ELSE 0
    BY DEF TypeOK, SleepInv
  <2> QED BY <2>1, ClockAssumption
<1> QED BY <1>1, <1>2, <1>3, Invariant, TypeCorrect, PTL DEF Spec

-----------------------------------------------------------------------------
(* GetRootThread. *)

(* Parents lead nowhere in a circle: from each set of threads one leads out. *)
NoCycle == \A S \in SUBSET All : S # {} => \E s \in S : parent[s] \notin S

(* Threads that leave their parents make no circle. *)
LEMMA FewerParents ==
    ASSUME NoCycle, \A s \in All : parent'[s] \in {parent[s], NULL}
    PROVE  NoCycle'
<1>1. ASSUME NEW S \in SUBSET All, S # {} PROVE \E s \in S : parent'[s] \notin S
  <2>1. PICK s \in S : parent[s] \notin S
    BY <1>1 DEF NoCycle
  <2>2. parent'[s] \notin S
    BY <2>1, PoolAssumption
  <2> QED BY <2>2
<1> QED BY <1>1 DEF NoCycle

(* A thread that gets a parent has no sub threads yet. *)
LEMMA NewParent ==
    ASSUME IInv, NoCycle, AddSubThread
    PROVE  NoCycle'
<1>a. TypeOK /\ CreatedInv /\ JoinInv
  BY DEF IInv
<1>1. PICK sub \in All : /\ parent' = [parent EXCEPT ![sub] = curr_thread]
                         /\ sub \in Elems(list)
  <2>1. list \in Seq(Threads) /\ list # <<>>
    BY <1>a DEF AddSubThread, TypeOK
  <2>2. Head(list) \in Threads /\ Head(list) \in Elems(list)
    BY <2>1, TailElems
  <2> QED BY <2>2 DEF AddSubThread, All
<1>2. sub # curr_thread /\ \A s \in All : parent[s] # sub
  BY <1>1, <1>a DEF CreatedInv, JoinInv
<1>3. \A s \in All : parent'[s] = IF s = sub THEN curr_thread ELSE parent[s]
  BY <1>1, <1>a DEF TypeOK
<1>4. ASSUME NEW S \in SUBSET All, S # {}, \A s \in S : parent'[s] \in S PROVE FALSE
  <2> DEFINE T == S \ {sub}
  <2>1. T # {}
    BY <1>2, <1>3, <1>4
  <2>2. PICK s \in T : parent[s] \notin T
    BY <2>1 DEF NoCycle
  <2>3. parent[s] \in S
    BY <1>3, <1>4, <2>2
  <2>4. parent[s] # sub
    BY <1>2, <2>2
  <2> QED BY <2>2, <2>3, <2>4
<1> QED BY <1>4 DEF NoCycle

LEMMA NoCycleStep ==
    ASSUME IInv, NoCycle, [Next]_vars
    PROVE  NoCycle'
<1>a. parent \in [All -> All \cup {NULL}]
  BY DEF IInv, TypeOK
<1>1. CASE UNCHANGED vars
  BY <1>1 DEF vars, threadVars, NoCycle
<1>2. CASE \E t \in All : StartThread(t) \/ ExecAllTask(t) \/ Sleep(t) \/ WaitIo(t) \/ RunEnds(t)
  BY <1>2 DEF StartThread, ExecAllTask, Sleep, WaitIo, RunEnds, threadVars, NoCycle
<1>3. CASE \E t \in All : WakeupParent(t)
  BY <1>3, <1>a, FewerParents DEF WakeupParent
<1>4. CASE CreateSub \/ CreateSubFails \/ AllCreated \/ Wait \/ ExecFailed \/ ThreadSchdule
  BY <1>4 DEF CreateSub, CreateSubFails, AllCreated, Wait, ExecFailed, ThreadSchdule,
              threadVars, NoCycle
<1>5. CASE AddSubThread
  BY <1>5, NewParent
<1>6. CASE FreeSub \/ ScheduleReclaim
  BY <1>6, <1>a, FewerParents DEF FreeSub, ScheduleReclaim, FreeThread, Retire
<1>7. CASE DaemonStep
  BY <1>7 DEF DaemonStep, EpollNotify, SetLastClock, WakeupTimeout, DaemonSwitch,
              threadVars, NoCycle
<1> QED
  BY <1>1, <1>2, <1>3, <1>4, <1>5, <1>6, <1>7 DEF Next, Yield, Library

(* One step of the walk, and a walk of n steps. *)
Up(x) == IF type[x] = "SUB_THREAD" /\ parent[x] # NULL THEN parent[x] ELSE x
Walk(t, n, up) == up = [k \in 0 .. n |-> IF k = 0 THEN t ELSE Up(up[k - 1])]

(* Induction over the naturals, by a least counterexample. *)
LEMMA LeastNat ==
    ASSUME NEW T \in SUBSET Nat, T # {}
    PROVE  \E i \in T : \A j \in T : i <= j
<1>1. PICK i \in T : \A j \in T : ~(<<j, i>> \in OpToRel(<, Nat))
  BY WFMin, NatLessThanWellFounded
<1>2. \A j \in T : ~(j < i)
  BY <1>1 DEF OpToRel
<1> QED BY <1>2

LEMMA WalkExists ==
    ASSUME NEW t, NEW n \in Nat
    PROVE  \E up : Walk(t, n, up)
<1> DEFINE T == {k \in Nat : ~ \E up : Walk(t, k, up)}
<1>1. CASE T = {}
  BY <1>1
<1>2. CASE T # {}
  <2>1. PICK m \in T : \A j \in T : m <= j
    BY <1>2, LeastNat
  <2>2. m # 0
    <3> DEFINE up == [k \in 0 .. 0 |-> t]
    <3>1. up = [k \in 0 .. 0 |-> IF k = 0 THEN t ELSE Up(up[k - 1])]
      OBVIOUS
    <3>2. Walk(t, 0, up)
      BY <3>1 DEF Walk
    <3> QED BY <3>2, <2>1
  <2>3. m - 1 \in Nat /\ m - 1 \notin T
    BY <2>1, <2>2
  <2>4. PICK f : Walk(t, m - 1, f)
    BY <2>3
  <2> DEFINE g == [k \in 0 .. m |-> IF k <= m - 1 THEN f[k] ELSE Up(f[m - 1])]
  <2>5. \A k \in 0 .. m - 1 : f[k] = IF k = 0 THEN t ELSE Up(f[k - 1])
    BY <2>4 DEF Walk
  <2>6. ASSUME NEW k \in 0 .. m PROVE g[k] = IF k = 0 THEN t ELSE Up(g[k - 1])
    <3>1. CASE k = 0
      <4>1. 0 \in 0 .. m - 1 /\ k <= m - 1
        BY <2>3, <3>1
      <4> QED BY <4>1, <3>1, <2>5
    <3>2. CASE k # 0
      <4>1. k - 1 \in 0 .. m - 1 /\ k - 1 \in 0 .. m /\ k - 1 <= m - 1
        BY <2>3, <3>2
      <4>2. g[k - 1] = f[k - 1]
        BY <4>1
      <4>3. CASE k <= m - 1
        <5>1. k \in 0 .. m - 1
          BY <4>3, <2>3
        <5>2. g[k] = f[k]
          BY <4>3
        <5> QED BY <5>1, <5>2, <4>2, <3>2, <2>5
      <4>4. CASE ~(k <= m - 1)
        <5>1. k - 1 = m - 1
          BY <4>4, <2>3
        <5> QED BY <5>1, <4>2, <4>4, <3>2
      <4> QED BY <4>3, <4>4
    <3> QED BY <3>1, <3>2
  <2>7. g = [k \in 0 .. m |-> IF k = 0 THEN t ELSE Up(g[k - 1])]
    <3>1. g = [k \in 0 .. m |-> g[k]]
      OBVIOUS
    <3> HIDE DEF g
    <3> QED BY <3>1, <2>6
  <2>8. Walk(t, m, g)
    BY <2>7 DEF Walk
  <2> QED BY <2>8, <2>1
<1> QED BY <1>1, <1>2

LEMMA RootIsWalk ==
    ASSUME Cardinality(All) \in Nat, curr_thread # Primo
    PROVE  \E up : /\ Walk(curr_thread, Cardinality(All), up)
                   /\ GetRootThread = up[Cardinality(All)]
<1> DEFINE N == Cardinality(All)
           Walks(f) == f = [n \in 0 .. N |->
                    IF n = 0 THEN curr_thread
                    ELSE IF type[f[n - 1]] = "SUB_THREAD" /\ parent[f[n - 1]] # NULL
                         THEN parent[f[n - 1]] ELSE f[n - 1]]
           up == CHOOSE f : Walks(f)
<1>1. GetRootThread = up[N]
  BY DEF GetRootThread
<1>2. \E f : Walks(f)
  <2>1. PICK g : Walk(curr_thread, N, g)
    BY WalkExists
  <2>2. Walks(g)
    BY <2>1, Zenon DEF Walk, Up
  <2> QED BY <2>2
<1>3. Walk(curr_thread, N, up)
  BY <1>2 DEF Walk, Up
<1> QED BY <1>1, <1>3

(* The threads the walk passes: the running one and those that wait for it. *)
LEMMA WalkLive ==
    ASSUME IInv, pc = "user", NEW n \in Nat, NEW up, Walk(curr_thread, n, up)
    PROVE  /\ up \in [0 .. n -> All]
           /\ \A k \in 0 .. n : up[k] = curr_thread \/ HasFlag(up[k], "PEND_LIST")
           /\ \A k \in 1 .. n : up[k] = Up(up[k - 1])
           /\ \A k \in 0 .. n : type[up[k]] = "SUB_THREAD" => parent[up[k]] # NULL
<1>a. TypeOK /\ JoinInv /\ CreatedInv
  BY DEF IInv
<1> DEFINE Good(k) == up[k] \in All /\ (up[k] = curr_thread \/ HasFlag(up[k], "PEND_LIST"))
           T == {k \in 0 .. n : ~Good(k)}
<1>1. up = [k \in 0 .. n |-> up[k]]
      /\ \A k \in 0 .. n : up[k] = IF k = 0 THEN curr_thread ELSE Up(up[k - 1])
  BY DEF Walk
<1>2. Good(0)
  <2>1. 0 \in 0 .. n
    OBVIOUS
  <2>2. up[0] = curr_thread
    BY <1>1, <2>1
  <2> QED BY <2>2, <1>a DEF TypeOK
<1>p. ASSUME NEW x \in All, type[x] = "SUB_THREAD" PROVE parent[x] # NULL
  <2>1. list = <<>>
    BY <1>a DEF CreatedInv
  <2> QED BY <1>p, <2>1, <1>a, EmptyElems DEF JoinInv
<1>3. ASSUME NEW x \in All, x = curr_thread \/ HasFlag(x, "PEND_LIST")
      PROVE  Up(x) \in All /\ (Up(x) = curr_thread \/ HasFlag(Up(x), "PEND_LIST"))
  <2>1. CASE type[x] = "SUB_THREAD"
    <3>1. parent[x] # NULL
      BY <2>1, <1>p
    <3>2. parent[x] \in All /\ HasFlag(parent[x], "PEND_LIST")
      BY <3>1, <1>a DEF TypeOK, JoinInv
    <3> QED BY <2>1, <3>1, <3>2 DEF Up
  <2>2. CASE type[x] # "SUB_THREAD"
    BY <2>2, <1>3 DEF Up
  <2> QED BY <2>1, <2>2
<1>4. CASE T # {}
  <2>1. T \in SUBSET Nat
    OBVIOUS
  <2>2. PICK m \in T : \A j \in T : m <= j
    BY <1>4, <2>1, LeastNat
  <2>3. m # 0
    BY <1>2, <2>2
  <2>4. m - 1 \in 0 .. n /\ m - 1 \notin T /\ m \in 0 .. n
    BY <2>2, <2>3
  <2>5. Good(m - 1)
    BY <2>4
  <2>6. Good(m)
    BY <2>3, <2>4, <2>5, <1>1, <1>3
  <2> QED BY <2>2, <2>6
<1>5. CASE T = {}
  <2>1. \A k \in 0 .. n : Good(k)
    BY <1>5
  <2>2. up \in [0 .. n -> All]
    BY <2>1, <1>1
  <2>3. \A k \in 1 .. n : k \in 0 .. n /\ k # 0
    OBVIOUS
  <2>4. \A k \in 1 .. n : up[k] = Up(up[k - 1])
    BY <2>3, <1>1
  <2>5. \A k \in 0 .. n : type[up[k]] = "SUB_THREAD" => parent[up[k]] # NULL
    BY <2>1, <1>p
  <2> QED BY <2>1, <2>2, <2>4, <2>5
<1> QED BY <1>4, <1>5

(* The walk up from a running micro thread ends, within as many steps as there
   are threads, at a thread that is no sub thread and is the running one or
   waits in its join: GetRootThread never follows a stale or circular parent and
   never answers with an orphan, and the thread a request's message hangs on
   does not go away while its sub threads run. *)
THEOREM RootCorrect == Spec => []RootThreadLive
<1>1. ASSUME IInv, NoCycle PROVE RootThreadLive
  <2> SUFFICES ASSUME pc = "user", curr_thread # Primo
               PROVE  /\ GetRootThread \in objs \cup {Primo}
                      /\ type[GetRootThread] # "SUB_THREAD"
                      /\ ~HasFlag(GetRootThread, "FREE_LIST")
                      /\ GetRootThread = curr_thread \/ GetRootThread \in pend_list
    BY DEF RootThreadLive
  <2>a. TypeOK /\ FlagsMatchLists /\ Exclusive /\ CurrentUnlinked /\ ObjsInv
    BY <1>1 DEF IInv
  <2> DEFINE N == Cardinality(All)
  <2>1. IsFiniteSet(All) /\ N \in Nat
    <3>1. IsFiniteSet(All)
      BY PoolAssumption, FS_AddElement DEF All
    <3> QED BY <3>1, FS_CardinalityType
  <2>2. PICK up : Walk(curr_thread, N, up) /\ GetRootThread = up[N]
    BY <2>1, RootIsWalk
  <2>3. /\ up \in [0 .. N -> All]
        /\ \A k \in 0 .. N : up[k] = curr_thread \/ HasFlag(up[k], "PEND_LIST")
        /\ \A k \in 1 .. N : up[k] = Up(up[k - 1])
        /\ \A k \in 0 .. N : type[up[k]] = "SUB_THREAD" => parent[up[k]] # NULL
    BY <1>1, <2>1, <2>2, WalkLive
  <2>4. PICK i \in 0 .. N, j \in 0 .. N : i # j /\ up[i] = up[j]
    <3>1. IsFiniteSet(0 .. N) /\ Cardinality(0 .. N) = N + 1
      BY <2>1, FS_Interval
    <3>2. Cardinality(All) < Cardinality(0 .. N)
      BY <2>1, <3>1
    <3> DEFINE D == 0 .. N
               f == up
    <3>3. f \in [D -> All] /\ IsFiniteSet(D) /\ Cardinality(All) < Cardinality(D)
      BY <2>3, <3>1, <3>2
    <3> HIDE DEF D, f
    <3>4. \E i, j \in D : i # j /\ f[i] = f[j]
      BY ONLY <2>1, <3>3, FS_PigeonHole
    <3> QED BY <3>4 DEF D, f
  <2> HIDE DEF N
  <2>5. PICK a \in 0 .. N, b \in 0 .. N : a < b /\ up[a] = up[b]
    <3>1. CASE i < j
      BY <3>1, <2>4
    <3>2. CASE j < i
      BY <3>2, <2>4
    <3> QED BY <2>1, <2>4, <3>1, <3>2
  <2>6. \E k \in a .. b - 1 : type[up[k]] # "SUB_THREAD"
    <3> SUFFICES ASSUME \A k \in a .. b - 1 : type[up[k]] = "SUB_THREAD" PROVE FALSE
      OBVIOUS
    <3> DEFINE S == {up[k] : k \in a .. b - 1}
    <3>1. S \in SUBSET All /\ S # {}
      <4>1. a \in a .. b - 1 /\ a .. b - 1 \subseteq 0 .. N
        BY <2>1, <2>5
      <4> QED BY <4>1, <2>3
    <3>2. ASSUME NEW k \in a .. b - 1 PROVE parent[up[k]] \in S
      <4>1. k \in 0 .. N /\ k + 1 \in 1 .. N /\ k + 1 - 1 = k
            /\ (k + 1 \in a .. b - 1 \/ k + 1 = b)
        BY <2>1, <2>5
      <4>2. up[k + 1] = Up(up[k])
        BY <4>1, <2>3
      <4>3. parent[up[k]] # NULL
        BY <4>1, <2>3
      <4>4. parent[up[k]] = up[k + 1]
        BY <4>2, <4>3 DEF Up
      <4>5. a \in a .. b - 1
        BY <2>5
      <4> QED BY <4>1, <4>4, <4>5, <2>5
    <3> QED BY <1>1, <3>1, <3>2 DEF NoCycle
  <2>7. PICK k \in 0 .. N : type[up[k]] # "SUB_THREAD"
    <3>1. a .. b - 1 \subseteq 0 .. N
      BY <2>1, <2>5
    <3> QED BY <2>6, <3>1
  <2>8. type[up[N]] # "SUB_THREAD"
    <3> DEFINE T == {m \in 0 .. N : k <= m /\ type[up[m]] = "SUB_THREAD"}
    <3>1. CASE T = {}
      BY <3>1, <2>1, <2>7
    <3>2. CASE T # {}
      <4>1. T \in SUBSET Nat
        BY <2>1
      <4>2. PICK m \in T : \A x \in T : m <= x
        BY <3>2, <4>1, LeastNat
      <4>3. m # k /\ m \in 1 .. N /\ m - 1 \in 0 .. N /\ k <= m - 1 /\ m - 1 \notin T
        BY <2>1, <2>7, <4>2
      <4>4. type[up[m - 1]] # "SUB_THREAD"
        BY <4>3
      <4>5. up[m] = up[m - 1]
        BY <4>3, <4>4, <2>3 DEF Up
      <4> QED BY <4>2, <4>4, <4>5
    <3> QED BY <3>1, <3>2
  <2>9. up[N] \in All /\ (up[N] = curr_thread \/ HasFlag(up[N], "PEND_LIST"))
    BY <2>1, <2>3
  <2>10. ~HasFlag(up[N], "FREE_LIST")
    BY <2>9, <2>a DEF Exclusive, CurrentUnlinked, HasFlag
  <2>11. up[N] \in objs \cup {Primo}
    BY <2>9, <2>a DEF ObjsInv, HasFlag, All
  <2>12. up[N] = curr_thread \/ up[N] \in pend_list
    BY <2>9, <2>a DEF FlagsMatchLists, HasFlag
  <2> QED BY <2>2, <2>8, <2>10, <2>11, <2>12
<1>2. Init => NoCycle
  <2> SUFFICES ASSUME Init, NEW S \in SUBSET All, S # {} PROVE \E s \in S : parent[s] \notin S
    BY DEF NoCycle
  <2>1. \A s \in S : parent[s] = NULL
    BY DEF Init
  <2> QED BY <2>1, PoolAssumption
<1>3. IInv /\ NoCycle /\ [Next]_vars => NoCycle'
  BY NoCycleStep
<1> QED BY <1>1, <1>2, <1>3, Invariant, PTL DEF Spec
=============================================================================
