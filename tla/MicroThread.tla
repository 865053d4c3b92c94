---------------------------- MODULE MicroThread ----------------------------
(* The scheduler of the micro-thread library (MtFrame, ThreadPool, Thread and
   MicroThread in sync_frame/micro_thread/micro_thread.cpp, mt_exec_all_task in
   mt_api.cpp).

   All micro threads of a worker share one kernel thread: exactly one of them
   runs, and it runs until it calls into the scheduler.  The interleaving is
   therefore the order in which threads give the CPU up and get it back, and
   `pc' is the point the running thread has reached inside the library:

     user      in application code, free to call the library
     creating  first loop of mt_exec_all_task, allocating the sub threads
     adding    second loop, attaching them; then Thread::Wait
     cleanup   EXIT_LABEL of mt_exec_all_task after a failed allocation
     reclaim   end of MicroThread::Run, about to free itself
     schedule  about to enter MtFrame::ThreadSchdule
     dispatch  the daemon in epoll_wait and EpollRcvEventList
     expire    the daemon in WakeupTimeout

   Times are kept relative to _last_clock: wakeup[t] is _wakeup_time minus
   _last_clock, so reading a new clock subtracts the time that has passed.  It
   is set before a thread enters the heap and not read after it has left, and
   is 0 while the thread is outside.
   MicroThread::_state is written and never read, and is left out. *)
EXTENDS Integers, Sequences, FiniteSets

CONSTANTS Threads,          \* the thread objects the pool may hand out
          Daemon,           \* the one of them InitFrame takes for the daemon
          Primo,            \* the primordial thread, outside the pool
          NULL,
          MaxNum,           \* _max_num
          DefaultThreadNum, \* default_thread_num
          MaxTasks,         \* bound: tasks in one call of mt_exec_all_task
          Delays,           \* bound: the timeouts threads ask for
          IdleWait,         \* epoll_wait timeout of an empty heap (10 ms)
          MaxLag            \* bound: time that passes outside epoll_wait

All == Threads \cup {Primo}

(* HeapList::HeapDelete only sifts down, so a heap that once held six entries
   or more may not have its minimum on top (module Heap). *)
HeapSafe == 5

ASSUME PoolAssumption ==
    /\ IsFiniteSet(Threads)
    /\ Daemon \in Threads
    /\ Primo \notin Threads
    /\ NULL \notin All
    /\ MaxNum \in Nat
    /\ DefaultThreadNum \in Nat \ {0}
    /\ MaxTasks \in Nat \ {0}

ASSUME ClockAssumption ==
    /\ Delays \subseteq Nat
    /\ IdleWait \in Nat
    /\ MaxLag \in Nat

Flags == {"FREE_LIST", "IO_LIST", "SLEEP_LIST", "RUN_LIST", "PEND_LIST",
          "SUB_LIST"}
Types == {"NORMAL", "PRIMORDIAL", "DAEMON", "SUB_THREAD"}
Points == {"user", "creating", "adding", "cleanup", "reclaim", "schedule",
           "dispatch", "expire"}

VARIABLES
    flag, type, parent, sublist, wakeup,       \* per thread
    objs, freelist, total_num, use_num,        \* ThreadPool
    runlist, waitnum, iolist, pend_list, sleeplist, \* MtFrame
    curr_thread, pc,
    list                                       \* local of mt_exec_all_task

threadVars == <<type, parent, sublist>>
poolVars == <<objs, freelist, total_num, use_num>>
waitVars == <<iolist, pend_list, sleeplist, wakeup>>
runVars == <<runlist, waitnum>>
vars == <<flag, threadVars, poolVars, waitVars, runVars, curr_thread, pc, list>>

SetFlag(f, t, x) == [f EXCEPT ![t] = @ \cup {x}]
UnsetFlag(f, t, x) == [f EXCEPT ![t] = @ \ {x}]
HasFlag(t, x) == x \in flag[t]

-----------------------------------------------------------------------------
(* Helpers of the actions.  An operator named Op_Slip is Op with a slip the code
   could have; none is used, they show that the properties notice it. *)

(* InsertRunable: the flag is set by the caller along with its other flags. *)
InsertRunable_Front(t) == runlist' = <<t>> \o runlist /\ waitnum' = waitnum + 1
InsertRunable_Lost(t) == t \in All /\ UNCHANGED <<runlist, waitnum>>
InsertRunable(t) == runlist' = Append(runlist, t) /\ waitnum' = waitnum + 1

(* The flag word after RemoveIoWait (or RemoveSleep) and InsertRunable. *)
Woken_KeepsIo(f) == (f \ {"SLEEP_LIST"}) \cup {"RUN_LIST"}
Woken(f) == (f \ {"IO_LIST", "SLEEP_LIST"}) \cup {"RUN_LIST"}

(* Take t off the heap and the I/O list and make it runable. *)
Wake(t) ==
    /\ iolist' = iolist \ {t}
    /\ sleeplist' = sleeplist \ {t}
    /\ wakeup' = [wakeup EXCEPT ![t] = 0]
    /\ flag' = [flag EXCEPT ![t] = Woken(@)]
    /\ InsertRunable(t)

(* HasNoSubThread(p) once t has left. *)
LastSub_Any(p, t) == p # t
LastSub(p, t) == sublist[p] \ {t} = {}

HasQuota == total_num < MaxNum

-----------------------------------------------------------------------------
(* InitFrame on a pool just filled by InitialPool: the daemon is its first
   thread, the primordial thread is running. *)
Init ==
    /\ \E rest \in [1 .. DefaultThreadNum - 1 -> Threads \ {Daemon}] :
          /\ \A i, j \in DOMAIN rest : i # j => rest[i] # rest[j]
          /\ freelist = rest
          /\ objs = {Daemon} \cup {rest[i] : i \in DOMAIN rest}
          /\ flag = [t \in All |-> IF \E i \in DOMAIN rest : rest[i] = t
                                   THEN {"FREE_LIST"} ELSE {}]
    /\ total_num = DefaultThreadNum
    /\ use_num = 1
    /\ type = [t \in All |-> CASE t = Daemon -> "DAEMON"
                               [] t = Primo  -> "PRIMORDIAL"
                               [] OTHER      -> "NORMAL"]
    /\ parent = [t \in All |-> NULL]
    /\ sublist = [t \in All |-> {}]
    /\ wakeup = [t \in All |-> 0]
    /\ runlist = <<>>
    /\ waitnum = 0
    /\ iolist = {}
    /\ pend_list = {}
    /\ sleeplist = {}
    /\ curr_thread = Primo
    /\ pc = "user"
    /\ list = <<>>

-----------------------------------------------------------------------------
(* ThreadPool *)

(* AllocThread returning t: the longest free thread, or a new object while the
   quota lasts. *)
AllocThread(t) ==
    \/ /\ freelist # <<>>
       /\ t = Head(freelist)
       /\ freelist' = Tail(freelist)
       /\ use_num' = use_num + 1
       /\ UNCHANGED <<objs, total_num>>
    \/ /\ freelist = <<>>
       /\ HasQuota
       /\ t \notin objs
       /\ objs' = objs \cup {t}
       /\ total_num' = total_num + 1
       /\ use_num' = use_num + 1
       /\ UNCHANGED freelist

(* AllocThread returning NULL: no quota, or no memory. *)
AllocFails == freelist = <<>>

(* Reset t, leave `rest' in the free list and destroy the threads of `victims'. *)
Retire(t, victims, rest) ==
    /\ use_num' = use_num - 1
    /\ freelist' = rest
    /\ objs' = objs \ victims
    /\ total_num' = IF victims = {} THEN total_num ELSE total_num - 1
    /\ flag' = [u \in All |-> CASE u \in victims -> {}
                                [] u = t -> {"FREE_LIST"}
                                [] OTHER -> flag[u]]
    /\ type' = [type EXCEPT ![t] = "NORMAL"]
    /\ parent' = [parent EXCEPT ![t] = NULL]
    /\ sublist' = [sublist EXCEPT ![t] = {}]
    /\ wakeup' = [wakeup EXCEPT ![t] = 0]

(* More than default_thread_num threads are free. *)
OverReserve_OffByOne(queue) == Len(queue) > DefaultThreadNum + 1
OverReserve(queue) == Len(queue) > DefaultThreadNum /\ Len(queue) > 1

FreeThread_DestroysNewest(t) ==
    LET queue == Append(freelist, t)
    IN  IF OverReserve(queue) THEN Retire(t, {t}, freelist)
                              ELSE Retire(t, {}, queue)

(* FreeThread: queue t, and destroy the oldest free thread when there are more
   than the reserve. *)
FreeThread(t) ==
    LET queue == Append(freelist, t)
    IN  IF OverReserve(queue) THEN Retire(t, {Head(queue)}, Tail(queue))
                              ELSE Retire(t, {}, queue)

-----------------------------------------------------------------------------
(* What the running thread may call.  Application code never runs on the
   daemon. *)
Running(t) == curr_thread = t /\ pc = "user"

(* MtFrame::CreateThread with runable set (mt_start_thread, CSyncFrame::Process);
   when AllocThread returns NULL nothing changes. *)
StartThread(t) ==
    /\ Running(t)
    /\ \E new \in Threads :
          /\ AllocThread(new)
          /\ flag' = SetFlag(UnsetFlag(flag, new, "FREE_LIST"), new, "RUN_LIST")
          /\ InsertRunable(new)
    /\ UNCHANGED <<threadVars, waitVars, curr_thread, pc, list>>

(* Thread::sleep and ScheduleSleep. *)
Sleep(t) ==
    /\ Running(t)
    /\ \E ms \in Delays : wakeup' = [wakeup EXCEPT ![t] = ms]
    /\ flag' = SetFlag(flag, t, "SLEEP_LIST")
    /\ sleeplist' = sleeplist \cup {t}
    /\ pc' = "schedule"
    /\ UNCHANGED <<threadVars, poolVars, iolist, pend_list, runVars,
                   curr_thread, list>>

(* WaitNotify, and EpollSchedule once EpollAdd has accepted the descriptors. *)
WaitIo(t) ==
    /\ Running(t)
    /\ \E timeout \in Delays : wakeup' = [wakeup EXCEPT ![t] = timeout]
    /\ flag' = SetFlag(SetFlag(flag, t, "IO_LIST"), t, "SLEEP_LIST")
    /\ iolist' = iolist \cup {t}
    /\ sleeplist' = sleeplist \cup {t}
    /\ pc' = "schedule"
    /\ UNCHANGED <<threadVars, poolVars, pend_list, runVars, curr_thread, list>>

(* mt_exec_all_task: enter with a non-empty task list. *)
ExecAllTask(t) ==
    /\ Running(t)
    /\ pc' = "creating"
    /\ UNCHANGED <<flag, threadVars, poolVars, waitVars, runVars, curr_thread,
                   list>>

CreateSub ==
    /\ pc = "creating"
    /\ Len(list) < MaxTasks
    /\ \E sub \in Threads :
          /\ AllocThread(sub)
          /\ flag' = UnsetFlag(flag, sub, "FREE_LIST")
          /\ type' = [type EXCEPT ![sub] = "SUB_THREAD"]
          /\ list' = Append(list, sub)
    /\ UNCHANGED <<parent, sublist, waitVars, runVars, curr_thread, pc>>

CreateSubFails ==
    /\ pc = "creating"
    /\ Len(list) < MaxTasks
    /\ AllocFails
    /\ pc' = "cleanup"
    /\ UNCHANGED <<flag, threadVars, poolVars, waitVars, runVars, curr_thread,
                   list>>

AllCreated ==
    /\ pc = "creating"
    /\ list # <<>>
    /\ pc' = "adding"
    /\ UNCHANGED <<flag, threadVars, poolVars, waitVars, runVars, curr_thread,
                   list>>

(* AddSubThread and InsertRunable of the first thread of the local list. *)
AddSubThread ==
    /\ pc = "adding"
    /\ list # <<>>
    /\ LET sub == Head(list) IN
          /\ sublist' = [sublist EXCEPT ![curr_thread] = @ \cup {sub}]
          /\ parent' = [parent EXCEPT ![sub] = curr_thread]
          /\ flag' = SetFlag(SetFlag(flag, sub, "SUB_LIST"), sub, "RUN_LIST")
          /\ InsertRunable(sub)
    /\ list' = Tail(list)
    /\ UNCHANGED <<type, poolVars, waitVars, curr_thread, pc>>

(* Thread::Wait and InsertPend. *)
Wait ==
    /\ pc = "adding"
    /\ list = <<>>
    /\ flag' = SetFlag(flag, curr_thread, "PEND_LIST")
    /\ pend_list' = pend_list \cup {curr_thread}
    /\ pc' = "schedule"
    /\ UNCHANGED <<threadVars, poolVars, iolist, sleeplist, wakeup, runVars,
                   curr_thread, list>>

(* EXIT_LABEL of mt_exec_all_task: free what was created, return -1. *)
FreeSub ==
    /\ pc = "cleanup"
    /\ list # <<>>
    /\ FreeThread(Head(list))
    /\ list' = Tail(list)
    /\ UNCHANGED <<runVars, iolist, pend_list, sleeplist, curr_thread, pc>>

ExecFailed ==
    /\ pc = "cleanup"
    /\ list = <<>>
    /\ pc' = "user"
    /\ UNCHANGED <<flag, threadVars, poolVars, waitVars, runVars, curr_thread,
                   list>>

-----------------------------------------------------------------------------
(* MicroThread::Run after the start function returns. *)

RunEnds(t) ==
    /\ Running(t)
    /\ t # Primo
    /\ type[t] # "SUB_THREAD" \/ parent[t] = NULL
    /\ pc' = "reclaim"
    /\ UNCHANGED <<flag, threadVars, poolVars, waitVars, runVars, curr_thread,
                   list>>

(* A sub thread first leaves its parent (RemoveSubThread); the last one to
   leave makes the parent runable (ScheduleUnpend). *)
WakeupParent(t) ==
    /\ Running(t)
    /\ type[t] = "SUB_THREAD" /\ parent[t] # NULL
    /\ LET p == parent[t]
           f == UnsetFlag(flag, t, "SUB_LIST")
       IN  /\ sublist' = [sublist EXCEPT ![p] = @ \ {t}]
           /\ parent' = [parent EXCEPT ![t] = NULL]
           /\ IF LastSub(p, t)
              THEN /\ pend_list' = pend_list \ {p}
                   /\ flag' = SetFlag(UnsetFlag(f, p, "PEND_LIST"), p, "RUN_LIST")
                   /\ InsertRunable(p)
              ELSE flag' = f /\ UNCHANGED <<pend_list, runVars>>
    /\ pc' = "reclaim"
    /\ UNCHANGED <<type, poolVars, iolist, sleeplist, wakeup, curr_thread, list>>

(* ScheduleReclaim: the thread frees itself while still on its own stack. *)
ScheduleReclaim ==
    /\ pc = "reclaim"
    /\ FreeThread(curr_thread)
    /\ pc' = "schedule"
    /\ UNCHANGED <<runVars, iolist, pend_list, sleeplist, curr_thread, list>>

-----------------------------------------------------------------------------
(* MtFrame::ThreadSchdule: the head of the run queue, or the daemon. *)
ThreadSchdule ==
    /\ pc = "schedule"
    /\ \/ /\ runlist = <<>>
          /\ curr_thread' = Daemon
          /\ pc' = "dispatch"
          /\ UNCHANGED <<flag, runVars>>
       \/ /\ runlist # <<>>
          /\ curr_thread' = Head(runlist)
          /\ pc' = "user"
          /\ flag' = UnsetFlag(flag, Head(runlist), "RUN_LIST")
          /\ runlist' = Tail(runlist)
          /\ waitnum' = waitnum - 1
    /\ UNCHANGED <<threadVars, poolVars, waitVars, list>>

-----------------------------------------------------------------------------
(* MtFrame::GetRootThread: from the running thread up to the last one that is no
   sub thread or has no parent; none for the primordial thread. *)
GetRootThread ==
    LET up[n \in 0 .. Cardinality(All)] ==
            IF n = 0 THEN curr_thread
            ELSE IF type[up[n - 1]] = "SUB_THREAD" /\ parent[up[n - 1]] # NULL
                 THEN parent[up[n - 1]] ELSE up[n - 1]
    IN  IF curr_thread = Primo THEN NULL ELSE up[Cardinality(All)]

-----------------------------------------------------------------------------
(* MtFrame::DaemonRun *)

(* One event of EpollDispath whose notify object belongs to t: InputNotify and
   OutputNotify wake t if it still is on the I/O list. *)
EpollNotify_Twice(t) ==
    /\ pc = "dispatch"
    /\ HasFlag(t, "IO_LIST") \/ HasFlag(t, "RUN_LIST")
    /\ Wake(t)
    /\ UNCHANGED <<threadVars, poolVars, pend_list, curr_thread, pc, list>>

EpollNotify(t) ==
    /\ pc = "dispatch"
    /\ HasFlag(t, "IO_LIST")
    /\ Wake(t)
    /\ UNCHANGED <<threadVars, poolVars, pend_list, curr_thread, pc, list>>

(* What HeapTop may return: the entries with the earliest time, or any entry
   when the heap can have been larger than HeapSafe.  It holds the primordial
   thread and the threads of the pool, never the daemon. *)
HeapTops ==
    IF MaxNum <= HeapSafe /\ DefaultThreadNum <= HeapSafe
    THEN {t \in sleeplist : \A u \in sleeplist : wakeup[t] <= wakeup[u]}
    ELSE sleeplist

(* EpollGetTimeout: how long epoll_wait may block. *)
EpollTimeouts_Idle == {IdleWait}
EpollTimeouts ==
    IF sleeplist = {} THEN {IdleWait}
    ELSE {IF wakeup[t] < 0 THEN 0 ELSE wakeup[t] : t \in HeapTops}

(* The end of EpollDispath and SetLastClock.  epoll_wait returns on an event, on
   a signal or on its timeout; MaxLag is spent outside it at most.  At least
   `least' has passed since the last reading. *)
SetLastClock(least) ==
    /\ pc = "dispatch"
    /\ \E w \in EpollTimeouts : \E passed \in least .. w + MaxLag :
          wakeup' = [t \in All |-> IF t \in sleeplist THEN wakeup[t] - passed
                                                      ELSE wakeup[t]]
    /\ pc' = "expire"
    /\ UNCHANGED <<flag, threadVars, poolVars, iolist, pend_list, sleeplist,
                   runVars, curr_thread, list>>

(* One turn of the loop of WakeupTimeout. *)
WakeupTimeout ==
    /\ pc = "expire"
    /\ \E t \in HeapTops : wakeup[t] <= 0 /\ Wake(t)
    /\ UNCHANGED <<threadVars, poolVars, pend_list, curr_thread, pc, list>>

(* The top has not expired: the loop ends and the daemon switches. *)
DaemonSwitch ==
    /\ pc = "expire"
    /\ sleeplist = {} \/ \E t \in HeapTops : wakeup[t] > 0
    /\ pc' = "schedule"
    /\ UNCHANGED <<flag, threadVars, poolVars, waitVars, runVars, curr_thread,
                   list>>

-----------------------------------------------------------------------------
(* The calls that keep the CPU, and those that lead to ThreadSchdule. *)
Library == CreateSub \/ CreateSubFails \/ AllCreated \/ AddSubThread \/ Wait
             \/ FreeSub \/ ExecFailed \/ ScheduleReclaim
Yield(t) == Sleep(t) \/ WaitIo(t) \/ RunEnds(t) \/ WakeupParent(t)
DaemonStep == (\E t \in All : EpollNotify(t)) \/ SetLastClock(0)
                \/ WakeupTimeout \/ DaemonSwitch

Next ==
    \/ \E t \in All : StartThread(t) \/ ExecAllTask(t) \/ Yield(t)
    \/ Library
    \/ ThreadSchdule
    \/ DaemonStep

Spec == Init /\ [][Next]_vars

(* Cooperative scheduling: application code calls into the scheduler or returns
   after finitely many steps, the library never stops between two of its own,
   and the clock moves on between the daemon's rounds. *)
Fairness ==
    /\ SF_vars(\E t \in All : Yield(t))
    /\ WF_vars(Library)
    /\ WF_vars(ThreadSchdule)
    /\ WF_vars(WakeupTimeout)
    /\ WF_vars(DaemonSwitch)
    /\ SF_vars(SetLastClock(1))

FairSpec == Spec /\ Fairness

-----------------------------------------------------------------------------
TypeOK ==
    /\ flag \in [All -> SUBSET Flags]
    /\ type \in [All -> Types]
    /\ parent \in [All -> All \cup {NULL}]
    /\ sublist \in [All -> SUBSET All]
    /\ wakeup \in [All -> Int]
    /\ objs \subseteq Threads
    /\ freelist \in Seq(Threads)
    /\ runlist \in Seq(All)
    /\ list \in Seq(Threads)
    /\ iolist \subseteq All /\ sleeplist \subseteq All /\ pend_list \subseteq All
    /\ total_num \in Nat /\ use_num \in Nat /\ waitnum \in Nat
    /\ curr_thread \in All
    /\ pc \in Points

Elems(s) == {s[i] : i \in DOMAIN s}
Distinct(s) == \A i, j \in DOMAIN s : s[i] = s[j] => i = j

(* The flag word of a thread tells exactly the queues it is linked into, and no
   queue links a thread twice: what every ASSERT in InsertSleep ... RemovePend
   relies on. *)
FlagsMatchLists ==
    /\ \A t \in All :
          /\ HasFlag(t, "FREE_LIST") <=> t \in Elems(freelist)
          /\ HasFlag(t, "RUN_LIST") <=> t \in Elems(runlist)
          /\ HasFlag(t, "SLEEP_LIST") <=> t \in sleeplist
          /\ HasFlag(t, "IO_LIST") <=> t \in iolist
          /\ HasFlag(t, "PEND_LIST") <=> t \in pend_list
          /\ HasFlag(t, "SUB_LIST") <=> parent[t] # NULL
    /\ Distinct(freelist) /\ Distinct(runlist)

(* The places a thread other than the daemon can be in. *)
Places == <<Elems(freelist), Elems(runlist), sleeplist, pend_list, Elems(list),
            IF pc = "schedule" THEN {} ELSE {curr_thread}>>

(* No thread is lost and none is scheduled twice: every object but the daemon is
   in exactly one place from which it can go on. *)
OnePlace ==
    /\ \A i, j \in DOMAIN Places : i # j => Places[i] \cap Places[j] = {}
    /\ (UNION {Places[i] : i \in DOMAIN Places}) \ {Daemon}
          = (objs \cup {Primo}) \ {Daemon}
    /\ iolist \subseteq sleeplist

(* A blocked parent always has a live sub thread left to wake it; sub threads
   know the parent that counts them. *)
JoinConsistent ==
    /\ \A p, s \in All : s \in sublist[p] <=> parent[s] = p
    /\ \A p \in pend_list : sublist[p] # {}
    /\ \A s \in All : parent[s] # NULL =>
          /\ type[s] = "SUB_THREAD"
          /\ s \in objs /\ ~HasFlag(s, "FREE_LIST")
          /\ parent[s] \in pend_list \/ (parent[s] = curr_thread /\ pc = "adding")

(* The counters the pool decides by are the sizes they stand for, and the pool
   respects its quota and its reserve. *)
PoolCounts ==
    /\ total_num = Cardinality(objs)
    /\ use_num = Cardinality(objs \ Elems(freelist))
    /\ waitnum = Len(runlist)
    /\ Len(freelist) <= DefaultThreadNum
    /\ total_num <= MaxNum \/ total_num <= DefaultThreadNum

(* The thread whose stack is in use is never destroyed, although it returns
   itself to the pool before it leaves that stack. *)
StackAlive == curr_thread \in objs \cup {Primo}

(* No sleeper is overdue by more than the time spent outside epoll_wait. *)
NoOversleep == \A t \in sleeplist : wakeup[t] >= -MaxLag

-----------------------------------------------------------------------------
(* The private data and the message of a request hang on its root thread
   (mt_get_msg_private, CSyncFrame::GetCurrentMsg).  While application code runs
   in a micro thread, the walk up from it ends at a live thread that is no
   sub thread, so GetRootThread never has to fall back on an orphan, and that
   thread is the running one or waits for its sub threads: it can neither end
   nor be freed under them.  In the primordial thread there is no root. *)
RootThreadLive ==
    pc = "user" /\ curr_thread # Primo =>
        LET root == GetRootThread
        IN  /\ root \in objs \cup {Primo}
            /\ type[root] # "SUB_THREAD"
            /\ ~HasFlag(root, "FREE_LIST")
            /\ root = curr_thread \/ root \in pend_list

(* The run queue starves no one: a thread made runable gets the CPU. *)
RunnableRuns ==
    \A t \in All : HasFlag(t, "RUN_LIST") ~> (curr_thread = t /\ pc = "user")

(* A thread that sleeps or waits for I/O runs again, by its timeout at the
   latest.  The daemon gets the CPU only when the run queue is empty, so this
   needs an application that does not keep the queue filled by starting threads
   for ever. *)
SleeperRuns ==
    []<>(curr_thread = Daemon) =>
        \A t \in All : t \in sleeplist ~> (curr_thread = t /\ pc = "user")

(* mt_exec_all_task returns once each of its tasks has ended. *)
JoinReturns ==
    \A t \in All :
        (\A s \in All : []<>(parent[s] # t))
            => (t \in pend_list ~> (curr_thread = t /\ pc = "user"))

(* Whatever a thread waits for, its time, an event or its tasks, it runs again. *)
WaitersRun == SleeperRuns /\ JoinReturns

-----------------------------------------------------------------------------
(* The tasks of ForkJoin are the threads that run application code. *)
stage ==
    [t \in All \ {Daemon} |->
        CASE t \in Elems(runlist) -> "ready"
          [] t \in sleeplist -> "waiting"
          [] t \in pend_list -> "joining"
          [] t = curr_thread /\ pc \in {"user", "creating", "adding", "cleanup"}
                -> "running"
          [] OTHER -> "free"]

FJ == INSTANCE ForkJoin WITH
          Tasks <- All \ {Daemon}, Main <- Primo, queue <- runlist,
          children <- [t \in All \ {Daemon} |-> sublist[t]]

(* The scheduler implements fork and join: tasks run in the order in which they
   became ready, a parent goes on when all its sub threads have ended and not
   before, and a call of mt_exec_all_task that fails has run none of them. *)
ImplementsForkJoin == FJ!Spec
=============================================================================
