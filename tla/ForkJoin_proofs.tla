--------------------------- MODULE ForkJoin_proofs ---------------------------
(* The scheduler implements ForkJoin, for every pool size, quota, reserve, number
   of tasks and timeout: each of its steps is a step of ForkJoin, or changes
   nothing that a task could notice. *)
EXTENDS MicroThread_proofs

Tasks == All \ {Daemon}
Children == [t \in Tasks |-> sublist[t]]

(* The stage of a task, as its flag word tells it; cur: the task runs on its own
   behalf. *)
StageOf(f, cur) ==
    IF "RUN_LIST" \in f THEN "ready"
    ELSE IF "SLEEP_LIST" \in f THEN "waiting"
    ELSE IF "PEND_LIST" \in f THEN "joining"
    ELSE IF cur THEN "running" ELSE "free"

InCode == {"user", "creating", "adding", "cleanup"}
InCodeOf(t) == t = curr_thread /\ pc \in InCode

-----------------------------------------------------------------------------
(* The refinement mapping, in this state and in the next. *)
LEMMA StageValue ==
    ASSUME IInv
    PROVE  stage = [t \in Tasks |-> StageOf(flag[t], InCodeOf(t))]
<1>1. \A t \in Tasks :
        /\ t \in Elems(runlist) <=> "RUN_LIST" \in flag[t]
        /\ t \in sleeplist <=> "SLEEP_LIST" \in flag[t]
        /\ t \in pend_list <=> "PEND_LIST" \in flag[t]
  BY DEF IInv, FlagsMatchLists, HasFlag, Tasks
<1>2. \A t \in Tasks :
        /\ "RUN_LIST" \in flag[t] => flag[t] \subseteq {"RUN_LIST", "SUB_LIST"}
        /\ "SLEEP_LIST" \in flag[t] => "PEND_LIST" \notin flag[t]
        /\ InCodeOf(t) => flag[t] \subseteq {"SUB_LIST"}
  BY DEF IInv, Exclusive, CurrentUnlinked, HasFlag, InCodeOf, InCode, Tasks
<1> QED BY <1>1, <1>2 DEF stage, StageOf, InCodeOf, InCode, Tasks

LEMMA StageValueNext ==
    ASSUME IInv'
    PROVE  stage' = [t \in Tasks |-> StageOf(flag'[t], InCodeOf(t)')]
<1>1. \A t \in Tasks :
        /\ t \in Elems(runlist)' <=> "RUN_LIST" \in flag'[t]
        /\ t \in sleeplist' <=> "SLEEP_LIST" \in flag'[t]
        /\ t \in pend_list' <=> "PEND_LIST" \in flag'[t]
  BY DEF IInv, FlagsMatchLists, HasFlag, Tasks
<1>2. \A t \in Tasks :
        /\ "RUN_LIST" \in flag'[t] => flag'[t] \subseteq {"RUN_LIST", "SUB_LIST"}
        /\ "SLEEP_LIST" \in flag'[t] => "PEND_LIST" \notin flag'[t]
        /\ InCodeOf(t)' => flag'[t] \subseteq {"SUB_LIST"}
  BY DEF IInv, Exclusive, CurrentUnlinked, HasFlag, InCodeOf, InCode, Tasks
<1> QED BY <1>1, <1>2 DEF stage, StageOf, InCodeOf, InCode, Tasks

(* A step that changes the stage of one task. *)
LEMMA StageChange ==
    ASSUME IInv, IInv', NEW u \in Tasks, NEW v,
           StageOf(flag'[u], InCodeOf(u)') = v,
           \A t \in Tasks \ {u} :
              StageOf(flag'[t], InCodeOf(t)') = StageOf(flag[t], InCodeOf(t))
    PROVE  stage' = [stage EXCEPT ![u] = v]
<1> DEFINE old(t) == StageOf(flag[t], InCodeOf(t))
           new(t) == StageOf(flag'[t], InCodeOf(t)')
<1>1. stage = [t \in Tasks |-> old(t)] /\ stage' = [t \in Tasks |-> new(t)]
  BY StageValue, StageValueNext
<1>2. new(u) = v /\ \A t \in Tasks \ {u} : new(t) = old(t)
  OBVIOUS
<1> HIDE DEF old, new
<1> QED BY <1>1, <1>2

(* A step that a task cannot notice. *)
LEMMA Unnoticed ==
    ASSUME IInv, IInv', UNCHANGED <<sublist, runlist>>,
           \A t \in Tasks :
              StageOf(flag'[t], InCodeOf(t)') = StageOf(flag[t], InCodeOf(t))
    PROVE  UNCHANGED FJ!vars
<1> DEFINE old(t) == StageOf(flag[t], InCodeOf(t))
           new(t) == StageOf(flag'[t], InCodeOf(t)')
<1>1. stage = [t \in Tasks |-> old(t)] /\ stage' = [t \in Tasks |-> new(t)]
  BY StageValue, StageValueNext
<1>2. \A t \in Tasks : new(t) = old(t)
  OBVIOUS
<1> HIDE DEF old, new
<1>3. stage' = stage
  BY <1>1, <1>2
<1> QED BY <1>3 DEF FJ!vars, Tasks

(* Only a parent that waits, or attaches sub threads, has children. *)
LEMMA Childless ==
    ASSUME IInv, NEW t \in All, ~HasFlag(t, "PEND_LIST"),
           pc # "adding" \/ t # curr_thread
    PROVE  sublist[t] = {}
<1>1. \A s \in All : s \notin sublist[t]
  BY PoolAssumption DEF IInv, JoinInv, All
<1> QED BY <1>1 DEF IInv, TypeOK

(* The thread AllocThread returns is a task, free and not running. *)
LEMMA Allocated ==
    ASSUME IInv, pc # "schedule", NEW new \in Threads, AllocThread(new)
    PROVE  /\ new \in Tasks /\ new # curr_thread
           /\ flag[new] \subseteq {"FREE_LIST"}
<1>a. TypeOK /\ FlagsMatchLists /\ Exclusive /\ CurrentUnlinked /\ DaemonInv /\ ObjsInv
  BY DEF IInv
<1>1. CASE freelist # <<>> /\ new = Head(freelist)
  <2>1. new \in Elems(freelist)
    BY <1>1, <1>a, TailElems DEF TypeOK
  <2>2. flag[new] = {"FREE_LIST"}
    BY <2>1, <1>a DEF FlagsMatchLists, Exclusive, HasFlag, All
  <2> QED BY <2>2, <1>a DEF DaemonInv, CurrentUnlinked, Tasks, All
<1>2. CASE new \notin objs
  BY <1>2, <1>a DEF ObjsInv, DaemonInv, Tasks, All
<1> QED BY <1>1, <1>2 DEF AllocThread

-----------------------------------------------------------------------------
(* One lemma for each kind of step. *)

LEMMA StartRefines ==
    ASSUME IInv, IInv', NEW t \in All, StartThread(t)
    PROVE  FJ!Next
<1>1. PICK new \in Threads :
        /\ AllocThread(new)
        /\ flag' = SetFlag(UnsetFlag(flag, new, "FREE_LIST"), new, "RUN_LIST")
        /\ InsertRunable(new)
  BY DEF StartThread
<1>2. new \in Tasks /\ new # curr_thread /\ flag[new] \subseteq {"FREE_LIST"}
  BY <1>1, Allocated DEF StartThread, Running
<1>3. t = curr_thread /\ pc = "user" /\ t \in Tasks /\ flag[t] \subseteq {"SUB_LIST"}
  BY DEF StartThread, Running, IInv, DaemonInv, CurrentUnlinked, Tasks
<1>4. UNCHANGED <<sublist, curr_thread, pc>>
  BY DEF StartThread, threadVars
<1>5. flag \in [All -> SUBSET Flags] /\ Tasks \subseteq All
  BY DEF IInv, TypeOK, Tasks
<1>6. /\ "RUN_LIST" \in flag'[new]
      /\ \A u \in Tasks \ {new} : flag'[u] = flag[u]
  BY <1>1, <1>2, <1>5 DEF SetFlag, UnsetFlag
<1>7. stage' = [stage EXCEPT ![new] = "ready"]
  BY <1>2, <1>4, <1>6, StageChange DEF StageOf, InCodeOf
<1>8. stage[t] = "running" /\ stage[new] = "free"
  BY <1>2, <1>3, StageValue DEF StageOf, InCodeOf, InCode
<1>9. FJ!Start(t, new)
  BY <1>1, <1>4, <1>7, <1>8 DEF FJ!Start, InsertRunable
<1> QED BY <1>2, <1>3, <1>9 DEF FJ!Next, Tasks

LEMMA SuspendRefines ==
    ASSUME IInv, IInv', NEW t \in All, Sleep(t) \/ WaitIo(t)
    PROVE  FJ!Next
<1>1. /\ t = curr_thread /\ pc = "user" /\ pc' = "schedule"
      /\ UNCHANGED <<sublist, runlist, curr_thread>>
  BY DEF Sleep, WaitIo, Running, threadVars, runVars
<1>2. t \in Tasks /\ flag[t] \subseteq {"SUB_LIST"} /\ sublist[t] = {}
  BY <1>1, Childless DEF IInv, DaemonInv, CurrentUnlinked, Tasks, HasFlag
<1>3. flag \in [All -> SUBSET Flags] /\ Tasks \subseteq All
  BY DEF IInv, TypeOK, Tasks
<1>4. /\ "SLEEP_LIST" \in flag'[t] /\ "RUN_LIST" \notin flag'[t]
      /\ \A u \in Tasks \ {t} : flag'[u] = flag[u]
  <2>1. CASE Sleep(t)
    BY <2>1, <1>2, <1>3 DEF Sleep, SetFlag
  <2>2. CASE WaitIo(t)
    BY <2>2, <1>2, <1>3 DEF WaitIo, SetFlag
  <2> QED BY <2>1, <2>2
<1>5. stage' = [stage EXCEPT ![t] = "waiting"]
  BY <1>1, <1>2, <1>4, StageChange DEF StageOf, InCodeOf, InCode
<1>6. stage[t] = "running"
  BY <1>1, <1>2, StageValue DEF StageOf, InCodeOf, InCode
<1>7. FJ!Suspend(t)
  BY <1>1, <1>2, <1>5, <1>6 DEF FJ!Suspend, Tasks
<1> QED BY <1>2, <1>7 DEF FJ!Next, Tasks

(* The loops of mt_exec_all_task, its failure, the clock, the daemon's switches:
   nothing a task could notice, while the running thread goes on. *)
LEMMA ControlRefines ==
    ASSUME IInv, IInv', UNCHANGED <<flag, sublist, runlist, curr_thread>>,
           pc \in InCode <=> pc' \in InCode
    PROVE  UNCHANGED FJ!vars
  BY Unnoticed DEF InCodeOf

LEMMA CreateSubRefines ==
    ASSUME IInv, IInv', CreateSub
    PROVE  UNCHANGED FJ!vars
<1>1. PICK sub \in Threads :
        AllocThread(sub) /\ flag' = UnsetFlag(flag, sub, "FREE_LIST")
  BY DEF CreateSub
<1>2. sub \in Tasks /\ sub # curr_thread /\ flag[sub] \subseteq {"FREE_LIST"}
  BY <1>1, Allocated DEF CreateSub
<1>3. flag \in [All -> SUBSET Flags] /\ Tasks \subseteq All
  BY DEF IInv, TypeOK, Tasks
<1>4. flag'[sub] = {} /\ \A u \in Tasks \ {sub} : flag'[u] = flag[u]
  BY <1>1, <1>2, <1>3 DEF UnsetFlag
<1>5. UNCHANGED <<sublist, runlist, curr_thread, pc>>
  BY DEF CreateSub, runVars
<1> QED BY <1>2, <1>4, <1>5, Unnoticed DEF StageOf, InCodeOf

LEMMA ForkRefines ==
    ASSUME IInv, IInv', AddSubThread
    PROVE  FJ!Next
<1> DEFINE sub == Head(list)
<1>1. /\ pc = "adding" /\ list # <<>>
      /\ sublist' = [sublist EXCEPT ![curr_thread] = @ \cup {sub}]
      /\ flag' = SetFlag(SetFlag(flag, sub, "SUB_LIST"), sub, "RUN_LIST")
      /\ runlist' = Append(runlist, sub)
      /\ UNCHANGED <<curr_thread, pc>>
  BY DEF AddSubThread, InsertRunable
<1>2. sub \in Elems(list)
  BY <1>1, TailElems DEF IInv, TypeOK
<1>3. sub \in Tasks /\ sub # curr_thread /\ flag[sub] = {}
  BY <1>2 DEF IInv, CreatedInv, TypeOK, Tasks, All
<1>4. curr_thread \in Tasks /\ flag[curr_thread] \subseteq {"SUB_LIST"}
  BY <1>1 DEF IInv, TypeOK, DaemonInv, CurrentUnlinked, Tasks
<1>5. /\ flag \in [All -> SUBSET Flags] /\ sublist \in [All -> SUBSET All]
      /\ Tasks \subseteq All
  BY DEF IInv, TypeOK, Tasks
<1> HIDE DEF sub
<1>6. "RUN_LIST" \in flag'[sub] /\ \A u \in Tasks \ {sub} : flag'[u] = flag[u]
  BY <1>1, <1>3, <1>5 DEF SetFlag
<1>7. stage' = [stage EXCEPT ![sub] = "ready"]
  BY <1>1, <1>3, <1>6, StageChange DEF StageOf, InCodeOf
<1>8. stage[curr_thread] = "running" /\ stage[sub] = "free"
  BY <1>1, <1>3, <1>4, StageValue DEF StageOf, InCodeOf, InCode
<1>9. Children' = [Children EXCEPT ![curr_thread] = @ \cup {sub}]
  BY <1>1, <1>4, <1>5 DEF Children
<1>10. PICK t \in Tasks, u \in Tasks : t = curr_thread /\ u = sub
  BY <1>3, <1>4
<1>11. FJ!Fork(t, u)
  BY <1>1, <1>7, <1>8, <1>9, <1>10 DEF FJ!Fork, Children, Tasks
<1> QED BY <1>11 DEF FJ!Next, Tasks

LEMMA JoinRefines ==
    ASSUME IInv, IInv', Wait
    PROVE  FJ!Next
<1> DEFINE t == curr_thread
<1>1. /\ pc = "adding" /\ list = <<>> /\ pc' = "schedule"
      /\ flag' = SetFlag(flag, t, "PEND_LIST")
      /\ UNCHANGED <<sublist, runlist, curr_thread>>
  BY DEF Wait, threadVars, runVars
<1>2. t \in Tasks /\ flag[t] \subseteq {"SUB_LIST"} /\ sublist[t] # {}
  BY <1>1 DEF IInv, TypeOK, DaemonInv, CurrentUnlinked, JoinInv, Tasks
<1>3. flag \in [All -> SUBSET Flags] /\ Tasks \subseteq All
  BY DEF IInv, TypeOK, Tasks
<1>4. /\ flag'[t] \subseteq {"SUB_LIST", "PEND_LIST"} /\ "PEND_LIST" \in flag'[t]
      /\ \A u \in Tasks \ {t} : flag'[u] = flag[u]
  BY <1>1, <1>2, <1>3 DEF SetFlag
<1>5. stage' = [stage EXCEPT ![t] = "joining"]
  BY <1>1, <1>2, <1>4, StageChange DEF StageOf, InCodeOf, InCode
<1>6. stage[t] = "running"
  BY <1>1, <1>2, StageValue DEF StageOf, InCodeOf, InCode
<1>7. FJ!Join(t)
  BY <1>1, <1>2, <1>5, <1>6 DEF FJ!Join, Tasks
<1> QED BY <1>2, <1>7 DEF FJ!Next, Tasks

(* A task that no parent waits for ends. *)
LEMMA EndRefines ==
    ASSUME IInv, IInv', NEW t \in All, RunEnds(t)
    PROVE  FJ!Next
<1>1. /\ t = curr_thread /\ pc = "user" /\ pc' = "reclaim" /\ t # Primo
      /\ UNCHANGED <<flag, sublist, runlist, curr_thread>>
  BY DEF RunEnds, Running, threadVars, runVars
<1>2. t \in Tasks /\ flag[t] \subseteq {"SUB_LIST"} /\ sublist[t] = {}
  BY <1>1, Childless DEF IInv, DaemonInv, CurrentUnlinked, Tasks, HasFlag
<1>3. \A p \in Tasks : t \notin sublist[p]
  BY PoolAssumption DEF RunEnds, IInv, JoinInv, Tasks, All
<1>4. stage' = [stage EXCEPT ![t] = "free"]
  BY <1>1, <1>2, StageChange DEF StageOf, InCodeOf, InCode
<1>5. stage[t] = "running"
  BY <1>1, <1>2, StageValue DEF StageOf, InCodeOf, InCode
<1>6. FJ!End(t)
  BY <1>1, <1>2, <1>3, <1>4, <1>5 DEF FJ!End, Tasks
<1> QED BY <1>2, <1>6 DEF FJ!Next, Tasks

(* A sub thread ends, and its parent goes on if it was the last. *)
LEMMA EndChildRefines ==
    ASSUME IInv, IInv', NEW t \in All, WakeupParent(t)
    PROVE  FJ!Next
<1> DEFINE p == parent[t]
<1>1. /\ t = curr_thread /\ pc = "user" /\ pc' = "reclaim" /\ p # NULL
      /\ sublist' = [sublist EXCEPT ![p] = @ \ {t}]
      /\ UNCHANGED curr_thread
      /\ IF sublist[p] \ {t} = {}
         THEN /\ flag' = SetFlag(UnsetFlag(UnsetFlag(flag, t, "SUB_LIST"),
                                           p, "PEND_LIST"), p, "RUN_LIST")
              /\ runlist' = Append(runlist, p)
         ELSE flag' = UnsetFlag(flag, t, "SUB_LIST") /\ UNCHANGED runlist
  BY DEF WakeupParent, Running, LastSub, InsertRunable, runVars
<1>2. t \in Tasks /\ flag[t] \subseteq {"SUB_LIST"} /\ sublist[t] = {}
  BY <1>1, Childless DEF IInv, DaemonInv, CurrentUnlinked, Tasks, HasFlag
<1>3. /\ p \in Tasks /\ t \in sublist[p] /\ p # t
      /\ flag[p] \subseteq {"PEND_LIST", "SUB_LIST"} /\ "PEND_LIST" \in flag[p]
  BY <1>1, <1>2, PoolAssumption, SMTT(40)
     DEF IInv, TypeOK, JoinInv, Exclusive, DaemonInv, HasFlag, Tasks, All
<1>4. /\ flag \in [All -> SUBSET Flags] /\ sublist \in [All -> SUBSET All]
      /\ Tasks \subseteq All
  BY DEF IInv, TypeOK, Tasks
<1>5. stage[t] = "running" /\ stage[p] = "joining"
  BY <1>1, <1>2, <1>3, StageValue DEF StageOf, InCodeOf, InCode
<1>6. Children' = [Children EXCEPT ![p] = @ \ {t}]
  BY <1>1, <1>3, <1>4 DEF Children
<1>7. PICK q \in Tasks : q = p
  BY <1>3
<1> HIDE DEF p
<1>8. CASE sublist[p] \ {t} = {}
  <2>1. sublist[q] = {t}
    BY <1>3, <1>4, <1>7, <1>8
  <2>2. /\ flag'[t] = {} /\ "RUN_LIST" \in flag'[q]
        /\ \A u \in Tasks \ {t, q} : flag'[u] = flag[u]
    BY <1>1, <1>2, <1>3, <1>4, <1>7, <1>8 DEF SetFlag, UnsetFlag
  <2> DEFINE old(u) == StageOf(flag[u], InCodeOf(u))
             new(u) == StageOf(flag'[u], InCodeOf(u)')
  <2>3. new(t) = "free" /\ new(q) = "ready"
    BY <2>2, <1>1 DEF StageOf, InCodeOf, InCode
  <2>4. \A u \in Tasks \ {t, q} : new(u) = old(u)
    BY <2>2, <1>1 DEF StageOf, InCodeOf
  <2>5. stage = [u \in Tasks |-> old(u)] /\ stage' = [u \in Tasks |-> new(u)]
    BY StageValue, StageValueNext
  <2> HIDE DEF old, new
  <2>6. stage' = [stage EXCEPT ![t] = "free", ![q] = "ready"]
    BY <2>3, <2>4, <2>5, <1>2, <1>3, <1>7
  <2>7. FJ!EndChild(t, q)
    BY <2>1, <2>6, <1>1, <1>2, <1>3, <1>5, <1>6, <1>7, <1>8
       DEF FJ!EndChild, Children, Tasks
  <2> QED BY <2>7, <1>2 DEF FJ!Next, Tasks
<1>9. CASE sublist[p] \ {t} # {}
  <2>1. flag'[t] = {} /\ \A u \in Tasks \ {t} : flag'[u] = flag[u]
    BY <1>1, <1>2, <1>4, <1>9 DEF UnsetFlag
  <2>2. stage' = [stage EXCEPT ![t] = "free"]
    BY <2>1, <1>1, <1>2, StageChange DEF StageOf, InCodeOf, InCode
  <2>3. sublist[q] # {t}
    BY <1>7, <1>9
  <2>4. FJ!EndChild(t, q)
    BY <2>2, <2>3, <1>1, <1>2, <1>3, <1>5, <1>6, <1>7, <1>9
       DEF FJ!EndChild, Children, Tasks
  <2> QED BY <2>4, <1>2 DEF FJ!Next, Tasks
<1> QED BY <1>8, <1>9

(* A thread goes back to the pool: its task has ended before, or never began. *)
LEMMA FreeRefines ==
    ASSUME IInv, IInv', FreeSub \/ ScheduleReclaim
    PROVE  UNCHANGED FJ!vars
<1>1. PICK t \in objs :
        /\ FreeThread(t) /\ flag[t] = {} /\ t \in Tasks
        /\ t = curr_thread => pc = "reclaim"
        /\ pc' = pc \/ (pc = "reclaim" /\ pc' = "schedule")
        /\ UNCHANGED <<runlist, curr_thread>>
  <2>1. CASE FreeSub
    <3>1. /\ pc = "cleanup" /\ list # <<>> /\ FreeThread(Head(list))
          /\ UNCHANGED <<runlist, curr_thread, pc>>
      BY <2>1 DEF FreeSub, runVars
    <3>2. Head(list) \in Elems(list)
      BY <3>1, TailElems DEF IInv, TypeOK
    <3>3. /\ Head(list) \in objs /\ flag[Head(list)] = {}
          /\ Head(list) # Daemon /\ Head(list) # curr_thread
      BY <3>2 DEF IInv, CreatedInv
    <3> QED BY <3>1, <3>3 DEF IInv, TypeOK, Tasks, All
  <2>2. CASE ScheduleReclaim
    <3>1. /\ pc = "reclaim" /\ FreeThread(curr_thread) /\ pc' = "schedule"
          /\ UNCHANGED <<runlist, curr_thread>>
      BY <2>2 DEF ScheduleReclaim, runVars
    <3>2. /\ curr_thread \in All /\ curr_thread # Primo
          /\ parent[curr_thread] = NULL /\ flag[curr_thread] \subseteq {"SUB_LIST"}
      BY <3>1 DEF IInv, CurrentUnlinked, TypeOK
    <3>3. flag[curr_thread] = {}
      BY <3>2 DEF IInv, FlagsMatchLists, HasFlag
    <3>4. curr_thread \in objs /\ curr_thread # Daemon
      BY <3>1, <3>2 DEF IInv, ObjsInv, All, DaemonInv
    <3> QED BY <3>1, <3>2, <3>3, <3>4 DEF Tasks
  <2> QED BY <2>1, <2>2
<1>2. PICK v \in SUBSET Threads :
        /\ t \notin v /\ \A u \in v : flag[u] = {"FREE_LIST"}
        /\ flag' = [u \in All |-> CASE u \in v -> {}
                                    [] u = t -> {"FREE_LIST"}
                                    [] OTHER -> flag[u]]
        /\ sublist' = [sublist EXCEPT ![t] = {}]
  BY <1>1, FreePool
<1>3. sublist' = sublist
  <2>1. sublist[t] = {}
    BY <1>1, Childless DEF HasFlag, Tasks
  <2> QED BY <1>1, <1>2, <2>1 DEF IInv, TypeOK, Tasks
<1>4. \A u \in Tasks :
         /\ flag'[u] = flag[u]
            \/ (flag[u] \subseteq {"FREE_LIST"} /\ flag'[u] \subseteq {"FREE_LIST"})
         /\ InCodeOf(u)' <=> InCodeOf(u)
  BY <1>1, <1>2 DEF Tasks, InCodeOf, InCode
<1>5. \A u \in Tasks :
         StageOf(flag'[u], InCodeOf(u)') = StageOf(flag[u], InCodeOf(u))
  BY <1>4 DEF StageOf
<1> QED BY <1>1, <1>3, <1>5, Unnoticed

(* A thread's event, or its time, has come. *)
LEMMA WakeRefines ==
    ASSUME IInv, IInv', WakeupTimeout \/ \E t \in All : EpollNotify(t)
    PROVE  FJ!Next
<1>1. PICK t \in All :
          /\ pc \in {"dispatch", "expire"}
          /\ HasFlag(t, "SLEEP_LIST")
          /\ Wake(t)
          /\ UNCHANGED <<sublist, curr_thread, pc>>
  <2>1. CASE WakeupTimeout
    BY <2>1 DEF WakeupTimeout, HeapTops, threadVars, IInv, FlagsMatchLists, TypeOK
  <2>2. CASE \E t \in All : EpollNotify(t)
    BY <2>2 DEF EpollNotify, threadVars, IInv, Exclusive
  <2> QED BY <2>1, <2>2
<1>2. t \in Tasks
  BY <1>1 DEF IInv, DaemonInv, HasFlag, Tasks
<1>3. flag \in [All -> SUBSET Flags] /\ Tasks \subseteq All
  BY DEF IInv, TypeOK, Tasks
<1>4. /\ "RUN_LIST" \in flag'[t]
      /\ \A u \in Tasks \ {t} : flag'[u] = flag[u]
  BY <1>1, <1>2, <1>3 DEF Wake, Woken
<1>5. stage' = [stage EXCEPT ![t] = "ready"]
  BY <1>1, <1>2, <1>4, StageChange DEF StageOf, InCodeOf
<1>6. "RUN_LIST" \notin flag[t]
  BY <1>1, <1>2, <1>3 DEF IInv, Exclusive, HasFlag
<1>7. stage[t] = "waiting"
  BY <1>1, <1>2, <1>6, StageValue DEF StageOf, HasFlag
<1>8. FJ!Wake(t)
  BY <1>1, <1>5, <1>7 DEF FJ!Wake, Wake, InsertRunable
<1> QED BY <1>2, <1>8 DEF FJ!Next, Tasks

(* The head of the run queue gets the CPU, or the daemon, which is no task. *)
LEMMA DispatchRefines ==
    ASSUME IInv, IInv', ThreadSchdule
    PROVE  FJ!Next \/ UNCHANGED FJ!vars
<1>1. pc = "schedule" /\ UNCHANGED sublist
  BY DEF ThreadSchdule, threadVars
<1>2. CASE runlist = <<>>
  <2>1. pc' = "dispatch" /\ UNCHANGED <<flag, runlist>>
    BY <1>2 DEF ThreadSchdule, runVars
  <2>2. \A t \in Tasks : ~InCodeOf(t) /\ ~InCodeOf(t)'
    BY <1>1, <2>1 DEF InCodeOf, InCode
  <2> QED BY <1>1, <2>1, <2>2, Unnoticed DEF StageOf
<1>3. CASE runlist # <<>>
  <2>1. PICK h \in All : h = Head(runlist) /\ h \in Elems(runlist)
    BY <1>3, TailElems DEF IInv, TypeOK
  <2>2. /\ curr_thread' = h /\ pc' = "user"
        /\ flag' = UnsetFlag(flag, h, "RUN_LIST")
        /\ runlist' = Tail(runlist)
    BY <1>3, <2>1 DEF ThreadSchdule
  <2>3. /\ "RUN_LIST" \in flag[h] /\ flag[h] \subseteq {"RUN_LIST", "SUB_LIST"}
        /\ h \in Tasks
    BY <2>1 DEF IInv, FlagsMatchLists, Exclusive, HasFlag, DaemonInv, Tasks
  <2>4. flag \in [All -> SUBSET Flags] /\ Tasks \subseteq All
    BY DEF IInv, TypeOK, Tasks
  <2>5. /\ flag'[h] \subseteq {"SUB_LIST"}
        /\ \A u \in Tasks \ {h} : flag'[u] = flag[u]
    BY <2>2, <2>3, <2>4 DEF UnsetFlag
  <2>6. \A u \in Tasks : ~InCodeOf(u) /\ (InCodeOf(u)' <=> u = h)
    BY <1>1, <2>2 DEF InCodeOf, InCode
  <2>7. stage' = [stage EXCEPT ![h] = "running"]
    BY <2>3, <2>5, <2>6, StageChange DEF StageOf
  <2>8. \A u \in Tasks : stage[u] # "running"
    BY <2>6, StageValue DEF StageOf
  <2>9. FJ!Dispatch
    BY <1>1, <1>3, <2>1, <2>2, <2>7, <2>8 DEF FJ!Dispatch, Tasks
  <2> QED BY <2>9 DEF FJ!Next
<1> QED BY <1>2, <1>3

-----------------------------------------------------------------------------
LEMMA InitRefines == Init => FJ!Init
<1> SUFFICES ASSUME Init PROVE FJ!Init
  OBVIOUS
<1>1. IInv
  BY InitInv
<1>2. \A t \in Tasks : flag[t] \subseteq {"FREE_LIST"} /\ sublist[t] = {}
  BY DEF Init, Tasks
<1>3. \A t \in Tasks :
         StageOf(flag[t], InCodeOf(t)) = IF t = Primo THEN "running" ELSE "free"
  BY <1>2 DEF StageOf, InCodeOf, InCode, Init
<1>4. stage = [t \in Tasks |-> IF t = Primo THEN "running" ELSE "free"]
  BY <1>1, <1>3, StageValue
<1> QED BY <1>2, <1>4 DEF FJ!Init, Init, Tasks

LEMMA StepRefines == IInv /\ IInv' /\ [Next]_vars => [FJ!Next]_FJ!vars
<1> SUFFICES ASSUME IInv, IInv', [Next]_vars PROVE FJ!Next \/ UNCHANGED FJ!vars
  OBVIOUS
<1>1. ASSUME NEW t \in All, StartThread(t) \/ ExecAllTask(t) \/ Yield(t)
      PROVE  FJ!Next \/ UNCHANGED FJ!vars
  <2>1. CASE StartThread(t)
    BY <2>1, StartRefines
  <2>2. CASE ExecAllTask(t)
    BY <2>2, ControlRefines DEF ExecAllTask, Running, InCode, threadVars, runVars
  <2>3. CASE Sleep(t) \/ WaitIo(t)
    BY <2>3, SuspendRefines
  <2>4. CASE RunEnds(t)
    BY <2>4, EndRefines
  <2>5. CASE WakeupParent(t)
    BY <2>5, EndChildRefines
  <2> QED BY <1>1, <2>1, <2>2, <2>3, <2>4, <2>5 DEF Yield
<1>2. CASE Library
  <2>1. CASE CreateSubFails \/ AllCreated \/ ExecFailed
    BY <2>1, ControlRefines
       DEF CreateSubFails, AllCreated, ExecFailed, InCode, threadVars, runVars
  <2> QED BY <1>2, <2>1, CreateSubRefines, ForkRefines, JoinRefines, FreeRefines
          DEF Library
<1>3. CASE ThreadSchdule
  BY <1>3, DispatchRefines
<1>4. CASE DaemonStep
  <2>1. CASE SetLastClock(0) \/ DaemonSwitch
    BY <2>1, ControlRefines DEF SetLastClock, DaemonSwitch, InCode, threadVars, runVars
  <2> QED BY <1>4, <2>1, WakeRefines DEF DaemonStep
<1>5. CASE UNCHANGED vars
  BY <1>5, ControlRefines DEF vars, threadVars, runVars
<1> QED BY <1>1, <1>2, <1>3, <1>4, <1>5 DEF Next

(* The scheduler implements fork and join for every pool, quota and reserve:
   tasks run in the order in which they became ready; the sub thread that ends
   last, and no other, makes its parent ready; a call of mt_exec_all_task that
   runs out of threads has run no task. *)
THEOREM ForkJoinImplemented == Spec => ImplementsForkJoin
<1>1. Init => FJ!Init
  BY InitRefines
<1>2. IInv /\ IInv' /\ [Next]_vars => [FJ!Next]_FJ!vars
  BY StepRefines
<1> QED BY <1>1, <1>2, Invariant, PTL DEF Spec, ImplementsForkJoin, FJ!Spec
=============================================================================
