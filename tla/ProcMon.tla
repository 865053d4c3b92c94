------------------------------ MODULE ProcMon ------------------------------
(***************************************************************************)
(* CTProcMonSrv (comm/tbase/tprocmon.cpp): the controller keeps a group of *)
(* worker processes at config.procnum.  Workers report through a System V  *)
(* message queue; the controller forks what is missing, tells surplus      *)
(* workers to exit, replaces those that died or stopped reporting, and     *)
(* replaces all of them in a hot reload.                                   *)
(*                                                                         *)
(* The controller is one thread, but kill, the sleeps and do_recv leave    *)
(* the workers time to go on between two of its steps, and do_recv calls   *)
(* process_exception, which calls do_event, which calls do_recv: stack is  *)
(* its call stack, the running function first.  Time is abstract: a report *)
(* is fresh or stale, and the delays of 15 and 30 seconds are over or not. *)
(* Process ids are never used again and are handed out in ascending order. *)
(*                                                                         *)
(* An operator named Op_Slip is Op with a slip the code could have had.    *)
(***************************************************************************)
EXTENDS Integers, Sequences, FiniteSets

CONSTANTS
  Pids,        \* the processes that may be forked
  ProcNum,     \* config.procnum, which is minprocnum_ and maxprocnum_
  Installed,   \* names of the worker programs that are installed
  Hasty,       \* may a reload be asked for while processes are missing?
  MaxKilled,   \* bound: processes that end without a word
  MaxSegvs,    \* bound: processes that end with an exception report
  MaxHangs,    \* bound: processes that stop reporting
  MaxSlow,     \* bound: delays that are over before a slow process is ready
  MaxLate,     \* bound: reports of processes that were told to exit
  MaxReloads   \* bound: hot reloads

ASSUME PidsAssumption == Pids \subseteq Nat \ {0} /\ ProcNum \in Nat \ {0}

ASSUME BoundsAssumption ==
  /\ Hasty \in BOOLEAN
  /\ {MaxKilled, MaxSegvs, MaxHangs, MaxSlow, MaxLate, MaxReloads} \subseteq Nat

VARIABLES
  life,     \* what each process is doing
  sig,      \* the signals it has been sent: "quit" (SIGUSR1), "reload" (SIGUSR2)
  born,     \* the number of reloads before it was forked
  mq,       \* the message queue
  listed,   \* the processes in bucket_
  stale,    \* those of them whose timestamp_ is older than heartbeat_
  count,    \* curprocnum_
  tag,      \* reload_tag: the processes a reload replaces
  reload,   \* reload_
  gen,      \* the number of reloads so far
  exe,      \* exefile_
  settled,  \* are 15 seconds over since adjust_proc_time?
  aged,     \* are 30 seconds over since reload_time?
  hup,      \* has the controller been sent SIGUSR2?
  stack,    \* the controller's call stack
  bounds    \* bounded counters

procs == <<life, sig, born>>
group == <<listed, stale, count>>
hot == <<tag, reload, gen, exe, aged>>
vars == <<procs, mq, group, hot, settled, hup, stack, bounds>>

PROC_RELOAD_NORMAL == 0
PROC_RELOAD_START == 1
PROC_RELOAD_WAIT_NEW == 2
PROC_RELOAD_KILLOLD == 3
PROC_RELOAD_CLEAR == 4

GROUP_UNUSED == -1

Alive == {p \in Pids : life[p] \notin {"unborn", "gone"}}

\* The same report twice in the queue is one message.
Send(p, kind) ==
  LET msg == [pid |-> p, kind |-> kind]
  IN  mq' = IF \E i \in DOMAIN mq : mq[i] = msg THEN mq ELSE Append(mq, msg)

Counted(b, max) == bounds[b] < max /\ bounds' = [bounds EXCEPT ![b] = @ + 1]

Init ==
  /\ life = [p \in Pids |-> "unborn"] /\ sig = [p \in Pids |-> {}] /\ born = [p \in Pids |-> 0]
  /\ mq = <<>>
  /\ listed = {} /\ stale = {} /\ count = 0
  /\ tag = {} /\ reload = PROC_RELOAD_NORMAL /\ gen = 0 /\ exe = "srpc_worker" /\ aged = FALSE
  /\ settled = TRUE /\ hup = FALSE /\ stack = <<>>
  /\ bounds = [b \in {"killed", "segvs", "hangs", "slow", "late", "reloads"} |-> 0]

-----------------------------------------------------------------------------
(* A worker process. *)

Become(p, from, to) == life[p] = from /\ life' = [life EXCEPT ![p] = to]

controller == <<group, hot, settled, hup, stack>>

\* The first report, before spp_handle_init is called: reserve_[0] is 1.
FirstReport(p) ==
  /\ Become(p, "forked", "init") /\ Send(p, "starting")
  /\ UNCHANGED <<sig, born, controller, bounds>>

InitDone(p) ==
  /\ Become(p, "init", "up")
  /\ UNCHANGED <<sig, born, mq, controller, bounds>>

\* The worker's loop: it reports, unless it was told to exit.  Reports that
\* change nothing are left out: those of processes that are listed and fresh,
\* and, while the controller is at work, those of the ones a reload tagged.
Report(p) ==
  /\ life[p] = "up" /\ sig[p] = {} /\ Send(p, "ready")
  /\ p \notin listed \ stale /\ (p \in tag => stack = <<>>)
  /\ UNCHANGED <<procs, controller, bounds>>

\* The signal arrives between the check for it and the report.
LateReport(p) ==
  /\ life[p] = "up" /\ sig[p] # {} /\ Send(p, "ready")
  /\ Counted("late", MaxLate)
  /\ UNCHANGED <<procs, controller>>

\* It leaves the loop, finishes its requests and exits.
Quit(p) ==
  /\ sig[p] # {} /\ Become(p, "up", "gone")
  /\ UNCHANGED <<sig, born, mq, controller, bounds>>

\* The plugin's code does not return to the loop, for a time or for ever.
Hang(p) ==
  /\ Become(p, "up", "hung") /\ Counted("hangs", MaxHangs)
  /\ UNCHANGED <<sig, born, mq, controller>>

Recover(p) ==
  /\ Become(p, "hung", "up")
  /\ UNCHANGED <<sig, born, mq, controller, bounds>>

\* SIGKILL, or exit(-1) while it starts.
Killed(p) ==
  /\ p \in Alive /\ life' = [life EXCEPT ![p] = "gone"] /\ Counted("killed", MaxKilled)
  /\ UNCHANGED <<sig, born, mq, controller>>

\* signal_handler writes its files, then reports the exception; then the
\* process dies.
Segv(p) ==
  /\ life[p] \in {"init", "up", "hung"} /\ life' = [life EXCEPT ![p] = "dumping"]
  /\ Counted("segvs", MaxSegvs)
  /\ UNCHANGED <<sig, born, mq, controller>>

ReportException(p) ==
  /\ Become(p, "dumping", "dying") /\ Send(p, "exception")
  /\ UNCHANGED <<sig, born, controller, bounds>>

Die(p) ==
  /\ Become(p, "dying", "gone")
  /\ UNCHANGED <<sig, born, mq, controller, bounds>>

-----------------------------------------------------------------------------
(* Time: the seconds that matter pass while the controller sleeps. *)

Expire(p) ==
  /\ stack = <<>> /\ p \in listed \ stale /\ life[p] # "up"
  /\ stale' = stale \cup {p}
  /\ IF life[p] = "init" THEN Counted("slow", MaxSlow) ELSE UNCHANGED bounds
  /\ UNCHANGED <<procs, mq, listed, count, hot, settled, hup, stack>>

\* Every process that was forked has been heard of.
AllHeardOf ==
  /\ mq = <<>>
  /\ \A p \in Pids : life[p] # "forked" /\ (life[p] \in {"init", "up"} => p \in listed \cup tag)

AdjustDelayPasses ==
  /\ stack = <<>> /\ ~settled /\ settled' = TRUE
  /\ IF AllHeardOf THEN UNCHANGED bounds ELSE Counted("slow", MaxSlow)
  /\ UNCHANGED <<procs, mq, group, hot, hup, stack>>

\* The old processes that do not exit are hung.
ReloadDelayPasses ==
  /\ stack = <<>> /\ reload \in {PROC_RELOAD_WAIT_NEW, PROC_RELOAD_CLEAR}
  /\ ~aged /\ aged' = TRUE
  /\ IF \/ reload = PROC_RELOAD_WAIT_NEW /\ AllHeardOf
        \/ reload = PROC_RELOAD_CLEAR /\ \A p \in tag : life[p] \in {"hung", "gone"}
     THEN UNCHANGED bounds ELSE Counted("slow", MaxSlow)
  /\ UNCHANGED <<procs, mq, group, tag, reload, gen, exe, settled, hup, stack>>

-----------------------------------------------------------------------------
(* The controller's functions and its call stack. *)

Frame(at, p, n, todo) == [at |-> at, p |-> p, n |-> n, todo |-> todo]
At(step) == stack # <<>> /\ Head(stack).at = step
Top == Head(stack)
Return == stack' = Tail(stack)
Continue(frames) == stack' = frames \o Tail(stack)

\* do_recv(0) takes any message, do_recv(pid) those of one process.
RecvAll == Frame("recv", 0, 0, {})
RecvOf(p) == Frame("recv", p, 0, {})
DoCheck == Frame("check", 0, 0, {})

\* kill: a signal to a process that no longer exists is lost.
Kill(targets, signal) ==
  sig' = [p \in Pids |-> IF p \in targets \cap Alive THEN sig[p] \cup {signal} ELSE sig[p]]

\* do_fork.  system() fails if the program is not there, or at the bound of Pids.
Fork(n) ==
  LET unborn == {p \in Pids : life[p] = "unborn"}
      next == IF exe \in Installed
              THEN {p \in unborn : Cardinality({q \in unborn : q < p}) < n} ELSE {}
  IN  /\ life' = [p \in Pids |-> IF p \in next THEN "forked" ELSE life[p]]
      /\ born' = [p \in Pids |-> IF p \in next THEN gen ELSE born[p]]

\* del_proc takes a process off the list and counts down, found or not.
Del_NotCounted(p) ==
  /\ listed' = listed \ {p} /\ stale' = stale \ {p}
  /\ UNCHANGED count
Del(p) ==
  /\ listed' = listed \ {p} /\ stale' = stale \ {p}
  /\ count' = count - 1

\* A cycle of CDefaultCtrl::realrun: run(), and again if a reload was asked for.
Run ==
  /\ stack = <<>>
  /\ stack' = <<RecvAll, DoCheck, Frame("signals", 0, 0, {})>>
  /\ UNCHANGED <<procs, mq, group, hot, settled, hup, bounds>>

\* reloadconf and pre_reload_group.  A second reload forgets the tags of the
\* first, and the group's program gets another name.
TagsOf(old) == old

CheckSignals ==
  /\ At("signals")
  /\ hup' = FALSE
  /\ IF hup
     THEN /\ tag' = TagsOf(listed) /\ reload' = PROC_RELOAD_START /\ gen' = gen + 1
          /\ exe' = "spp_worker" /\ aged' = FALSE
          /\ listed' = {} /\ stale' = {} /\ count' = 0 /\ settled' = TRUE
          /\ Continue(<<RecvAll, DoCheck>>)
     ELSE Return /\ UNCHANGED <<group, hot, settled>>
  /\ UNCHANGED <<procs, mq, bounds>>

AskReload ==
  /\ ~hup /\ hup' = TRUE /\ Counted("reloads", MaxReloads)
  /\ \/ Hasty
     \/ AllHeardOf /\ count = ProcNum /\ reload = PROC_RELOAD_NORMAL /\ stack = <<>>
  /\ UNCHANGED <<procs, mq, group, hot, settled, stack>>

\* Is a process that reports to be added to the list?
IsNew_OldToo(msg) ==
  reload = PROC_RELOAD_NORMAL \/ msg.kind # "starting"
IsNew(msg) ==
  \/ reload = PROC_RELOAD_NORMAL
  \/ msg.kind # "starting" /\ msg.pid \notin tag

\* The index of the next message do_recv takes, 0 if there is none.
NextMsg ==
  LET mine == {i \in DOMAIN mq : Top.p \in {0, mq[i].pid}}
  IN  IF mine = {} THEN 0 ELSE CHOOSE i \in mine : \A j \in mine : i <= j

Without(i) == SubSeq(mq, 1, i - 1) \o SubSeq(mq, i + 1, Len(mq))

\* A report of a process in a group that find_group finds.
Note(msg) ==
  \/ msg.pid \in listed /\ stale' = stale \ {msg.pid} /\ UNCHANGED <<listed, count>>
  \/ /\ msg.pid \notin listed /\ IsNew(msg)
     /\ listed' = listed \cup {msg.pid} /\ count' = count + 1 /\ UNCHANGED stale
  \/ msg.pid \notin listed /\ ~IsNew(msg) /\ UNCHANGED group

Recv ==
  /\ At("recv") /\ NextMsg > 0
  /\ mq' = Without(NextMsg)
  /\ LET msg == mq[NextMsg]
     IN  IF count = GROUP_UNUSED
         THEN UNCHANGED <<group, stack>>
         ELSE \/ /\ msg.kind = "exception"
                 /\ Continue(<<Frame("segv_wait", msg.pid, 0, {}), Top>>)
                 /\ UNCHANGED group
              \/ msg.kind # "exception" /\ Note(msg) /\ UNCHANGED stack
  /\ UNCHANGED <<procs, hot, settled, hup, bounds>>

RecvDone ==
  /\ At("recv") /\ NextMsg = 0
  /\ Return
  /\ UNCHANGED <<procs, mq, group, hot, settled, hup, bounds>>

\* process_exception, after segv_wait has seen the process gone or has given up.
ProcessException ==
  /\ At("segv_wait")
  /\ IF Top.p \in listed
     THEN settled' = FALSE /\ Continue(<<Frame("kill", Top.p, 0, {})>>)
     ELSE Return /\ UNCHANGED settled
  /\ UNCHANGED <<procs, mq, group, hot, hup, bounds>>

\* do_event, PROCMON_EVENT_PROCDEAD: the exit signal, which is SIGUSR1, ...
KillDead ==
  /\ At("kill")
  /\ Kill({Top.p}, "quit")
  /\ Continue(<<Frame("verify", Top.p, 0, {})>>)
  /\ UNCHANGED <<life, born, mq, group, hot, settled, hup, bounds>>

\* ... 10 milliseconds later a look at whether it is gone, ...
IsGone_Assumed(p) == TRUE
IsGone(p) == life[p] = "gone"

VerifyDead ==
  /\ At("verify")
  /\ IF IsGone(Top.p)
     THEN Continue(<<RecvOf(Top.p), Frame("replace", Top.p, 0, {})>>)
     ELSE Return
  /\ UNCHANGED <<procs, mq, group, hot, settled, hup, bounds>>

\* ... and, when its messages have been read, a new process in its place.
\* If one of them was an exception report the entry is deleted already and
\* del_proc is called with what the freed memory holds: it may count down,
\* return, or crash.
Replace ==
  /\ At("replace")
  /\ \/ Top.p \in listed /\ Del(Top.p) /\ Fork(1) /\ Return
     \/ /\ Top.p \notin listed
        /\ \/ count' \in {count, count - 1} /\ Fork(1) /\ Return
           \/ stack' = <<Frame("crashed", 0, 0, {})>> /\ UNCHANGED <<life, born, count>>
        /\ UNCHANGED <<listed, stale>>
  /\ UNCHANGED <<sig, mq, hot, settled, hup, bounds>>

\* check_group.  With minprocnum_ = maxprocnum_ the load plays no part.
Missing == settled /\ ProcNum > count
Surplus == settled /\ count > ProcNum

CheckGroup ==
  /\ At("check") /\ reload = PROC_RELOAD_NORMAL /\ count # GROUP_UNUSED
  /\ settled' = IF Missing \/ Surplus THEN FALSE ELSE settled
  /\ IF Missing THEN Fork(ProcNum - count) ELSE UNCHANGED <<life, born>>
  /\ Continue((IF Surplus THEN <<Frame("surplus", 0, count - ProcNum, {})>> ELSE <<>>)
                 \o <<Frame("procs", 0, 0, listed)>>)
  /\ UNCHANGED <<sig, mq, group, hot, hup, bounds>>

CheckUnused ==
  /\ At("check") /\ count = GROUP_UNUSED
  /\ Return
  /\ UNCHANGED <<procs, mq, group, hot, settled, hup, bounds>>

\* do_event, PROCMON_EVENT_PROCUP: processes are told to exit, one by one, their
\* messages are read, and they are taken off the list at once.
Tell_Probes(p) == UNCHANGED sig
Tell(p) == Kill({p}, "quit")

TellSurplus ==
  /\ At("surplus") /\ Top.n > 0
  /\ \E p \in listed :
       /\ Tell(p)
       /\ Continue(<<RecvOf(p), Frame("drop", p, 0, {}), Frame("surplus", 0, Top.n - 1, {})>>)
  /\ UNCHANGED <<life, born, mq, group, hot, settled, hup, bounds>>

Drop ==
  /\ At("drop")
  /\ Del(Top.p)
  /\ Return
  /\ UNCHANGED <<procs, mq, hot, settled, hup, bounds>>

SurplusTold ==
  /\ At("surplus") /\ (Top.n = 0 \/ listed = {})
  /\ Return
  /\ UNCHANGED <<procs, mq, group, hot, settled, hup, bounds>>

\* check_proc, for one process after another, in the order of the buckets.
Silent_HeadOnly == {p \in Top.todo \cap listed \cap stale : \A q \in listed : p <= q}
Silent == Top.todo \cap listed \cap stale

CheckProc ==
  /\ At("procs")
  /\ \E p \in Silent :
       Continue(<<Frame("kill", p, 0, {}), Frame("procs", 0, 0, Top.todo \ {p})>>)
  /\ settled' = FALSE
  /\ UNCHANGED <<procs, mq, group, hot, hup, bounds>>

ProcsChecked ==
  /\ At("procs") /\ Silent = {}
  /\ Return
  /\ UNCHANGED <<procs, mq, group, hot, settled, hup, bounds>>

-----------------------------------------------------------------------------
(* do_check in a hot reload: one state after another, one in a cycle. *)

CheckReload(state) ==
  /\ At("check") /\ reload = state /\ count # GROUP_UNUSED
  /\ Return
  /\ UNCHANGED <<mq, group, gen, exe, settled, hup, bounds>>

ReloadStart ==
  /\ CheckReload(PROC_RELOAD_START)
  /\ Fork(ProcNum)
  /\ reload' = PROC_RELOAD_WAIT_NEW /\ aged' = FALSE
  /\ UNCHANGED <<sig, tag>>

\* curprocnum_ is compared as an unsigned.
NewReady == count >= ProcNum \/ count < 0

ReloadWaitNew ==
  /\ CheckReload(PROC_RELOAD_WAIT_NEW)
  /\ IF NewReady \/ aged
     THEN Kill(tag, "reload") /\ reload' = PROC_RELOAD_KILLOLD /\ aged' = FALSE
     ELSE UNCHANGED <<sig, reload, aged>>
  /\ UNCHANGED <<life, born, tag>>

ReloadKillOld ==
  /\ CheckReload(PROC_RELOAD_KILLOLD)
  /\ Kill(tag, "reload")
  /\ reload' = PROC_RELOAD_CLEAR /\ aged' = FALSE
  /\ UNCHANGED <<life, born, tag>>

OldGone_One == \E p \in tag : life[p] = "gone"
OldGone == \A p \in tag : life[p] = "gone"

\* Old processes that are not gone after 30 seconds get SIGKILL.
ReloadClear_NeverKills ==
  /\ CheckReload(PROC_RELOAD_CLEAR)
  /\ IF OldGone
     THEN tag' = {} /\ reload' = PROC_RELOAD_NORMAL
     ELSE UNCHANGED <<tag, reload>>
  /\ UNCHANGED <<procs, aged>>
ReloadClear ==
  /\ CheckReload(PROC_RELOAD_CLEAR)
  /\ IF OldGone
     THEN tag' = {} /\ reload' = PROC_RELOAD_NORMAL /\ UNCHANGED life
     ELSE /\ life' = [p \in Pids |-> IF aged /\ p \in tag THEN "gone" ELSE life[p]]
          /\ UNCHANGED <<tag, reload>>
  /\ UNCHANGED <<sig, born, aged>>

-----------------------------------------------------------------------------
Starts(p) == FirstReport(p) \/ InitDone(p)
Loop(p) == Report(p) \/ LateReport(p) \/ Quit(p)
Dies(p) == ReportException(p) \/ Die(p)
Fails(p) == Hang(p) \/ Killed(p) \/ Segv(p)

Controller ==
  \/ Run \/ CheckSignals \/ Recv \/ RecvDone \/ ProcessException
  \/ KillDead \/ VerifyDead \/ Replace
  \/ CheckGroup \/ CheckUnused \/ TellSurplus \/ Drop \/ SurplusTold
  \/ CheckProc \/ ProcsChecked
  \/ ReloadStart \/ ReloadWaitNew \/ ReloadKillOld \/ ReloadClear

TimePasses == (\E p \in Pids : Expire(p)) \/ AdjustDelayPasses \/ ReloadDelayPasses

Next ==
  \/ \E p \in Pids : Starts(p) \/ Loop(p) \/ Recover(p) \/ Dies(p) \/ Fails(p)
  \/ TimePasses
  \/ AskReload
  \/ Controller

Spec == Init /\ [][Next]_vars

\* Processes and the controller go on, and time passes.
Fairness ==
  /\ \A p \in Pids : WF_vars(Starts(p) \/ Report(p) \/ Quit(p) \/ Dies(p))
  /\ SF_vars(TimePasses)
  /\ WF_vars(Controller)

\* A process that hangs may hang for ever, ...
HangSpec == Spec /\ Fairness
\* ... or is only slow.
FairSpec == HangSpec /\ \A p \in Pids : WF_vars(Recover(p))

-----------------------------------------------------------------------------
(* Properties. *)

Lives == {"unborn", "forked", "init", "up", "hung", "dumping", "dying", "gone"}
Steps == {"recv", "check", "signals", "segv_wait", "kill", "verify", "replace", "surplus",
          "drop", "procs", "crashed"}

\* Every variable keeps its type, and the calls nest no deeper than reports of
\* exceptions can make them.
TypeOK ==
  /\ life \in [Pids -> Lives] /\ sig \in [Pids -> SUBSET {"quit", "reload"}]
  /\ born \in [Pids -> 0..MaxReloads]
  /\ \A i \in DOMAIN mq : mq[i] \in [pid : Pids, kind : {"starting", "ready", "exception"}]
  /\ listed \subseteq Pids /\ stale \subseteq listed /\ count \in Int
  /\ tag \subseteq Pids /\ reload \in PROC_RELOAD_NORMAL..PROC_RELOAD_CLEAR
  /\ gen \in 0..MaxReloads /\ exe \in {"srpc_worker", "spp_worker"}
  /\ {settled, aged, hup} \subseteq BOOLEAN
  /\ Len(stack) <= 5 + 2 * MaxSegvs
  /\ \A i \in DOMAIN stack : stack[i].at \in Steps /\ stack[i].p \in Pids \cup {0}

\* curprocnum_ is the number of the processes in the list.
CurProcNum == count = Cardinality(listed)

\* As long as no process has reported an exception it is, whatever other
\* failures there were and however the calls are nested.
CountMatches == bounds["segvs"] = 0 => CurProcNum

\* A process is only forgotten if it is gone or has been told to exit: it is
\* in the list, or tagged by a reload, until then.
Forgotten(p) == p \in listed \cup tag /\ p \notin listed' \cup tag'
NoOrphan == [][\A p \in Pids : Forgotten(p) => life'[p] = "gone" \/ sig'[p] # {}]_vars

\* While nothing is slow there are never more processes than were asked for,
\* a hung one that has been told to exit included: the place of a process that
\* stops reporting is only filled when it is certainly gone.
NeverTooMany ==
  bounds["segvs"] = 0 /\ bounds["slow"] = 0 /\ gen = 0 => Cardinality(Alive) <= ProcNum

\* There is always a worker to serve requests, once there is one and as long
\* as none fails: a hot reload tells the old workers to exit when the new ones
\* are at work.
NoFailures == bounds["hangs"] = 0 /\ bounds["killed"] = 0 /\ bounds["segvs"] = 0
Serving == \E p \in Pids : life[p] = "up" /\ sig[p] = {}
KeepsServing == [][Serving /\ NoFailures' => Serving']_vars

\* When a reload is over none of the processes is left that were there before,
\* unless one was being replaced for a failure when the reload was asked for.
ReloadReplacesAll ==
  gen > 0 /\ reload = PROC_RELOAD_NORMAL /\ NoFailures => \A p \in Alive : born[p] = gen

\* A reload comes to an end, even if old processes hang for ever.
ReloadEnds == reload # PROC_RELOAD_NORMAL ~> reload = PROC_RELOAD_NORMAL

\* Unless a process reported an exception there are, when failures have
\* stopped, exactly as many workers as were asked for, all of them at work and
\* known to the controller.
AllAtWork ==
  /\ Cardinality(Alive) = ProcNum /\ listed = Alive
  /\ \A p \in Alive : life[p] = "up" /\ sig[p] = {}
Converges == <>[](bounds["segvs"] = 0 => AllAtWork)
=============================================================================
