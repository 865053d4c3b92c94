# MSEC in TLA+

MSEC (Tencent's micro-service framework) runs C++, PHP and Python services in a
process model called SPP: a **proxy** holds the sockets, **workers** run the
service's code in cooperative micro threads, and a **controller** keeps the
workers alive. Around it stand a name service (nlb), a monitoring service, a log
service and web consoles.

The modules in this directory model the parts whose correctness rests on the
order of events: the micro-thread scheduler, its timer heap, the cache of idle TCP
connections with its timers and descriptors, the shared memory queues between proxy
and workers, the controller's process monitor, the lock-free queue of the monitoring
service, and the routing data of the name service. TLC checks small instances of all
of them; TLAPS proves for every size the central invariants of the scheduler, that it
implements fork and join, the safety of the timer heap and of the cache of connections,
that the shared memory queues are FIFO channels, and results about the process monitor and
the routing data.

    MicroThread  ForkJoin              the scheduler, and what it promises
      MicroThread_proofs               its invariants
      ForkJoin_proofs                  it keeps the promise
    Heap                               the timer heap
      Heap_proofs                      its positions and its top
    TcpKeep                            calls over TCP and idle connections; uses Heap
      TcpKeep_proofs                   places, timers, descriptors and answers
    ShmMQ  ShmFifo                     the shared memory queues, and what they promise
      ShmMQ_proofs                     no access outside the block; it keeps the promise
    ProcMon                            the controller and its worker group
      ProcMon_proofs                   its list and count, the size of the group, a reload
    MmapQueue                          the monitor queue
      MmapQueue_proofs                 it keeps its messages until an accident
    Routes                             the two copies of the routing data, and callers
      Routes_proofs                    results, shares and retries
    MC*.tla, *.cfg                     bounded instances

Run `tlc -config X.cfg MCy.tla` for a configuration, `tlapm M_proofs.tla` for
proofs. PROJECT.json lists runs, properties, the mutated operators that show a
property can fail, and the source lines each definition stands for.

## 1. Inventory

Paths are under `src/`; `comm` is `spp_rpc/src/comm`, `mt` is
`spp_rpc/src/sync_frame/micro_thread`.

| Part | State | Operations | Hard behaviour | What makes it correct |
|---|---|---|---|---|
| micro-thread scheduler, `mt/micro_thread.*`, `mt_api.cpp` | thread flags, parent and sub threads; run, io, sleep, pend and free lists; pool counters | create, sleep, wait for a descriptor, fork and join, end, daemon round | event and timeout of one thread in the same round; a thread that frees itself while on its stack; failed allocation halfway through a fork | a thread is in exactly one place; the join wakes the parent once and after the last sub thread; nobody sleeps beyond the deadline |
| timer heap, `mt/heap.h`, `heap_timer.*` | array and the index in every entry | push, pop, delete from the middle | deletion of an arbitrary entry | top is minimal, indices are right |
| epoll proxy, `mt/epoll_proxy.*` | per descriptor: reference counts, events listened for, notified object | add and remove events, with roll back | several users of a descriptor; forced removal | events listened for cover the references |
| sessions and action sets, `mt/mt_notify.cpp`, `mt_session.cpp`, `mt_concurrent.cpp` | sessions of a shared UDP socket, list of writers | send, receive, time out | late and second answers, stale descriptors after a hang-up | an answer reaches the session it is for or no one |
| idle connections, `mt/mt_connection.cpp`, `heap_timer.cpp` | connections by address, timers, epoll registration | get, cache, time out, close | timer, event and next call compete for a connection; answers that come after their call; registration that fails halfway | a connection is idle, in use or free, with timer, socket and registration to match; an answer goes to the call that asked |
| SyncFrame, `spp_plugin/SyncFrame.cpp` | active threads | the worker's loop around the daemon | sleeping on the queue while micro threads wait | neither starves the other |
| shared memory queues, `comm/tbase/tshmcommu.*`, `notify.cpp` | head, tail, clearing process, ring, message count, file locks, notification FIFO | enqueue, dequeue, clear, poll, notify | one side without a lock; processes killed at any step; a clear while others read; payload taken for a header | FIFO, whole, once; no access outside the ring; nobody sleeps on a backlog |
| process monitor, `comm/tbase/tprocmon.*`, `controller/defaultctrl.cpp` | list of processes with time stamps, count, reload state and tags, System V message queue | receive reports, check group and processes, signal, replace, hot reload | nested calls while entries are deleted; slow, hung, dead and crashing processes; a reload with any of them | count agrees with the list; failures replaced one for one; reload without a gap, and it ends |
| worker and proxy, `worker/`, `proxy/` | routes, connections | their loops | see the queues and the monitor | requests are answered |
| socket communication, `comm/tbase/tsockcommu/` | connection slots, flow numbers, send buffers | accept, receive, send, expire | answer for a connection that was closed and reused | an answer goes to the connection that asked |
| statistics, logs, configuration, `comm/tbase/tstat.cpp`, `tlog.cpp`, `comm/config` | counters, files | add, dump, parse | rotation | |
| monitor queue, `monitor/agent/monitor_api/mmap_queue.c` | head and tail positions, token per block | mq_put, mq_get with compare-and-swap | many writers; slow and killed writers; wrap with skipped blocks | no message lost or torn by a reader that overtakes |
| monitor agent and server, `monitor/` | hash tables of counters | add, dump, query | | sums are kept |
| name service, `nlb/src` | two copies of the servers of a service in shared memory, index of the one in use, results per server | route, report a result, recompute weights, heartbeats | readers in the old copy while the agent writes; counts merged after the switch | a reader sees one copy; results are counted |
| remote shell, consoles, Redis console, log sink, Java RPC | databases, clusters | requests of operators | | |

How they interact. A request arrives at a socket of the proxy, which enqueues it
into the queue of a worker group and writes a byte into the group's FIFO when it is
the first one. A worker's loop alternates between its micro threads and the
queue: it dequeues a request, starts a micro thread for it, and enqueues the
answer into a second queue that the proxy polls. Worker and proxy report to the
controller's message queue once in a third of the heartbeat; the controller's
cycle of three seconds reads the reports, then looks at the groups. A process it
starts after a death attaches to the shared memory as it was left.

PROJECT.json lists the hazards of this code at their lines, and the properties
that would notice each; two have no property and say so. Smaller ones that no property
covers either: a report of a working process that finds the message queue full is lost
(`tprocmon.cpp:118`); a worker whose initialisation takes longer than the heartbeat is
replaced again and again (`defaultworker.cpp:461`); a controller that quits leaves
processes running that are not in its lists at that moment (`tprocmon.cpp:705`).

## 2. Plan

Order of work, by how much of a request's path depends on it.

1. `MicroThread` with `ForkJoin` (abstract), invariants and refinement proved — done.
2. `Heap`, used by 1 through the constant `HeapSafe` and by 5 directly — done and proved,
   its top as far as it is right (five entries, or no deletions).
3. `ShmMQ` with `ShmFifo` (abstract) — done; memory safety, order, counts and the refinement proved.
4. `ProcMon` — done for the worker group; `CountMatches`, `NoOrphan`, `NeverTooMany` and, of the
   first reload, `ReloadReplacesAll` and `KeepsServing` proved.
5. `TcpKeep`: the cache of idle connections, with timers and descriptors — done, all its
   safety properties proved.
6. `MmapQueue`: mq_put and mq_get with writers killed between claim and token — done, all
   its safety properties proved.
7. `Routes`: the two copies of `update_config` and the callers of `nlbapi.c` — done, all
   its safety properties proved.
8. Open: reference counts of descriptors and the UDP sessions of `mt_notify.cpp`; an
   abstract specification: an answer is delivered to the live session that asked or
   dropped; two users of a descriptor, two sessions, one late answer.
9. Open: `TSockCommu`, connection slots and flow numbers.

Theorems to come: with 8 and 9 theirs; every safety property of the modules that exist is proved, under
the conditions section 5 names.

## 3. The modules

### MicroThread

One variable per field of the library, `pc` for the point which the running thread
has reached in it. All micro threads of a worker share one kernel thread, so the
actions are the stretches between two points at which another thread can run or an
environment choice is made: `StartThread`, `Sleep`, `WaitIo`, the loops of
`mt_exec_all_task` (`CreateSub`, `AddSubThread`, `Wait`, `FreeSub`), the end of a thread
(`RunEnds`, `WakeupParent`, `ScheduleReclaim`), `ThreadSchdule`, and the daemon's round
(`EpollNotify`, `SetLastClock`, `WakeupTimeout`, `DaemonSwitch`). Deadlines are kept
relative to `_last_clock`. The heap is the set of its entries, from which any minimal
one may be on top; beyond five entries any entry may (`HeapSafe`), because of what run
`heap_six` finds. Descriptors are abstracted: a thread on the io list is notified or
times out. `_state`, which is never read, the context switch and buffers are left out.

`ForkJoin` is what applications rely on: tasks take turns in the order in which they
became ready, may fork tasks and wait for all of them. `stage` and the substitution of
`FJ` are the refinement mapping; the daemon, the pool and its flags disappear.

### Heap

`HeapPush`, `HeapPop` and `HeapDelete`, with the index kept in every entry. The loops of
`HeapUp` and `HeapDown` are recursive functions of the place where the loop is, a position
together with the array and the positions as they are then: `Climbs` and `Sinks` are the loop
conditions, `MoveTo` the exchange.

### TcpKeep

Micro threads that call `mt_tcpsendrcv`: `Call` takes an idle connection to the server or a
fresh object (`GetIdle`, `GetFresh`), then `CreateSocket` (which fails when there is no
descriptor left), `Connect`, `Send`, `Recv`, with a wait
where the code enters `EpollSchedule` (`Wait`, `Resume`, `TimesOut`, `WaitFails`), and `Keep`
or `Close` at the end. A hang-up wakes nobody, but it is noted in the events received
(`HangupSeen`), so that the timeout that comes later is taken for an event and `recv` reads again.
Threads are switched only in such waits, so `running` says whose steps come next; the scheduler itself is `MicroThread` and is here only the daemon, which handles
one event (`DispatchThread`, `DispatchIdle`) or one expired timer (`Expire`) at a time.
`IdleDetach`, `IdleAttach`, `Reset` and the lists are operators that the actions combine in the
code's order. The timers are an instance of `Heap`, with its capacity. Descriptors are numbers
that a later socket uses again; `epobj` and `events` are the library's table, `kernel` is what
epoll watches, and both are changed by the same calls, so that a difference between them is
visible. Servers (external) answer late or not at all, close, or reset. Two code paths cannot be
reached and are left out: the early return of `IdleAttach` for a connection that is attached
already, and the branch of `InputNotify` for a null object. `NotRegistered` is the failure
of `epoll_ctl` after the timer was started; it belongs to `FaultySpec` only (see below).
Buffers, partial sends and the framing of answers are left out: an answer is read at once.

### MmapQueue

Each access to the mapped file that another process can observe is a step: in `mq_put` the
look at both positions, the compare-and-swap of `tail_pos`, the tokens of nodes
skipped at the end, the nodes, the token of the first; in `mq_get` the look, the conflict count
with its second look, the length, the compare-and-swap of `head_pos`, the nodes, the tokens
reset one by one. Writers may be killed at each of them. A node is its token, the number of
nodes its message needs and which piece of which message it holds. The code cannot exclude
three accidents, and relies on a ring that is large against the speed of its users: a live
writer that is taken for dead (`impatient`), nodes used again while a reader copies them
(`reused`), a position that has gone round the ring between a look and its compare-and-swap
(`lapped`). They happen in the model, are noted in `blame`, and `RingHolds` and `Arrives` say
what holds until then; `Whole`, `InOrder` and `Emptied` hold with them in this instance.
Left out is the return of -2 for a message longer than the caller's buffer
(`mmap_queue.c:518`), which leaves its tokens set: the agent reads into 4096 bytes, and what the monitor's client puts has at
most 517 (two names with lengths of one byte).

### Routes

`update_config` with one step for each access to shared memory: `Update` or `Load`, `Collect` for
each server, `Compute` on private memory (events, shaping, weights), `CopyHead` and `CopyTable`
for the `memcpy`, `Switch`, `Merge` for each server, `Done`; `Crash` at any of them, with the
restart from shared memory. `owed` says what was reported in time and not taken since, `lost` how much
of it was left in the old copy by a crash before its merge. `Compute` follows the code's arithmetic with integer division;
ratios are percentages. Callers are processes: `search_route` reads the index, the head of
that copy, then draws (`DrawDead` with the compare-and-swap on the retries, `DrawLive`, `Search`)
and `updateroute` reads the index again and counts a result. Node events are external. The
hash from addresses to servers is taken to be right, and there is one service. `weight_static` is
one constant for all servers, and a load does not change it: no property depends on it. `Prompt` is
the one assumption about time: a call takes less than the five seconds between two updates,
so that none still reads the copy that is written; the code has no other protection. A configuration
that zookeeper sends late may be loaded sooner than five seconds after an update, so that the
time a call has is then less.

### ShmMQ

Every access to `head_`, `tail_`, `pid_`, `msg_count` and the block is a step of its
own, in program order: `LoadHead`, `LoadTailToWrite`, `WriteHead`, `WriteData`, `Publish`,
`Count`, `Notify` for enqueue; `Poll`, `Lock`, `LoadHead`, `LoadTailToRead`, `Discount`,
`ReadHead` or `ReadBadHead`, `CopyOut`, `Free`, `CheckEnd` or `LookOutside`, `Recheck` for
dequeue; four writes for `clear`. A process may die before any of them and be started
again. A cell of the block stands for the least piece that a `memcpy` moves: a
safe area, length and flow, a piece of payload. Header and payload are each written or
read in one step, as they are copied by one or two calls between the steps that
matter to others. Positions are unsigned numbers modulo `UIntSize` and may leave the ring,
as they do in the code when `clear` comes between a worker's load and its store. What is
read as a length from a payload is arbitrary (`ReadAs`). In `Recheck` the two arguments
`*head_` and `*tail_` are read at once. Flow numbers are unique, and the statistics
of the queue (`getstat`, `process_count`, `curflow`) are left out. One proxy without locks
and any number of workers with the file lock, as `initconf` of proxy and worker
configure them.

`ShmFifo` is a FIFO channel; a message counts as taken when `*head_` has moved past it.

### ProcMon

`stack` is the controller's call stack, because `do_recv` calls `process_exception`, which
calls `do_event`, which calls `do_recv`, and each of them holds pointers to entries. A
frame is named for the statement to come: `recv`, `check`, `signals`, `segv_wait`, `kill`,
`verify`, `replace`, `surplus`, `drop`, `procs`. Between two frames workers go on: `kill`,
sleeps and the reading of the queue take time. `crashed` is the call of `del_proc` with the
contents of a freed entry. Worker processes start, report, hang, recover, are killed, or
crash and report the exception before they die. Time is three conditions: a report is
older than the heartbeat (`stale`), 15 seconds since the last adjustment are over
(`settled`), 30 seconds since a step of the reload are over (`aged`).

Abstractions: `config.reload` is on; the same report twice in the queue is one; the order
of the hash buckets is arbitrary; process ids are not reused, and handed out in
ascending order; there is one group, with `minprocnum_ = maxprocnum_` as `initconf` sets
it, so load plays no part; reports that change nothing (of listed and fresh processes)
are left out; the queue is never full. Left out: orders, affinity, alarms, the
quitting of the controller, the proxy's own group.

## 4. What the runs show

| Run | Question | Instance |
|---|---|---|
| scheduler | are lists, flags, counters, parents and deadlines consistent in every state, do runnable threads run, sleepers wake, joins return, and is it fork-join? | quota of four pool threads (one is the daemon), reserve of two, up to two tasks per fork |
| heap_five | is the heap right with entries leaving from the middle? | up to five of six entries, three different times |
| heap_six | the same with six entries: **no** (finding) | six entries, two different times |
| shm_requests | queue to the workers: whole, once, in order with a worker killed anywhere; counted, noticed and delivered while nobody has died | one proxy, two workers, three messages of one size in a ring of nine cells |
| shm_responses | queue to the proxy: is it a FIFO channel, a worker killed anywhere? | two workers, one proxy, three messages of two sizes in a ring of eight |
| shm_restart | the proxy clears the queue while workers read it: is every position in range? | ring of six, payloads of two cells that are read as headers |
| procmon_group | is a group complete again after failures, replaced one for one, none forgotten? | two workers, one exception, one hang |
| procmon_reload | does a hot reload replace all, without a gap, and end? | two workers; one killed, one hung for ever, one late report |
| procmon_count | is curprocnum_ the number of processes? **no** (finding) | one exception |
| mmap_queue | is a message read whole, once and in order, does the ring hold what waits, and is it emptied, with a writer killed anywhere? | two writers, one reader, four messages of one or two nodes in six positions |
| tcp_keep | is every connection in one place with timer, socket and registration to match, does every call get its own answer, and does everything end? | two callers, two servers, three connections, two descriptors, one timer, three calls, one hang-up |
| routes | are results counted once, are those that a crash in the merge loses the only ones, is the copy in use consistent, does the search find dead servers no more often than allotted, with a crash or event anywhere in an update? | two servers, two callers, two results, two updates or loads, one crash or event |

Some properties join several statements that belong together: `WaitersRun` is `SleeperRuns`
and `JoinReturns`; `RingHolds` is `Kept`, `NoStaleToken` and `Exclusive`; `Drains` is `Arrives` and
`Emptied`; `Descriptors` is `RightPeer` and `Registered`; `Ends` is `CallsReturn` and `Expires`;
`Shares` is `FindsShare` and `LiveHasShare`. The type invariants are proved.

Every passing property has a mutated operator (`Op_Slip` next to `Op`) with which TLC finds
it violated under the same configuration. `CHECK_DEADLOCK FALSE` is said where the bounds on
messages, calls, results or failures leave nothing to do at the end.

**Bounds, and why they are enough.** *Scheduler*: two pool threads besides the daemon and
the forking one are the least with which a parent has two sub threads while one of them
waits; the reserve of two makes the pool both reuse and destroy objects. Delays of 0 and 2 with a lag of 1
give deadlines that are past, now and to come. *Heap*: five is the largest heap for which
deletion is right and six the least for which it is not. *Queues*: the rings hold two
messages, so that the third wraps; nine cells with messages of four split the header of the third
at the end of the block, eight and payloads of zero and one cells split payloads too;
one death is enough to interrupt either side at each of its steps, and the restart of the proxy gives a
clear against each step of a worker. *Monitor*: two processes are the least for which a
count can be wrong in both directions; four process ids leave room for one replacement
and one double replacement, or for a whole reload; with more failures the processes run out, which
looks like a `system` call that fails. *Monitor queue*: messages of two nodes leave a node to
skip before the end of the ring of six, in which the third or fourth message starts over; one
conflict before a reader loses patience gives it each reaction to a slow or dead writer.
(The code's reserve is 100 nodes and its patience ten looks; a reserve of one makes its
exhaustion reachable.) *Connections*: three connections
for two callers and two servers are the least with one idle and two in use; two
descriptors make a third socket fail, and one timer makes the second idle connection one that
cannot be kept, where the code's heap has 100000; a pool of one deletes objects as well. *Routes*: with two servers one may be dead, or both; two updates
write each copy once and a caller may have looked before either; the symmetry is of callers,
which no property tells apart.

**Fairness.** Scheduler: application code calls the library or returns in the end, the
library's own steps and the daemon's go on, and the clock advances between the
daemon's rounds (strong fairness, since each round reads it again). `SleeperRuns` assumes
that the daemon gets the CPU again and again, since an application that keeps the run queue filled
starves it; `JoinReturns` assumes sub threads that end. Queues: each process goes on with
what it began, and a dead one is started again by the controller; whether the proxy sends
more is not assumed. A waiting worker looks again by itself, as `WaitNotifyFd` returns
after 10 ms. Monitor: processes and the controller go on; time passes, strongly fair, because
it only passes while the controller sleeps between two cycles; a hung process recovers
(`FairSpec`) or not (`HangSpec`); failures are never fair, and bounded. Monitor queue: the agent
reads again and again, and a writer that has claimed nodes goes on unless it is killed; that
writers begin anything is not assumed. Connections: a thread that was switched to runs on, a wait
ends by its timeout at the latest, which `MicroThread` shows for every sleeper, and time
passes; servers need not answer and events need not be handled.

**Properties that need saying.** `CountMatches`, `NeverTooMany` and `Converges` hold for
behaviours without exception reports; with one, `curprocnum_` drifts (finding). `KeepsServing`
and `ReloadReplacesAll` are about reloads of a complete group in which nothing else fails
and delays are long enough; if new workers never come up (a missing program), the code
tells the old ones to exit after 30 seconds all the same, and a worker that was forked and had not
reported when the reload was asked for survives it (`Hasty`). A second reload may miss a process
as well: a report that arrives late in the first puts a process that is gone back on the list,
and if the controller replaces it just between the second request and the round that
answers it, the new process is not tagged. The theorem is therefore about the first. `NotTwice` is about
workers that die; with a proxy that restarts, requests can be handed over again, as `clear` writes
`head_` before `tail_` without the lock.

`Conserved` counts the results that are reported in time: one added to the old copy after its
server has been merged is lost, and a crash loses those the agent had taken. A crash between the
switch and the end of the merge also loses those of the servers still to be merged: they stay in
the old copy (`agent.c:886` to 889), which the next update writes over. The property says
that these, which `lost` counts at the crash, are all. `FewProbes` counts the dead servers the
search finds. Dead servers are drawn without a retry when all are dead (`nlbapi.c:208`), and
when the calls of the server found fail too often, any server is drawn in its place
(`nlbapi.c:246`); neither is a probe and neither is counted. `InUseUntouched`
is about idle connections that are refused for want of a timer, and false with
`NotRegistered`.

**Findings.** *heap_six*: `HeapDelete` sifts the moved entry down, never up. *procmon_count*: an
exception report read while its process is being replaced deletes the entry twice and forks
twice.

**Other disagreements met while modelling**, for which no run is kept:

- A worker killed in dequeue leaves `msg_count` one short for good, and `comsume` does not look
  at a queue whose count is zero (`tshmcommu.cpp:375`).
- The exit signal of the monitor is `SIGUSR1`, which a hung worker never acts on, where a
  comment says `SIGKILL` (`tprocmon.cpp:976`): outside a reload it is not replaced.
- When `epoll_ctl` refuses an idle connection, its timer has been started and is not stopped
  (`mt_connection.cpp:492`). It expires while a call uses the connection and closes its
  socket, though the comment at line 912 says that it closes idle connections.
- `mmap_queue.h:119` says that `RESERVE_BLOCK_COUNT` nodes are never used. A message that starts
  over at position 0 only has to fit (`mmap_queue.c:374`), so the nodes skipped for it eat into
  the reserve, which is what keeps writers away from nodes a reader still copies.
- The periodic update calls `copy_servers` with the threshold of a table it has just cleared
  (`agent.c:847`), so `shaping_request_min` (`commstruct.h:102`) takes effect only when a
  configuration is loaded.
- The totals are cleaned (`agent.c:873`) before `calc_servers_weight` takes a share of them as
  retries of dead servers (`agent.c:249`), so `dead_retry_ratio` has no effect and there is one
  retry for each copy.
- `dead_num` is documented as the number of dead servers; it is the number of servers from the
  first dead one on (`agent.c:241`), which can include live ones when weights are not lowered.
- `nlbapi.c:287` checks `servers0` a second time, where `servers1` is meant.

## 5. What is proved

`MicroThread_proofs` proves `TypeCorrect`, `FlagsCorrect`, `PoolCorrect`, `StackSafe`,
`JoinCorrect` and `OnePlaceOnly`, each as `Spec => []P`, for every finite set of threads, every
quota, reserve, number of tasks and set of timeouts (`PoolAssumption`, `ClockAssumption`: the
reserve is at least one, the daemon is a pool object). The properties are not
inductive. The invariant `IInv` adds:

- `Exclusive`: which flags exclude each other; the flag word, not the lists, decides in the
  code, so the argument goes from flags to lists by `FlagsMatchLists`;
- `CurrentUnlinked`: the running thread is linked nowhere (but to its parent), except between
  the call that links it and `ThreadSchdule`;
- `CreatedInv`: the threads in the local list of `mt_exec_all_task` are in no list yet;
- `JoinInv`: sub threads and parents agree, a parent that is pending has sub threads, and
  only in the second loop of `mt_exec_all_task` a running thread has some;
- `DaemonInv`, `ObjsInv`: the daemon is in no list and alone runs its round; threads outside
  the pool carry no flag and do not run;
- `NoLost`: a thread that no list links runs, or waits in the local list of its creator.

There is one lemma for each action or group of actions that disturb the same parts, and under it
one step per conjunct of `IInv`; `AllocPool` and `FreePool` treat the pool's list and counters
for all actions that use them; `AppendElems` and `TailElems` say what queues do to their
elements. `Invariant` combines them, and the theorems follow.

`SleepersOnTime` proves `NoOversleep` for every set of timeouts and every `MaxLag`, for pools
whose quota and reserve are at most `HeapSafe`; larger ones may lose the order of the heap
(finding *heap_six*) and are not claimed. `SleepInv` is the inductive form: outside the loop of
`WakeupTimeout` no sleeper is overdue at all, because the daemon only leaves the loop when the
earliest one is not.

`RootCorrect` proves `RootThreadLive`: in a micro thread, whatever the depth of forks,
`GetRootThread` climbs from the running thread to a live thread that is no sub thread and
is the running one or waits in `pend_list`, so that it is still there when the call returns. The code
would return NULL in the primordial thread, which the property excludes, and an orphan sub thread
itself, which the property says does not occur. Its invariant is `NoCycle`, that every set of threads that is not
empty has a member whose parent is outside; it is kept because a parent is only given to a thread
that nobody calls its parent yet. The walk has as many steps as there are threads, and a longer one
would meet a thread twice.

`Heap_proofs` proves `TypeCorrect`, `PositionsCorrect` (`Spec => []IndexCorrect`) and `OthersKept`
(`Spec => KeepsOthers`) for any number of entries, any capacity and all times. That the recursive
functions exist is a lemma (`LoopExists`: a loop that comes down in a measure defines a
function), and `LoopRule` is the rule for loop invariants, with which `UpRule` and
`DownRule` carry an invariant from where `HeapUp` and `HeapDown` start to where they stop. `TopFirst` proves
`TopMinimal` for heaps of up to five entries, where the entry that replaces a deleted one is a
descendant of its place or a leaf next to it and never earlier than its new parent; finding *heap_six*
is that this ends at six. `TopFirstWithoutDelete` proves it for every capacity as long as entries
leave from the top only.

`TcpKeep_proofs` proves `TypeCorrect`, `OnePlaceEach`, `TimersFollow` (`TimerIffIdle`),
`DescriptorsAgree` (`Descriptors`), `AnswersOwn` (`OwnAnswer`) and `InUseKept` (`InUseUntouched`)
for any callers, servers, objects, descriptors, calls and sizes of the pool and the heap. What
the timers need of the heap is `Heap_proofs`, instantiated. `IInv` is one part for each place: `CallsInv`
(the connection of a call is nobody else's and not idle), `PoolInv` (free objects are blank),
`ListInv` (what is in the list of a server is idle, connected to it, registered),
`EveryInv`, `SocketInv` (two connections have two descriptors), `RegInv` (tables and kernel hold a
descriptor for the connection or the waiting thread it belongs to, and no other),
`TimerInv`, and `DataInv` (nothing is under way on a connection but the request of the call that
uses it), which is what makes late answers harmless. All of it is about `Spec`; `FaultySpec`, with `NotRegistered`,
breaks `InUseUntouched` (see above) and is not covered.

`ProcMon_proofs` proves `NothingForgotten` (`Spec => NoOrphan`, if a reload is only asked for while
no process is missing: `~Hasty`) and `CountCorrect` (`Spec => []CountMatches`) for every set of
processes, every size of the group and any number of failures and reloads. `IInv` says
of the call stack what its frames rest on (`StackInv`: the process of a `replace` frame is gone, that
of a `drop` frame is gone or was told to exit) although reports are read and handled above them;
`ReloadInv`: no process is tagged when a reload is asked for; and, as long as no exception was
reported, `Orderly`: one process at most is dealt with, it is in the list, and only `do_recv`
runs above its frame, so every `del_proc` finds its entry. With an exception report that is what
breaks (finding *procmon_count*).

`GroupKeepsSize` proves `Spec => []NeverTooMany`. `CountInv` counts the processes the group has to
account for, `Charged`: listed, alive, or with a report in the queue. Outside a reload they never exceed `ProcNum`:
`replace` and `check` fork only after the queue has been read, and by then, if the last
adjustment is settled, all of them are listed (`QuietInv`). `FirstReloadReplacesAll` proves
`ReloadReplacesAll` until a second reload is asked for, with `~Hasty` and no slow workers:
when the controller answers the request all charged processes are listed, so all are tagged (`OldTagged`).

`FirstReloadKeepsServing` proves `Spec => KeepsServing` with at most one reload. The difficulty is not the
reload but what it leaves: an old worker may pass the check of its signal just before the signal arrives
and report after the reload is over. The controller then lists it although it is about to exit;
`check_group` sees one process too many and may tell a worker to exit that is at work, and when the
false entry is silent another process is forked in its place. `ServeInv` follows such a report: it is on
its way (`Late`), it has put a process on the list that was told to exit (`Ghosts`), or that one has been
replaced by a process that is not yet up (`Young`); each report is in one of these sets at most, so together they
(`Astray`) are no more than there were late reports (`FewAstray`). `During` says of the reload
that old processes are tagged and the new ones, as many as were asked for, are on the list or about to
report; `After` that the list and the processes nobody has told to exit together still make up `ProcNum`; `Fits`
what a frame on the stack knows of the count and the processes (with `Sorted`, that every
function waits there at most once). `TellKeeps` is the point of it: who is told to exit is one of at least
`ProcNum + 1` on the list, of which at most `MaxLate` are astray, so one that works stays. The hypotheses: a reload
is asked for when the group is complete (`~Hasty`), nothing is slow (`MaxSlow = 0`), one reload, fewer late reports than
workers (`MaxLate < ProcNum`), the program of the reloaded group is installed, and `Pids` does not run
out. All but the third are needed: TLC, on two workers, finds every one of them told to exit without it (two
late reports, a process that was forked before a hasty request, a delay that is over too early, nobody to
fork, no program). A second reload TLC finds no fault with (seven processes, one late report); `ServeInv`
speaks of the first only. The constants of *procmon_reload* meet all six.

`Exchanged`, `StackKept` and `OrderKept` treat the stack for all
functions of the controller, `ProcessStep` the steps of the processes; then there is one lemma
for each action.

`ForkJoin_proofs` proves `ForkJoinImplemented`: `Spec => ImplementsForkJoin`, the safety part of
what the library promises, for the same constants. `StageValue` reads the stage of every task
off its flag word, which `IInv` justifies; `StageChange` is the step that changes one stage and
`Unnoticed` the one that changes none. Then one lemma for each kind of step names the step of
`ForkJoin` it is. The three that carry the argument are `EndChildRefines` (the parent has no
other sub thread left exactly when its list of them is the one that ends, and is pending then),
`FreeRefines` (a thread on its way to the pool has no sub threads, and so has the one the
pool destroys) and `Allocated` (a thread from the pool is no task that anybody waits for). `End`
requires of `ForkJoin` that no parent waits for the task: that is `JoinInv`.

`Routes_proofs` proves `TypeCorrect`, `ResultsConserved` (`Spec => []Conserved`), `SharesFound`
(`Spec => []Shares`) and `FewProbesEver` (`Spec => []FewProbes`) for any servers and callers, every
setting of the ratios and any number of updates, loads, events, results and crashes. All of
it assumes what `CopyHead` assumes, `Prompt`. `DataInv` is the inductive form of the first three:

- `CallersHold`: the current copy, and the one a caller has looked at, is `Whole`: the servers
  before the dead ones are live and have intervals one after the other, from zero to the
  `dead_base` of its head. A copy is not whole between the two halves of the memcpy, and after a crash
  there stays so; nobody looks at it, because the index names the other one;
- `Stage`: what the agent has reached. While it collects, every server is still to be
  collected, dead, or has a weight above zero; in the private table it computes every live server
  has; the spare copy is whole, and counts from zero, before the index goes to it; what is
  left to merge names each server once;
- `Balanced` and `NoneElse`: `due`, what is owed and not lost, is what the current copy counts and what
  the old one holds unmerged, server by server, and nothing for servers outside the current table: one that
  a load removes and the next brings back starts from zero. `CrashKeeps` is the step in which
  the unmerged results go from one side to the other.

`SearchFinds` is the binary search of `search_route`: in a whole table it ends at the server whose
interval holds the number. `WeightsWhole` says that `calc_servers_weight` makes a whole, `EventsTables` and
`ShapingTables` that `handle_node_events` and `_shaping_servers` leave an order of the same form in
which no live server has weight zero (`ShapeWorks` is one turn of the loop: a weight that is
lowered to nothing kills the server in the same turn). The folds of the library, over the table and
over the servers, are recursive functions: `FoldExists` says that they are defined, and
`Climb` takes an invariant up to their end with a set of numbers in the place of the predicate that
an induction theorem would need. `FoundLooks` does the same for the search.

`FewProbesEver` has two parts. Retries and probes of a copy never add up to more than was written,
as the compare-and-swap succeeds only from a value above zero (`HoldsSome`), which costs a
retry and adds one probe at most. And the search among the live servers never ends at a dead one,
which is `SharesFound`.

`ShmMQ_proofs` proves `TypeCorrect` and `MemorySafe` (`Spec => []InBounds`) for every size of the
ring smaller than the range of an unsigned, every set of workers, every set of
lengths and every pattern of deaths. `IInv` adds `ShortCopiesNothing`: a length too short for its
frame leads to an empty copy, which is what keeps `CheckEnd` apart from `LookOutside`. The core of
the argument is that each position used was checked by `do_check` in the same call, that a
message that is written fits the free part that was computed from it, and that `Step` stays within the ring.

The same module proves what the queue delivers, for every instance with `OneSided`: the proxy is
alone on its side, as `initconf` configures it, and is not killed (after its restart
`clear` runs against the workers, and then `NotTwice` and `Whole` are not promised, see section
4). `WholeMessages`, `OnceInOrder`, `CountCorrect` and `BacklogHeard` prove `Whole`,
`NotTwice`, `CountAgrees` and `NoSilentBacklog`; `FifoImplemented` proves `ImplementsFifo` when no
consumer is killed. The invariant `QInv` has three parts:

- `RolesInv`: one process at a time is inside `enqueue` and one inside `dequeue`, the proxy because
  it is alone and a worker because it holds the lock, and none is in `clear`;
- `RoomInv`: what a producer writes lies in the free part, with a cell to spare, also when
  consumers have moved `*head_` since it looked; what it has written stays written;
- `Contents(ms, off)`, for some sequence `ms` of messages: the cells from `*head_` to `*tail_` are
  those of `ms`, message `i` from `off[i]` on (`Holds`); a consumer is at the first of them
  (`TakesFirst`); flow numbers increase from what was handed over, through the consumer's
  hands and the ring, to what is being written (`InOrder`); and `msg_count` differs from the
  length of `ms` by who is halfway, with a notification under way (`Counted`).

The messages are a witness, not a variable: `ContentsOfStep` says that `Publish` appends to them,
`Free` takes their head and no other step changes them. `StoredIs` shows that reading the ring as
the model does (`InQueue`) finds exactly them, although a record may be split at the end of the block at
any cell; with it the properties and the refinement follow.

`MmapQueue_proofs` proves `TypeCorrect`, `WholeReturned` (`Spec => []Whole`), `OrderReturned`
(`InOrder`) and `RingKept` (`RingHolds`) for every size of the ring and of the reserve, any writers
and readers (the run has one), any messages, tries and deaths. Because `got` ends with the
first accident, all four are about what holds until then; nothing is assumed about when one
happens. `IInv` ranges over the number `k` of the last message that readers have taken or given
up, which is a witness and no variable. Distances are measured around the ring, from `head_pos`
(`Way`):

- `OwnInv`: a claim without a token has a writer at work on it, or one that was killed at it, and
  a writer has one claim at most;
- `RoomInv`: a writer whose compare-and-swap is going to succeed (it has not been outrun) has room
  from `tail_pos` on without passing `head_pos`, with the wrap the code makes;
- `HeldInv`: what readers hold is outside the part in use, and two of them hold nothing in common;
- `OrderInv`: claims after `k` lie between the positions in their order, whole and apart;
- `WriteInv`: who is writing writes after `k`, and who is skipping is in front of its own message
  and behind the others;
- `TokenInv`: every token is that of a message after `k` or about to be reset, and the
  other way round;
- `WalkInv`: a reader that has not been outrun has passed no message that is published or
  being written;
- `CopyInv`, `PastInv`: messages up to `k` were returned once, or are being copied whole from
  nodes their reader holds.

`k` changes in two steps, which are one lemma (`HeadMoves`): `Take` moves it to the message that is
taken, whose predecessors are all dead, `AtTail` to the last claim. The accidents enter where they
should: without `lapped` a compare-and-swap that succeeds means that nobody has moved the
position since the look, without `reused` new claims avoid what readers hold, without
`impatient` a node that is skipped is no live writer's first. `WriterFrame`, `ReaderFrame` and
`WriterNode` say which changes leave the rest alone.

**Only model-checked.** Liveness, which is out of the prover's reach: `RunnableRuns`, `WaitersRun`,
`Delivered`, `Converges`, `ReloadEnds`, `Drains`, `Ends`. `KeepsServing` and `ReloadReplacesAll` beyond
the first reload. `TopMinimal` with
deletions and more than five entries is false.

## 6. What is not modelled

The components with status `not_modelled` in PROJECT.json, with reasons. In short: planned are
the descriptors' reference counts, the UDP sessions and the proxy's socket layer. Left out for
good are serialisation and language bindings, statistics and logs, configuration, command line
tools, the web consoles (their own scripts fill tables and send forms, the rest is vendored
libraries) and the Java implementation, whose behaviour lies in data handling and in databases.
Of the modelled parts these are missing: in the scheduler the system call hooks and session
threads; in the monitor queue the creation and mapping of the file and its statistics; in the
name service zookeeper, heartbeats, the files, and callers whose service the agent does not know
yet; in the controller its own end, orders and alarms.
