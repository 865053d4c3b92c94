------------------------------ MODULE TcpKeep ------------------------------
(***************************************************************************)
(* Calls over TCP (mt_tcpsendrcv_v2) and the cache of idle connections     *)
(* behind them (TcpKeepMgr, TcpKeepConn in mt_connection.cpp), with the    *)
(* timers of idle connections (heap_timer.cpp over the heap of module      *)
(* Heap) and the epoll registration of their descriptors (epoll_proxy.cpp).*)
(*                                                                         *)
(* Micro threads are switched only where they wait for a descriptor, so    *)
(* running names the thread whose steps come next; Daemon stands for the   *)
(* scheduler and its rounds: events, then expired timers.  Servers answer  *)
(* each request once, and may close or reset a connection at any time.     *)
(*                                                                         *)
(* The time of a timer is kept relative to the clock: 1 is "due".          *)
(* An operator named Op_Slip is Op with a slip the code could have had.    *)
(***************************************************************************)
EXTENDS Integers, Sequences, FiniteSets

CONSTANTS
  Users,      \* micro threads that call
  Conns,      \* objects of class TcpKeepConn
  Dsts,       \* addresses of servers
  Fds,        \* descriptors, as numbers
  Daemon, None,
  KeepTime,   \* _keep_time, in ticks
  MaxTimers,  \* size of the heap of timers
  MaxFree,    \* _max_free of the pool
  MaxCalls,   \* bound: calls
  MaxFaults   \* bound: connections that servers close and registrations with epoll
              \* that fail

ASSUME KeepAssumption ==
  /\ KeepTime \in Nat \ {0} /\ MaxTimers \in Nat \ {0} /\ MaxFree \in Nat
  /\ MaxCalls \in Nat /\ MaxFaults \in Nat
  /\ Fds \subseteq Nat
  /\ None \notin Users \cup Conns \cup Dsts \cup Fds /\ Daemon \notin Users
  /\ Users \cap Conns = {}

VARIABLES
  made, pool,           \* objects that exist; _ptr_list
  dst, osfd, flag,      \* _dst_addr, _osfd, _keep_flag
  keep_list,            \* _keep_hash: the idle connections to each server
  list, index, value,   \* the heap of timers
  epobj, events, kernel,\* FdRef: _epobj and _events; what epoll watches
  sock,                 \* the sockets
  running, pc, conn,    \* who runs; where each call is; its connection
  call, woken,          \* the call a thread is in; has its event come?
  got, calls, faults    \* the answer a call has taken; bounded counters

cache == <<made, pool, dst, osfd, flag, keep_list>>
timers == <<list, index, value>>
epoll == <<epobj, events, kernel>>
threads == <<pc, conn, call, woken>>
bounded == <<calls, faults>>
vars == <<cache, timers, epoll, sock, running, threads, got, bounded>>

Timers == INSTANCE Heap WITH
  Entries <- Conns, Max <- MaxTimers, Times <- 1..KeepTime + 1

Closed == [to |-> None, asked |-> <<>>, answers |-> <<>>, peer |-> "open"]

Open(fd) == sock[fd].to # None
Idle(c) == "IN_LIST" \in flag[c]

Init ==
  /\ made = {} /\ pool = <<>>
  /\ dst = [c \in Conns |-> None] /\ osfd = [c \in Conns |-> None]
  /\ flag = [c \in Conns |-> {}]
  /\ keep_list = [d \in Dsts |-> <<>>]
  /\ Timers!Init
  /\ epobj = [fd \in Fds |-> None] /\ events = [fd \in Fds |-> {}]
  /\ kernel = [fd \in Fds |-> {}]
  /\ sock = [fd \in Fds |-> Closed]
  /\ running = Daemon
  /\ pc = [u \in Users |-> "idle"] /\ conn = [u \in Users |-> None]
  /\ call = [u \in Users |-> 0] /\ woken = [u \in Users |-> FALSE]
  /\ got = [u \in Users |-> 0] /\ calls = 0 /\ faults = 0

Go(u, step) == pc' = [pc EXCEPT ![u] = step]
Fd(u) == osfd[conn[u]]

Elems(s) == {s[i] : i \in DOMAIN s}
\* s when the node of x is taken out of the list
Without(s, x) ==
  IF x \notin Elems(s) THEN s
  ELSE LET i == CHOOSE k \in DOMAIN s : s[k] = x
       IN  SubSeq(s, 1, i - 1) \o SubSeq(s, i + 1, Len(s))

-----------------------------------------------------------------------------
(* Registration of descriptors. *)

\* EpollCtrlAdd; epoll_ctl is only called for events that are not listened for.
Listen(fd, evs) ==
  /\ events' = [events EXCEPT ![fd] = @ \cup evs]
  /\ kernel' = IF evs \subseteq events[fd] THEN kernel
               ELSE [kernel EXCEPT ![fd] = events[fd] \cup evs]

\* EpollCtrlDelRef with use_ref = false
Ignore(fd, evs) ==
  /\ events' = [events EXCEPT ![fd] = @ \ evs]
  /\ kernel' = IF evs \cap events[fd] = {} THEN kernel
               ELSE [kernel EXCEPT ![fd] = events[fd] \ evs]

\* EpollAddObj: one object for a descriptor.
CanAddObj(o, fd) == epobj[fd] \in {None, o}
AddObj(o, fd, evs) ==
  epobj' = [epobj EXCEPT ![fd] = o] /\ Listen(fd, evs)

\* EpollDelObj
DelObj(o, fd, evs) ==
  IF epobj[fd] = o
  THEN epobj' = [epobj EXCEPT ![fd] = None] /\ Ignore(fd, evs)
  ELSE UNCHANGED epoll

-----------------------------------------------------------------------------
(* Timers. *)

\* start_timer sets the time before HeapPush refuses an entry it has.
CanStartTimer(c) == index[c] = 0 /\ ~Timers!HeapFull
StartTimer_Never(c) == UNCHANGED timers
StartTimer(c) ==
  IF CanStartTimer(c) THEN Timers!HeapPush(c, KeepTime + 1)
  ELSE /\ value' = [value EXCEPT ![c] = IF index[c] = 0 THEN 0 ELSE KeepTime + 1]
       /\ UNCHANGED <<list, index>>

StopTimer_Forgotten(c) == UNCHANGED timers
StopTimer(c) ==
  IF index[c] \in 1..Len(list) THEN Timers!HeapDelete(c) ELSE UNCHANGED timers

-----------------------------------------------------------------------------
(* The cache. *)

\* IdleDetach: timer, registration and flag, of a connection that is registered.
Attached(c) == osfd[c] # None /\ "IN_EPOLL" \in flag[c]
DetachTimer(c) == IF Attached(c) THEN StopTimer(c) ELSE UNCHANGED timers
Detach(c) == IF Attached(c) THEN DelObj(c, osfd[c], {"IN"}) ELSE UNCHANGED epoll
FlagDetached(c) ==
  IF Attached(c) /\ epobj[osfd[c]] = c THEN flag[c] \ {"IN_EPOLL", "IN_LIST"}
  ELSE flag[c] \ {"IN_LIST"}

\* FreePtr
FreePtr(c) ==
  IF Len(pool) >= MaxFree THEN made' = made \ {c} /\ UNCHANGED pool
  ELSE pool' = Append(pool, c) /\ UNCHANGED made

\* Reset and FreePtr; fl are the flags before.  An object that is destroyed is new
\* when it is made again.
Discard(c, fl) ==
  /\ FreePtr(c)
  /\ dst' = [dst EXCEPT ![c] = None]
  /\ osfd' = [osfd EXCEPT ![c] = None]
  /\ flag' = [flag EXCEPT ![c] = IF Len(pool) >= MaxFree THEN {} ELSE fl]
  /\ sock' = IF osfd[c] = None THEN sock ELSE [sock EXCEPT ![osfd[c]] = Closed]

\* epoll forgets a descriptor that is closed; the library's tables do not.
Forget(c) ==
  /\ kernel' = IF osfd[c] = None THEN kernel ELSE [kernel EXCEPT ![osfd[c]] = {}]
  /\ UNCHANGED <<epobj, events>>

\* RemoveTcpKeepConn, but for the timer
RemoveFromList_Forgotten(c) == UNCHANGED keep_list
RemoveFromList(c) ==
  keep_list' = IF "IN_LIST" \in flag[c]
               THEN [keep_list EXCEPT ![dst[c]] = Without(@, c)] ELSE keep_list

\* CloseIdleTcpKeep, but for the timer: detach, leave the list, close, free.
CloseIdle_StaysRegistered(c) ==
  RemoveFromList(c) /\ Discard(c, FlagDetached(c)) /\ Forget(c)
CloseIdle(c) ==
  /\ RemoveFromList(c) /\ Discard(c, FlagDetached(c))
  /\ IF Attached(c) THEN Detach(c) ELSE Forget(c)

\* GetTcpKeepConn
GetIdle(u, d) ==
  /\ keep_list[d] # <<>>
  /\ LET c == Head(keep_list[d])
     IN /\ keep_list' = [keep_list EXCEPT ![d] = Tail(@)]
        /\ flag' = [flag EXCEPT ![c] = FlagDetached(c)]
        /\ DetachTimer(c) /\ Detach(c)
        /\ conn' = [conn EXCEPT ![u] = c]
  /\ UNCHANGED <<made, pool, dst>>

GetFresh(u, d) ==
  /\ keep_list[d] = <<>>
  /\ \E c \in IF pool # <<>> THEN {Head(pool)} ELSE Conns \ made :
       /\ pool' = IF pool # <<>> THEN Tail(pool) ELSE pool
       /\ made' = made \cup {c}
       /\ dst' = [dst EXCEPT ![c] = d]
       /\ conn' = [conn EXCEPT ![u] = c]
  /\ UNCHANGED <<flag, keep_list, timers, epoll>>

Call(u, d) ==
  /\ running = Daemon /\ pc[u] = "idle" /\ calls < MaxCalls
  /\ GetIdle(u, d) \/ GetFresh(u, d)
  /\ running' = u
  /\ calls' = calls + 1 /\ call' = [call EXCEPT ![u] = calls + 1]
  /\ Go(u, "socket")
  /\ UNCHANGED <<osfd, sock, woken, got, faults>>

FreeFds == {fd \in Fds : ~Open(fd)}

\* CreateSocket: a connection from the cache has one.  The call fails when there is
\* no descriptor left.
CreateSocket(u) ==
  /\ running = u /\ pc[u] = "socket"
  /\ \/ Fd(u) # None /\ Go(u, "send") /\ UNCHANGED <<osfd, sock>>
     \/ /\ Fd(u) = None /\ FreeFds # {}
        /\ LET fd == CHOOSE n \in FreeFds : \A m \in FreeFds : n <= m
           IN /\ osfd' = [osfd EXCEPT ![conn[u]] = fd]
              /\ sock' = [sock EXCEPT ![fd].to = dst[conn[u]]]
        /\ Go(u, "connect")
     \/ Fd(u) = None /\ FreeFds = {} /\ Go(u, "failed") /\ UNCHANGED <<osfd, sock>>
  /\ UNCHANGED <<made, pool, dst, flag, keep_list, timers, epoll, running,
                 conn, call, woken, got, bounded>>

-----------------------------------------------------------------------------
(* The call. *)

\* EpollSchedule up to the switch.
Wait(u, evs, step) ==
  /\ IF CanAddObj(u, Fd(u))
     THEN AddObj(u, Fd(u), evs) /\ Go(u, step) /\ running' = Daemon
     ELSE Go(u, "failed") /\ UNCHANGED <<epoll, running>>
  /\ UNCHANGED <<cache, timers, sock, conn, call, woken, got, bounded>>

Connect(u) == running = u /\ pc[u] = "connect" /\ Wait(u, {"OUT"}, "connecting")
Recv(u) == running = u /\ pc[u] = "recv" /\ Wait(u, {"IN"}, "receiving")

\* epoll_ctl refuses to watch the descriptor.
WaitFails(u) ==
  /\ running = u /\ pc[u] \in {"connect", "recv"} /\ faults < MaxFaults
  /\ faults' = faults + 1
  /\ Go(u, "failed")
  /\ UNCHANGED <<cache, timers, epoll, sock, running, conn, call, woken, got, calls>>

Waits(u) == running = Daemon /\ pc[u] \in {"connecting", "receiving"}
Awaited(u) == IF pc[u] = "connecting" THEN {"OUT"} ELSE {"IN"}

\* A hangup has been received for the thread.  HangupNotify woke nobody, but the event
\* is there when the thread looks at its timeout, and is no timeout then.
HangupSeen(u) == Awaited(u) \cap events[Fd(u)] = {}

\* EpollSchedule after the switch; for a call in recv the read that follows.  A connect
\* that is there only after its time fails as well.
Resume(u) ==
  /\ Waits(u) /\ (woken[u] \/ HangupSeen(u))
  /\ DelObj(u, Fd(u), Awaited(u))
  /\ running' = u
  /\ woken' = [woken EXCEPT ![u] = FALSE]
  /\ LET s == sock[Fd(u)]
     IN IF pc[u] = "connecting"
        THEN /\ Go(u, "failed") \/ (s.peer # "rst" /\ Go(u, "send"))
             /\ UNCHANGED <<sock, got>>
        ELSE IF s.answers # <<>>
        THEN /\ got' = [got EXCEPT ![u] = Head(s.answers)]
             /\ sock' = [sock EXCEPT ![Fd(u)].answers = Tail(@)]
             /\ Go(u, "done")
        ELSE Go(u, "failed") /\ UNCHANGED <<sock, got>>
  /\ UNCHANGED <<cache, timers, conn, call, bounded>>

MayTimeOut(u) == Waits(u) /\ ~woken[u] /\ ~HangupSeen(u)
TimesOut(u) ==
  /\ MayTimeOut(u)
  /\ DelObj(u, Fd(u), Awaited(u))
  /\ running' = u
  /\ Go(u, "failed")
  /\ UNCHANGED <<cache, timers, sock, conn, call, woken, got, bounded>>

\* A send on a connection that was closed meanwhile may or may not fail.
Send(u) ==
  /\ running = u /\ pc[u] = "send"
  /\ \/ /\ Go(u, "recv")
        /\ sock' = [sock EXCEPT ![Fd(u)].asked = Append(@, call[u])]
     \/ /\ sock[Fd(u)].peer # "open"
        /\ Go(u, "failed") /\ UNCHANGED sock
  /\ UNCHANGED <<cache, timers, epoll, running, conn, call, woken, got, bounded>>

Return(u) ==
  /\ Go(u, "idle") /\ running' = Daemon
  /\ conn' = [conn EXCEPT ![u] = None]
  /\ call' = [call EXCEPT ![u] = 0] /\ got' = [got EXCEPT ![u] = 0]

\* FreeConnection(conn, ret < 0): a connection on which a call failed is closed.
MayKeep_Always(u) == pc[u] \in {"done", "failed"}
MayKeep(u) == pc[u] = "done"

\* CacheTcpKeepConn.  The list is LIFO: the connection used last is used first.
Keep(u) ==
  /\ running = u /\ MayKeep(u)
  /\ LET c == conn[u]
     IN /\ CanStartTimer(c) /\ StartTimer(c)
        /\ CanAddObj(c, osfd[c]) /\ AddObj(c, osfd[c], {"IN"})
        /\ flag' = [flag EXCEPT ![c] = {"IN_EPOLL", "IN_LIST"}]
        /\ keep_list' = [keep_list EXCEPT ![dst[c]] = <<c>> \o @]
  /\ Return(u)
  /\ UNCHANGED <<made, pool, dst, osfd, sock, woken, bounded>>

Close(u) ==
  /\ Discard(conn[u], flag[conn[u]]) /\ Forget(conn[u])
  /\ Return(u)
  /\ UNCHANGED <<keep_list, woken, calls>>

\* IdleAttach fails: the heap of timers is full.
NoTimer(u) ==
  /\ running = u /\ MayKeep(u) /\ ~CanStartTimer(conn[u])
  /\ StartTimer(conn[u]) /\ Close(u)
  /\ UNCHANGED faults

\* IdleAttach fails once the timer is started: epoll_ctl refuses the descriptor.
NotRegistered(u) ==
  /\ running = u /\ MayKeep(u) /\ CanStartTimer(conn[u])
  /\ faults < MaxFaults /\ faults' = faults + 1
  /\ StartTimer(conn[u]) /\ Close(u)

Failed(u) ==
  /\ running = u /\ pc[u] = "failed" /\ ~MayKeep(u)
  /\ Close(u)
  /\ UNCHANGED <<timers, faults>>

-----------------------------------------------------------------------------
(* Servers, and the rounds of the daemon.  What a server does while a thread runs
   is seen when that thread has waited, so servers act between turns. *)

\* The server takes a request and answers it.
Serve(fd) ==
  /\ running = Daemon /\ Open(fd) /\ sock[fd].peer = "open" /\ sock[fd].asked # <<>>
  /\ sock' = [sock EXCEPT ![fd].asked = Tail(@),
                          ![fd].answers = Append(@, Head(sock[fd].asked))]
  /\ UNCHANGED <<cache, timers, epoll, running, threads, got, bounded>>

\* The server closes the connection, or resets (refuses) it.
Hangup(fd) ==
  /\ running = Daemon /\ Open(fd) /\ sock[fd].peer = "open"
  /\ faults < MaxFaults /\ faults' = faults + 1
  /\ \E how \in {"fin", "rst"} : sock' = [sock EXCEPT ![fd].peer = how]
  /\ UNCHANGED <<cache, timers, epoll, running, threads, got, calls>>

Readable(fd) == sock[fd].answers # <<>> \/ sock[fd].peer = "fin"
HungUp(fd) == sock[fd].peer = "rst"

\* What epoll_wait returns: a hangup is reported whatever is listened for.
HasEvent(fd) ==
  \/ "IN" \in kernel[fd] /\ Readable(fd)
  \/ "OUT" \in kernel[fd] /\ ~HungUp(fd)
  \/ kernel[fd] # {} /\ HungUp(fd)

\* EpollRcvEventList for a thread that waits.  HangupNotify stops listening and
\* leaves the thread to its timeout.
DispatchThread(fd) ==
  /\ running = Daemon /\ HasEvent(fd)
  /\ \E u \in Users :
       /\ epobj[fd] = u
       /\ \/ HungUp(fd) /\ Ignore(fd, Awaited(u)) /\ UNCHANGED woken
          \/ /\ ~HungUp(fd) /\ ~woken[u]
             /\ woken' = [woken EXCEPT ![u] = TRUE] /\ UNCHANGED <<events, kernel>>
  /\ UNCHANGED <<cache, timers, epobj, sock, running, pc, conn, call, got, bounded>>

\* ... and for an idle connection: any event closes it.
DispatchIdle(fd) ==
  /\ running = Daemon /\ HasEvent(fd)
  /\ \E c \in Conns : epobj[fd] = c /\ DetachTimer(c) /\ CloseIdle(c)
  /\ UNCHANGED <<running, threads, got, bounded>>

\* check_expired, for the entry at the top of the heap
Expire(c) ==
  /\ running = Daemon
  /\ list # <<>> /\ c = Head(list) /\ value[c] = 1
  /\ Timers!HeapDelete(c)
  /\ CloseIdle(c)
  /\ UNCHANGED <<running, threads, got, bounded>>

Tick ==
  /\ running = Daemon /\ \E c \in Conns : value[c] > 1
  /\ value' = [c \in Conns |-> IF value[c] > 1 THEN value[c] - 1 ELSE value[c]]
  /\ UNCHANGED <<cache, list, index, epoll, sock, running, threads, got, bounded>>

-----------------------------------------------------------------------------
Run(u) == CreateSocket(u) \/ Connect(u) \/ Send(u) \/ Recv(u) \/ Keep(u)
          \/ NoTimer(u) \/ Failed(u)

Next ==
  \/ \E u \in Users :
       Run(u) \/ Resume(u) \/ TimesOut(u) \/ WaitFails(u) \/ \E d \in Dsts : Call(u, d)
  \/ \E fd \in Fds : Serve(fd) \/ Hangup(fd) \/ DispatchThread(fd) \/ DispatchIdle(fd)
  \/ \E c \in Conns : Expire(c)
  \/ Tick

Spec == Init /\ [][Next]_vars

\* ... with idle connections that cannot be registered
FaultySpec == Init /\ [][Next \/ \E u \in Users : NotRegistered(u)]_vars

\* A thread that was switched to runs on; the daemon goes on with its rounds and
\* time passes.  Servers need not answer.
Fairness ==
  /\ \A u \in Users : WF_vars(Run(u) \/ Resume(u) \/ TimesOut(u))
  /\ WF_vars(Tick \/ \E c \in Conns : Expire(c))
FairSpec == Spec /\ Fairness

-----------------------------------------------------------------------------
Flags == {"IN_EPOLL", "IN_LIST"}
Sockets == [to : Dsts \cup {None}, asked : Seq(1..MaxCalls), answers : Seq(1..MaxCalls),
            peer : {"open", "fin", "rst"}]
Steps == {"idle", "socket", "connect", "connecting", "send", "recv", "receiving",
          "done", "failed"}

\* Every variable keeps its type.
TypeOK ==
  /\ made \subseteq Conns /\ pool \in Seq(Conns) /\ Len(pool) <= MaxFree
  /\ dst \in [Conns -> Dsts \cup {None}] /\ osfd \in [Conns -> Fds \cup {None}]
  /\ flag \in [Conns -> SUBSET Flags]
  /\ keep_list \in [Dsts -> Seq(Conns)]
  /\ Timers!TypeOK
  /\ epobj \in [Fds -> Users \cup Conns \cup {None}]
  /\ events \in [Fds -> SUBSET {"IN", "OUT"}] /\ kernel \in [Fds -> SUBSET {"IN", "OUT"}]
  /\ sock \in [Fds -> Sockets]
  /\ running \in Users \cup {Daemon}
  /\ pc \in [Users -> Steps] /\ conn \in [Users -> Conns \cup {None}]
  /\ call \in [Users -> 0..MaxCalls] /\ woken \in [Users -> BOOLEAN]
  /\ got \in [Users -> 0..MaxCalls]
  /\ calls \in 0..MaxCalls /\ faults \in 0..MaxFaults

Occurrences(s, x) == Cardinality({i \in DOMAIN s : s[i] = x})

\* Every connection object that exists is in exactly one place, and only once: in
\* the pool, in the idle list of the server it leads to, or with one call.
OnePlace ==
  \A c \in Conns :
    LET inUse == {u \in Users : conn[u] = c}
        idleTo == {d \in Dsts : c \in Elems(keep_list[d])}
    IN /\ Occurrences(pool, c) + Cardinality(idleTo) + Cardinality(inUse)
            = IF c \in made THEN 1 ELSE 0
       /\ \A d \in idleTo : Occurrences(keep_list[d], c) = 1 /\ dst[c] = d
       /\ Idle(c) <=> idleTo # {}

\* The connections that have a timer are the idle ones: a timer that outlived its
\* connection's idleness would close it under the call that uses it next.
TimerIffIdle == \A c \in Conns : index[c] # 0 <=> Idle(c)

\* Each connection has a socket of its own, open, to the server the connection is
\* for; no socket is open that no connection has.
RightPeer ==
  /\ \A c \in Conns : osfd[c] # None => Open(osfd[c]) /\ sock[osfd[c]].to = dst[c]
  /\ \A fd \in Fds : Open(fd) => Cardinality({c \in Conns : osfd[c] = fd}) = 1

\* The library's table of descriptors agrees with what epoll watches, and an entry
\* belongs to the idle connection or the waiting call that has the descriptor;
\* nothing is left of a descriptor that was closed, whose number is used again.
Registered ==
  \A fd \in Fds :
    /\ events[fd] = kernel[fd]
    /\ epobj[fd] = None => kernel[fd] = {}
    /\ epobj[fd] # None =>
         \/ \E c \in Conns : epobj[fd] = c /\ Idle(c) /\ osfd[c] = fd /\ kernel[fd] = {"IN"}
         \/ \E u \in Users : epobj[fd] = u /\ Fd(u) = fd
                             /\ pc[u] \in {"connecting", "receiving"}

\* A descriptor means the same to the connection, to the library and to the kernel.
Descriptors == RightPeer /\ Registered

\* An answer goes to the call that asked, although connections are used again
\* after others, and an answer may come after its call has timed out.
OwnAnswer == \A u \in Users : got[u] # 0 => got[u] = call[u]

\* The socket of a connection in use is opened and closed by the call that uses it.
InUseUntouched ==
  [][\A u \in Users : conn[u] # None /\ running # u => osfd'[conn[u]] = osfd[conn[u]]]_vars

\* A connection does not stay idle for ever.
Expires == \A c \in Conns : Idle(c) ~> ~Idle(c)

\* Every call returns, whatever the server does.
CallsReturn == \A u \in Users : pc[u] # "idle" ~> pc[u] = "idle"

\* Neither calls nor idle connections stay for ever.
Ends == CallsReturn /\ Expires
=============================================================================
