--------------------------- MODULE TcpKeep_proofs ---------------------------
(***************************************************************************)
(* Calls over TCP and the cache of idle connections, for any number of     *)
(* threads, connections, servers and descriptors: each connection is in    *)
(* one place, its timer, socket and registration agree with that place,    *)
(* and an answer goes to the call that asked.                              *)
(***************************************************************************)
EXTENDS TcpKeep, SequenceTheorems, FiniteSetTheorems, WellFoundedInduction, TLAPS

\* The proved facts about the heap, for the heap of timers.
Heap == INSTANCE Heap_proofs WITH
  Entries <- Conns, Max <- MaxTimers, Times <- 1..KeepTime + 1

Distinct(s) == \A i, j \in DOMAIN s : s[i] = s[j] => i = j
Waiting(u) == pc[u] \in {"connecting", "receiving"}

\* The connection a thread uses is its own, and is not idle.
CallsInv ==
  /\ \A u, w \in Users : conn[u] # None /\ conn[u] = conn[w] => u = w
  /\ \A u \in Users :
       /\ pc[u] = "idle" <=> conn[u] = None
       /\ pc[u] # "idle" =>
            /\ conn[u] \in made /\ dst[conn[u]] \in Dsts /\ flag[conn[u]] = {}
            /\ call[u] # 0
       /\ pc[u] \notin {"idle", "socket", "failed"} => Fd(u) # None
       /\ got[u] # 0 => pc[u] = "done" /\ got[u] = call[u]

\* An object without a use has no address, socket or flag.
Blank(c) == dst[c] = None /\ osfd[c] = None /\ flag[c] = {}
PoolInv ==
  /\ Distinct(pool)
  /\ \A c \in Conns : c \in Elems(pool) => c \in made
  /\ \A c \in Conns : c \notin made \/ c \in Elems(pool) => Blank(c)

\* A connection in the list of a server is idle and registered.
ListInv ==
  /\ \A d \in Dsts : Distinct(keep_list[d])
  /\ \A d \in Dsts, c \in Conns : c \in Elems(keep_list[d]) =>
       dst[c] = d /\ flag[c] = Flags /\ osfd[c] # None

EveryInv ==
  /\ \A c \in Conns : Idle(c) => \E d \in Dsts : c \in Elems(keep_list[d])
  /\ \A c \in made : c \in Elems(pool) \/ Idle(c) \/ \E u \in Users : conn[u] = c

SocketInv ==
  /\ \A c, e \in Conns : osfd[c] # None /\ osfd[c] = osfd[e] => c = e
  /\ \A c \in Conns : osfd[c] # None => Open(osfd[c]) /\ sock[osfd[c]].to = dst[c]
  /\ \A fd \in Fds : Open(fd) => \E c \in Conns : osfd[c] = fd
  /\ \A fd \in Fds : ~Open(fd) => sock[fd] = Closed

RegInv ==
  /\ \A fd \in Fds :
       /\ events[fd] = kernel[fd]
       /\ epobj[fd] = None => kernel[fd] = {}
       /\ \A c \in Conns : epobj[fd] = c => Idle(c) /\ osfd[c] = fd /\ kernel[fd] = {"IN"}
       /\ \A u \in Users : epobj[fd] = u =>
            Waiting(u) /\ Fd(u) = fd /\ kernel[fd] \subseteq Awaited(u)
  /\ \A c \in Conns : Idle(c) => epobj[osfd[c]] = c
  /\ \A u \in Users : Waiting(u) => epobj[Fd(u)] = u

TimerInv == Timers!IndexCorrect /\ TimerIffIdle

\* Nothing is under way on a connection but the request of the call that uses it.
Quiet(c) == osfd[c] # None => sock[osfd[c]].asked = <<>> /\ sock[osfd[c]].answers = <<>>
Asked(fd, k) ==
  \/ sock[fd].asked = <<k>> /\ sock[fd].answers = <<>>
  \/ sock[fd].asked = <<>> /\ sock[fd].answers = <<k>>
DataInv ==
  /\ \A c \in Conns : Idle(c) => Quiet(c)
  /\ \A u \in Users :
       /\ pc[u] \in {"socket", "connect", "connecting", "send", "done"} => Quiet(conn[u])
       /\ pc[u] \in {"recv", "receiving"} => Asked(Fd(u), call[u])

IInv ==
  /\ TypeOK /\ CallsInv /\ PoolInv /\ ListInv /\ EveryInv /\ SocketInv /\ RegInv
  /\ TimerInv /\ DataInv

-----------------------------------------------------------------------------
(* What a state that satisfies the invariant is like.                          *)

\* The types, but for the heap of timers and the sequences.
LEMMA Types ==
  ASSUME IInv
  PROVE  /\ made \subseteq Conns
         /\ dst \in [Conns -> Dsts \cup {None}] /\ osfd \in [Conns -> Fds \cup {None}]
         /\ flag \in [Conns -> SUBSET Flags]
         /\ epobj \in [Fds -> Users \cup Conns \cup {None}]
         /\ events \in [Fds -> SUBSET {"IN", "OUT"}]
         /\ kernel \in [Fds -> SUBSET {"IN", "OUT"}]
         /\ sock \in [Fds -> Sockets]
         /\ running \in Users \cup {Daemon}
         /\ pc \in [Users -> Steps] /\ conn \in [Users -> Conns \cup {None}]
         /\ call \in [Users -> 0..MaxCalls] /\ woken \in [Users -> BOOLEAN]
         /\ got \in [Users -> 0..MaxCalls]
         /\ None \notin Users /\ None \notin Conns /\ None \notin Dsts /\ None \notin Fds
         /\ Users \cap Conns = {} /\ Daemon \notin Users
BY KeepAssumption DEF IInv, TypeOK

\* The connection of a call.
LEMMA CallFacts ==
  ASSUME IInv, NEW u \in Users, pc[u] # "idle"
  PROVE  /\ conn[u] \in Conns /\ conn[u] \in made /\ conn[u] # None
         /\ dst[conn[u]] \in Dsts /\ flag[conn[u]] = {} /\ ~Idle(conn[u])
         /\ call[u] \in 1..MaxCalls
         /\ \A w \in Users : conn[w] = conn[u] => w = u
         /\ pc[u] \notin {"idle", "socket", "failed"} => Fd(u) \in Fds
         /\ Fd(u) # None => Fd(u) \in Fds /\ Open(Fd(u)) /\ sock[Fd(u)].to = dst[conn[u]]
<1>1. /\ conn[u] # None /\ conn[u] \in made /\ dst[conn[u]] \in Dsts /\ flag[conn[u]] = {}
      /\ call[u] # 0 /\ \A w \in Users : conn[w] = conn[u] => w = u
      /\ pc[u] \notin {"idle", "socket", "failed"} => Fd(u) # None
  BY DEF IInv, CallsInv
<1>2. conn[u] \in Conns /\ call[u] \in 0..MaxCalls /\ MaxCalls \in Nat
  BY <1>1, Types, KeepAssumption
<1>3. osfd[conn[u]] \in Fds \cup {None} /\ (osfd[conn[u]] # None =>
        Open(osfd[conn[u]]) /\ sock[osfd[conn[u]]].to = dst[conn[u]])
  BY <1>2, Types DEF IInv, SocketInv
<1>4. call[u] \in 1..MaxCalls
  BY <1>1, <1>2
<1> QED
  BY <1>1, <1>2, <1>3, <1>4 DEF Fd, Idle

\* Only a thread that waits has its descriptor registered for it.
LEMMA Unregistered ==
  ASSUME IInv, NEW u \in Users, pc[u] # "idle", Fd(u) # None, ~Waiting(u)
  PROVE  epobj[Fd(u)] = None /\ kernel[Fd(u)] = {} /\ events[Fd(u)] = {}
<1>1. Fd(u) \in Fds /\ conn[u] \in Conns /\ conn[u] # None /\ ~Idle(conn[u])
      /\ \A w \in Users : conn[w] = conn[u] => w = u
  BY CallFacts
<1>2. epobj[Fd(u)] \in Users \cup Conns \cup {None}
  BY <1>1, Types
<1>3. ASSUME NEW c \in Conns, epobj[Fd(u)] = c PROVE FALSE
  <2>1. Idle(c) /\ osfd[c] = Fd(u)
    BY <1>1, <1>3 DEF IInv, RegInv
  <2>2. c = conn[u]
    BY <1>1, <2>1 DEF IInv, SocketInv, Fd
  <2> QED
    BY <1>1, <2>1, <2>2
<1>4. ASSUME NEW w \in Users, epobj[Fd(u)] = w PROVE FALSE
  <2>1. Waiting(w) /\ Fd(w) = Fd(u)
    BY <1>1, <1>4 DEF IInv, RegInv
  <2>2. conn[w] \in Conns
    BY <2>1, CallFacts DEF Waiting
  <2>3. conn[w] = conn[u]
    BY <1>1, <2>1, <2>2 DEF IInv, SocketInv, Fd
  <2> QED
    BY <1>1, <2>1, <2>3
<1>5. epobj[Fd(u)] = None
  BY <1>2, <1>3, <1>4
<1> QED
  BY <1>1, <1>5 DEF IInv, RegInv

\* The sockets as records.
LEMMA SocketFields ==
  ASSUME NEW s \in Sockets
  PROVE  /\ s.to \in Dsts \cup {None} /\ s.peer \in {"open", "fin", "rst"}
         /\ s.asked \in Seq(1..MaxCalls) /\ s.answers \in Seq(1..MaxCalls)
BY DEF Sockets

-----------------------------------------------------------------------------
(* Steps of a call that leave the cache and the timers alone.                  *)

\* The parts of the invariant that such a step cannot disturb.
LEMMA CacheFrame ==
  ASSUME IInv, UNCHANGED <<cache, timers, conn>>
  PROVE  PoolInv' /\ ListInv' /\ EveryInv' /\ TimerInv'
<1>1. PoolInv'
  BY DEF IInv, cache, PoolInv, Distinct, Blank, Elems
<1>2. ListInv'
  BY DEF IInv, cache, ListInv, Distinct, Elems
<1>3. EveryInv'
  BY DEF IInv, cache, EveryInv, Idle, Elems
<1>4. TimerInv'
  BY DEF IInv, cache, timers, TimerInv, TimerIffIdle, Idle, Timers!IndexCorrect, Timers!Elems
<1> QED
  BY <1>1, <1>2, <1>3, <1>4

\* The types a step keeps that leaves the cache and the timers alone.
LEMMA TypesKept ==
  ASSUME IInv, UNCHANGED <<cache, timers>>,
         epobj' \in [Fds -> Users \cup Conns \cup {None}],
         events' \in [Fds -> SUBSET {"IN", "OUT"}],
         kernel' \in [Fds -> SUBSET {"IN", "OUT"}],
         sock' \in [Fds -> Sockets], running' \in Users \cup {Daemon},
         pc' \in [Users -> Steps], conn' \in [Users -> Conns \cup {None}],
         call' \in [Users -> 0..MaxCalls], woken' \in [Users -> BOOLEAN],
         got' \in [Users -> 0..MaxCalls], calls' \in 0..MaxCalls, faults' \in 0..MaxFaults
  PROVE  TypeOK'
BY DEF IInv, TypeOK, cache, timers, Timers!TypeOK

\* A call gives up.
LEMMA FailStep ==
  ASSUME IInv, NEW u \in Users, pc[u] # "idle", ~Waiting(u), got[u] = 0,
         Go(u, "failed"), faults' \in 0..MaxFaults,
         UNCHANGED <<cache, timers, epoll, sock, running, conn, call, woken, got, calls>>
  PROVE  IInv'
<1>1. pc' = [pc EXCEPT ![u] = "failed"] /\ pc \in [Users -> Steps]
  BY Types DEF Go
<1>2. TypeOK'
  <2>1. pc' \in [Users -> Steps]
    BY <1>1 DEF Steps
  <2> QED
    BY <2>1, TypesKept, Types DEF epoll, IInv, TypeOK
<1>3. CallsInv'
  BY <1>1 DEF IInv, CallsInv, cache, Fd
<1>4. SocketInv'
  BY DEF IInv, SocketInv, cache, Open
<1>5. RegInv'
  BY <1>1 DEF IInv, RegInv, cache, epoll, Waiting, Fd, Awaited, Idle
<1>6. DataInv'
  BY <1>1 DEF IInv, DataInv, cache, Quiet, Asked, Fd, Idle
<1> QED
  BY <1>2, <1>3, <1>4, <1>5, <1>6, CacheFrame DEF IInv

LEMMA WaitStep ==
  ASSUME IInv, NEW u \in Users, NEW evs, NEW step,
         \/ pc[u] = "connect" /\ evs = {"OUT"} /\ step = "connecting"
         \/ pc[u] = "recv" /\ evs = {"IN"} /\ step = "receiving",
         Wait(u, evs, step)
  PROVE  IInv'
<1> DEFINE fd == Fd(u)
<1>0. pc[u] # "idle" /\ pc[u] \notin {"idle", "socket", "failed", "done"} /\ ~Waiting(u)
  BY DEF Waiting
<1>1. /\ conn[u] \in Conns /\ conn[u] # None /\ fd \in Fds /\ fd # None
      /\ \A w \in Users : conn[w] = conn[u] => w = u
      /\ epobj[fd] = None /\ kernel[fd] = {} /\ events[fd] = {} /\ got[u] = 0
  BY <1>0, CallFacts, Types, Unregistered DEF IInv, CallsInv
<1>2. CASE ~CanAddObj(u, fd)
  <2>1. Go(u, "failed") /\ UNCHANGED <<epoll, running>>
        /\ UNCHANGED <<cache, timers, sock, conn, call, woken, got, bounded>>
    BY <1>2 DEF Wait
  <2>2. faults' \in 0..MaxFaults
    BY <2>1 DEF bounded, IInv, TypeOK
  <2> QED
    BY <1>0, <1>1, <2>1, <2>2, FailStep DEF bounded
<1>3. CASE CanAddObj(u, fd)
  <2>1. /\ epobj' = [epobj EXCEPT ![fd] = u] /\ pc' = [pc EXCEPT ![u] = step]
        /\ events' = [events EXCEPT ![fd] = @ \cup evs] /\ running' = Daemon
        /\ kernel' = IF evs \subseteq events[fd] THEN kernel
                     ELSE [kernel EXCEPT ![fd] = events[fd] \cup evs]
        /\ UNCHANGED <<cache, timers, sock, conn, call, woken, got, bounded>>
    BY <1>3 DEF Wait, AddObj, Listen, Go
  <2>2. /\ events' = [events EXCEPT ![fd] = evs] /\ kernel' = [kernel EXCEPT ![fd] = evs]
    BY <1>1, <2>1, Types, ZenonT(60)
  <2>3. TypeOK'
    <3>1. pc' \in [Users -> Steps]
      BY <2>1, Types DEF Steps
    <3>2. evs \in SUBSET {"IN", "OUT"}
      OBVIOUS
    <3>3. events' \in [Fds -> SUBSET {"IN", "OUT"}] /\ kernel' \in [Fds -> SUBSET {"IN", "OUT"}]
      BY <2>2, <3>2, Types
    <3>4. epobj' \in [Fds -> Users \cup Conns \cup {None}]
      BY <2>1, Types
    <3> QED
      BY <2>1, <3>1, <3>3, <3>4, TypesKept, Types DEF IInv, TypeOK, bounded
  <2>4. CallsInv'
    BY <1>0, <1>1, <2>1, Types DEF IInv, CallsInv, cache, Fd
  <2>5. SocketInv'
    BY <2>1 DEF IInv, SocketInv, cache, Open
  <2>6. DataInv'
    BY <2>1, Types DEF IInv, DataInv, cache, Quiet, Asked, Fd, Idle
  <2>7. \A w \in Users : pc'[w] = IF w = u THEN step ELSE pc[w]
    BY <2>1, Types
  <2>8. \A w \in Users : Waiting(w) <=> pc[w] \in {"connecting", "receiving"}
    BY DEF Waiting
  <2>9. RegInv'
    <3>1. Waiting(u)' /\ Fd(u)' = fd /\ Awaited(u)' = evs
      BY <2>1, <2>7 DEF Waiting, Fd, Awaited, cache
    <3>2. \A w \in Users : w # u => /\ Waiting(w)' = Waiting(w) /\ Fd(w)' = Fd(w)
                                    /\ Awaited(w)' = Awaited(w)
      BY <2>1, <2>7 DEF Waiting, Fd, Awaited, cache
    <3>3. ASSUME NEW f \in Fds
          PROVE /\ events'[f] = kernel'[f]
                /\ epobj'[f] = None => kernel'[f] = {}
                /\ \A c \in Conns : epobj'[f] = c =>
                     Idle(c)' /\ osfd'[c] = f /\ kernel'[f] = {"IN"}
                /\ \A w \in Users : epobj'[f] = w =>
                     Waiting(w)' /\ Fd(w)' = f /\ kernel'[f] \subseteq Awaited(w)'
      <4>1. CASE f = fd
        BY <4>1, <1>1, <2>1, <2>2, <3>1, Types
      <4>2. CASE f # fd
        <5>1. epobj'[f] = epobj[f] /\ events'[f] = events[f] /\ kernel'[f] = kernel[f]
          BY <4>2, <2>1, <2>2, Types
        <5>2. epobj[f] # u
          BY <4>2 DEF IInv, RegInv
        <5> QED
          BY <5>1, <5>2, <2>1, <3>2 DEF IInv, RegInv, Idle, cache
      <4> QED
        BY <4>1, <4>2
    <3>4. ASSUME NEW c \in Conns, Idle(c)' PROVE epobj'[osfd'[c]] = c
      <4>1. Idle(c) /\ epobj[osfd[c]] = c /\ osfd' = osfd
        BY <3>4, <2>1 DEF IInv, RegInv, Idle, cache
      <4>2. osfd[c] # fd
        BY <4>1, <1>1, Types
      <4> QED
        BY <4>1, <4>2, <2>1, <1>1, Types
    <3>5. ASSUME NEW w \in Users, Waiting(w)' PROVE epobj'[Fd(w)'] = w
      <4>1. CASE w = u
        BY <4>1, <1>1, <2>1, <3>1, Types
      <4>2. CASE w # u
        <5>1. Waiting(w) /\ epobj[Fd(w)] = w /\ Fd(w)' = Fd(w)
          BY <4>2, <3>2, <3>5 DEF IInv, RegInv
        <5>2. Fd(w) # fd
          BY <5>1, <1>1, Types
        <5> QED
          BY <5>1, <5>2, <2>1, <1>1, Types
      <4> QED
        BY <4>1, <4>2
    <3> QED
      BY <3>3, <3>4, <3>5 DEF RegInv
  <2> QED
    BY <2>1, <2>3, <2>4, <2>5, <2>6, <2>9, CacheFrame DEF IInv
<1> QED
  BY <1>2, <1>3

\* A thread that goes on takes its descriptor from the tables.
LEMMA Unwatched ==
  ASSUME IInv, NEW u \in Users, Waiting(u), DelObj(u, Fd(u), Awaited(u))
  PROVE  /\ Fd(u) \in Fds /\ epobj[Fd(u)] = u
         /\ epobj' = [epobj EXCEPT ![Fd(u)] = None]
         /\ events' = [events EXCEPT ![Fd(u)] = {}]
         /\ kernel' = [kernel EXCEPT ![Fd(u)] = {}]
<1> DEFINE fd == Fd(u)
           evs == Awaited(u)
<1>1. fd \in Fds
  BY CallFacts DEF Waiting
<1>2. epobj[fd] = u /\ events[fd] = kernel[fd] /\ kernel[fd] \subseteq evs
  BY <1>1 DEF IInv, RegInv
<1>3. /\ epobj' = [epobj EXCEPT ![fd] = None]
      /\ events' = [events EXCEPT ![fd] = events[fd] \ evs]
      /\ kernel' = IF evs \cap events[fd] = {} THEN kernel
                   ELSE [kernel EXCEPT ![fd] = events[fd] \ evs]
  BY <1>2 DEF DelObj, Ignore
<1> HIDE DEF evs, fd
<1>4. events[fd] \ evs = {}
  BY <1>2
<1>5. evs \cap events[fd] = {} => kernel[fd] = {} /\ kernel = [kernel EXCEPT ![fd] = {}]
  BY <1>1, <1>2, Types
<1> QED
  BY <1>1, <1>2, <1>3, <1>4, <1>5 DEF fd

\* ... and nobody else's.
LEMMA LeaveRegs ==
  ASSUME IInv, NEW u \in Users, Waiting(u), DelObj(u, Fd(u), Awaited(u)),
         NEW step, step \in Steps \ {"connecting", "receiving"}, Go(u, step),
         UNCHANGED <<cache, timers, conn>>
  PROVE  /\ epobj' \in [Fds -> Users \cup Conns \cup {None}]
         /\ events' \in [Fds -> SUBSET {"IN", "OUT"}]
         /\ kernel' \in [Fds -> SUBSET {"IN", "OUT"}]
         /\ pc' \in [Users -> Steps] /\ RegInv'
<1> DEFINE fd == Fd(u)
<1>1. /\ fd \in Fds /\ epobj[fd] = u
      /\ epobj' = [epobj EXCEPT ![fd] = None] /\ events' = [events EXCEPT ![fd] = {}]
      /\ kernel' = [kernel EXCEPT ![fd] = {}]
  BY Unwatched
<1>2. pc' = [pc EXCEPT ![u] = step] /\ pc' \in [Users -> Steps]
      /\ \A w \in Users : pc'[w] = IF w = u THEN step ELSE pc[w]
  BY Types DEF Go
<1>3. /\ epobj' \in [Fds -> Users \cup Conns \cup {None}]
      /\ events' \in [Fds -> SUBSET {"IN", "OUT"}] /\ kernel' \in [Fds -> SUBSET {"IN", "OUT"}]
  BY <1>1, Types
<1>4. ~Waiting(u)'
  BY <1>2 DEF Waiting
<1>5. \A w \in Users : w # u => /\ Waiting(w)' = Waiting(w) /\ Fd(w)' = Fd(w)
                                /\ Awaited(w)' = Awaited(w)
  BY <1>2 DEF Waiting, Fd, Awaited, cache
<1> HIDE DEF fd
<1>6. ASSUME NEW f \in Fds
      PROVE /\ events'[f] = kernel'[f]
            /\ epobj'[f] = None => kernel'[f] = {}
            /\ \A c \in Conns : epobj'[f] = c =>
                 Idle(c)' /\ osfd'[c] = f /\ kernel'[f] = {"IN"}
            /\ \A w \in Users : epobj'[f] = w =>
                 Waiting(w)' /\ Fd(w)' = f /\ kernel'[f] \subseteq Awaited(w)'
  <2>1. CASE f = fd
    BY <2>1, <1>1, Types
  <2>2. CASE f # fd
    <3>1. epobj'[f] = epobj[f] /\ events'[f] = events[f] /\ kernel'[f] = kernel[f]
      BY <2>2, <1>1, Types
    <3>2. epobj[f] # u
      BY <2>2 DEF IInv, RegInv, fd
    <3> QED
      BY <3>1, <3>2, <1>5 DEF IInv, RegInv, Idle, cache
  <2> QED
    BY <2>1, <2>2
<1>7. ASSUME NEW c \in Conns, Idle(c)' PROVE epobj'[osfd'[c]] = c
  <2>1. Idle(c) /\ epobj[osfd[c]] = c /\ osfd' = osfd
    BY <1>7 DEF IInv, RegInv, Idle, cache
  <2>2. osfd[c] # fd
    BY <2>1, <1>1, Types
  <2> QED
    BY <2>1, <2>2, <1>1, Types
<1>8. ASSUME NEW w \in Users, Waiting(w)' PROVE epobj'[Fd(w)'] = w
  <2>1. w # u /\ Waiting(w) /\ epobj[Fd(w)] = w /\ Fd(w)' = Fd(w)
    BY <1>4, <1>5, <1>8 DEF IInv, RegInv
  <2>2. Fd(w) # fd
    BY <2>1, <1>1, Types
  <2> QED
    BY <2>1, <2>2, <1>1, Types
<1>9. RegInv'
  BY <1>6, <1>7, <1>8 DEF RegInv
<1> QED
  BY <1>2, <1>3, <1>9

LEMMA TimesOutStep ==
  ASSUME IInv, NEW u \in Users, TimesOut(u)
  PROVE  IInv'
<1>1. /\ Waiting(u) /\ pc[u] # "idle" /\ DelObj(u, Fd(u), Awaited(u)) /\ running' = u
      /\ Go(u, "failed") /\ pc' = [pc EXCEPT ![u] = "failed"]
      /\ UNCHANGED <<cache, timers, sock, conn, call, woken, got, bounded>>
  BY DEF TimesOut, MayTimeOut, Waits, Waiting, Go
<1>2. /\ epobj' \in [Fds -> Users \cup Conns \cup {None}]
      /\ events' \in [Fds -> SUBSET {"IN", "OUT"}] /\ kernel' \in [Fds -> SUBSET {"IN", "OUT"}]
      /\ pc' \in [Users -> Steps] /\ RegInv'
  BY <1>1, LeaveRegs DEF Steps
<1>3. TypeOK'
  BY <1>1, <1>2, TypesKept, Types DEF IInv, TypeOK, bounded
<1>4. CallsInv'
  BY <1>1, Types DEF IInv, CallsInv, cache, Fd, Waiting
<1>5. SocketInv'
  BY <1>1 DEF IInv, SocketInv, cache, Open
<1>6. DataInv'
  BY <1>1, Types DEF IInv, DataInv, cache, Quiet, Asked, Fd, Idle
<1> QED
  BY <1>1, <1>2, <1>3, <1>4, <1>5, <1>6, CacheFrame DEF IInv

\* What a change of one socket's data does to the others.
LEMMA SocketFrame ==
  ASSUME IInv, NEW fd \in Fds, Open(fd), NEW s \in Sockets, s.to = sock[fd].to,
         sock' = [sock EXCEPT ![fd] = s], UNCHANGED cache
  PROVE  /\ sock' \in [Fds -> Sockets] /\ SocketInv'
         /\ sock'[fd] = s /\ \A f \in Fds : f # fd => sock'[f] = sock[f]
<1>1. sock' \in [Fds -> Sockets] /\ sock'[fd] = s /\ \A f \in Fds : f # fd => sock'[f] = sock[f]
  BY Types
<1>2. \A f \in Fds : sock'[f].to = sock[f].to
  BY <1>1
<1>3. \A c \in Conns : osfd[c] # None => osfd[c] \in Fds
  BY Types
<1>4. SocketInv'
  BY <1>1, <1>2, <1>3 DEF IInv, SocketInv, Open, cache
<1> QED
  BY <1>1, <1>4

\* The connections of others have other descriptors.
LEMMA OtherConns ==
  ASSUME IInv, NEW u \in Users, pc[u] # "idle", NEW c \in Conns, c # conn[u], Fd(u) # None
  PROVE  osfd[c] # Fd(u)
BY CallFacts DEF IInv, SocketInv, Fd

LEMMA ResumeStep ==
  ASSUME IInv, NEW u \in Users, Resume(u)
  PROVE  IInv'
<1> DEFINE fd == Fd(u)
           s == sock[fd]
           step == pc'[u]
<1>1. /\ Waiting(u) /\ pc[u] # "idle" /\ DelObj(u, fd, Awaited(u)) /\ running' = u
      /\ woken' = [woken EXCEPT ![u] = FALSE]
      /\ UNCHANGED <<cache, timers, conn, call, bounded>>
      /\ \/ /\ pc[u] = "connecting" /\ UNCHANGED <<sock, got>>
            /\ Go(u, "send") \/ Go(u, "failed")
         \/ /\ pc[u] = "receiving" /\ s.answers # <<>> /\ Go(u, "done")
            /\ got' = [got EXCEPT ![u] = Head(s.answers)]
            /\ sock' = [sock EXCEPT ![fd].answers = Tail(@)]
         \/ pc[u] = "receiving" /\ Go(u, "failed") /\ UNCHANGED <<sock, got>>
  BY DEF Resume, Waits, Waiting
<1>2. PICK st \in Steps \ {"connecting", "receiving"} :
        Go(u, st) /\ st \in {"send", "failed", "done"}
  <2>1. {"send", "failed", "done"} \subseteq Steps \ {"connecting", "receiving"}
    BY DEF Steps
  <2> QED
    BY <1>1, <2>1
<1>3. pc' = [pc EXCEPT ![u] = st] /\ st # "idle"
  BY <1>2 DEF Go
<1>4. /\ epobj' \in [Fds -> Users \cup Conns \cup {None}]
      /\ events' \in [Fds -> SUBSET {"IN", "OUT"}] /\ kernel' \in [Fds -> SUBSET {"IN", "OUT"}]
      /\ pc' \in [Users -> Steps] /\ RegInv'
  BY <1>1, <1>2, LeaveRegs
<1>5. /\ conn[u] \in Conns /\ conn[u] # None /\ fd \in Fds /\ fd # None /\ Open(fd)
      /\ call[u] \in 1..MaxCalls /\ ~Idle(conn[u])
      /\ \A w \in Users : conn[w] = conn[u] => w = u
  BY <1>1, CallFacts, Types, ZenonT(60) DEF Waiting
<1>6. s \in Sockets
  BY <1>5, Types
<1>7. woken' \in [Users -> BOOLEAN]
  BY <1>1, Types
<1> HIDE DEF step
<1>8. CASE UNCHANGED <<sock, got>> /\ (st = "failed" \/ pc[u] = "connecting")
  <2>0. pc[u] = "connecting" => st \in {"send", "failed"}
    BY <1>1, <1>3, Types DEF Go
  <2>1. TypeOK'
    BY <1>1, <1>4, <1>7, <1>8, TypesKept, Types DEF IInv, TypeOK, bounded
  <2>2. CallsInv'
    BY <1>1, <1>3, <1>8, Types DEF IInv, CallsInv, cache, Fd, Waiting
  <2>3. SocketInv'
    BY <1>1, <1>8 DEF IInv, SocketInv, cache, Open
  <2>4. DataInv'
    BY <2>0, <1>1, <1>3, <1>8, Types DEF IInv, DataInv, cache, Quiet, Asked, Fd, Idle
  <2> QED
    BY <1>1, <1>4, <2>1, <2>2, <2>3, <2>4, CacheFrame DEF IInv
<1>9. CASE /\ pc[u] = "receiving" /\ s.answers # <<>> /\ Go(u, "done")
           /\ got' = [got EXCEPT ![u] = Head(s.answers)]
           /\ sock' = [sock EXCEPT ![fd].answers = Tail(@)]
  <2> DEFINE t == [s EXCEPT !.answers = Tail(@)]
  <2>1. s.asked = <<>> /\ s.answers = <<call[u]>>
    BY <1>9 DEF IInv, DataInv, Asked
  <2>2. Head(s.answers) = call[u] /\ Tail(s.answers) = <<>>
    BY <2>1
  <2>3. /\ t \in Sockets /\ t.to = s.to /\ t.asked = <<>> /\ t.answers = <<>>
        /\ sock' = [sock EXCEPT ![fd] = t]
    <3>1. t = [s EXCEPT !.answers = <<>>]
      BY <2>2
    <3>2. <<>> \in Seq(1..MaxCalls)
      BY EmptySeq
    <3>3. t \in Sockets /\ t.to = s.to /\ t.asked = <<>> /\ t.answers = <<>>
      BY <1>6, <2>1, <3>1, <3>2 DEF Sockets
    <3>4. sock' = [sock EXCEPT ![fd] = t]
      BY <1>9
    <3> QED
      BY <3>3, <3>4
  <2> HIDE DEF t, s
  <2>4. /\ sock' \in [Fds -> Sockets] /\ SocketInv' /\ sock'[fd] = t
        /\ \A f \in Fds : f # fd => sock'[f] = sock[f]
    BY <2>3, <1>1, <1>5, SocketFrame DEF s
  <2>5. /\ got' \in [Users -> 0..MaxCalls] /\ got'[u] = call[u]
        /\ \A w \in Users : w # u => got'[w] = got[w]
    BY <1>5, <1>9, <2>2, Types DEF s
  <2>6. pc'[u] = "done" /\ \A w \in Users : w # u => pc'[w] = pc[w]
    BY <1>9, Types DEF Go
  <2>7. TypeOK'
    BY <1>1, <1>4, <1>7, <2>4, <2>5, TypesKept, Types DEF IInv, TypeOK, bounded
  <2>8. CallsInv'
    BY <1>1, <1>5, <2>5, <2>6 DEF IInv, CallsInv, cache, Fd
  <2>9. DataInv'
    <3>1. \A c \in Conns : c # conn[u] => osfd[c] # fd /\ osfd[c] \in Fds \cup {None}
      BY <1>1, <1>5, OtherConns, Types
    <3>2. \A c \in Conns : Quiet(c) => Quiet(c)'
      BY <3>1, <2>3, <2>4, <1>1, <1>5 DEF Quiet, cache, Fd
    <3>3. Quiet(conn[u])' /\ conn'[u] = conn[u]
      BY <2>3, <2>4, <1>1, <1>5, SMTT(40) DEF Quiet, cache, Fd
    <3>4. ASSUME NEW w \in Users, pc[w] \in {"recv", "receiving"}, w # u
          PROVE  Asked(Fd(w), call[w]) => Asked(Fd(w), call[w])'
      <4>1. conn[w] \in Conns /\ conn[w] # conn[u] /\ Fd(w) \in Fds /\ Fd(w) # fd
        BY <3>1, <3>4, <1>5, CallFacts DEF Fd
      <4> QED
        BY <4>1, <2>4, <1>1 DEF Asked, Fd, cache
    <3>5. \A w \in Users : pc[w] # "idle" => conn[w] \in Conns /\ conn'[w] = conn[w]
      BY <1>1, CallFacts
    <3>6. \A c \in Conns : Idle(c)' => Quiet(c)'
      BY <3>2, <1>1 DEF IInv, DataInv, Idle, cache
    <3>7. ASSUME NEW w \in Users,
                 pc'[w] \in {"socket", "connect", "connecting", "send", "done"}
          PROVE  Quiet(conn[w])'
      BY <3>2, <3>3, <3>5, <3>7, <2>6 DEF IInv, DataInv
    <3>8. ASSUME NEW w \in Users, pc'[w] \in {"recv", "receiving"}
          PROVE  Asked(Fd(w), call[w])'
      BY <3>4, <3>8, <2>6 DEF IInv, DataInv
    <3> QED
      BY <3>6, <3>7, <3>8 DEF DataInv
  <2> QED
    BY <1>1, <1>4, <2>4, <2>7, <2>8, <2>9, CacheFrame DEF IInv
<1> QED
  BY <1>1, <1>3, <1>8, <1>9, Types DEF Go

LEMMA SendStep ==
  ASSUME IInv, NEW u \in Users, Send(u)
  PROVE  IInv'
<1> DEFINE fd == Fd(u)
           s == sock[fd]
<1>1. /\ pc[u] = "send" /\ pc[u] # "idle" /\ ~Waiting(u)
      /\ UNCHANGED <<cache, timers, epoll, running, conn, call, woken, got, bounded>>
      /\ \/ Go(u, "recv") /\ sock' = [sock EXCEPT ![fd].asked = Append(@, call[u])]
         \/ Go(u, "failed") /\ UNCHANGED sock
  BY DEF Send, Waiting
<1>2. /\ conn[u] \in Conns /\ conn[u] # None /\ fd \in Fds /\ fd # None /\ Open(fd)
      /\ call[u] \in 1..MaxCalls /\ \A w \in Users : conn[w] = conn[u] => w = u
      /\ got[u] = 0
  BY <1>1, CallFacts, Types DEF IInv, CallsInv
<1>3. CASE Go(u, "failed") /\ UNCHANGED sock
  <2>1. faults' \in 0..MaxFaults
    BY <1>1 DEF bounded, IInv, TypeOK
  <2> QED
    BY <1>1, <1>2, <1>3, <2>1, FailStep DEF bounded
<1>4. CASE Go(u, "recv") /\ sock' = [sock EXCEPT ![fd].asked = Append(@, call[u])]
  <2> DEFINE t == [s EXCEPT !.asked = <<call[u]>>]
  <2>1. s.asked = <<>> /\ s.answers = <<>> /\ s \in Sockets
    BY <1>1, <1>2, Types DEF IInv, DataInv, Quiet, Fd
  <2>2. sock' = [sock EXCEPT ![fd] = t]
    <3>1. Append(s.asked, call[u]) = <<call[u]>>
      BY <2>1
    <3> QED
      BY <3>1, <1>4
  <2>3. t \in Sockets /\ t.to = s.to /\ t.asked = <<call[u]>> /\ t.answers = <<>>
    <3>1. <<call[u]>> \in Seq(1..MaxCalls)
      BY <1>2
    <3> QED
      BY <2>1, <3>1 DEF Sockets
  <2> HIDE DEF t, s
  <2>4. /\ sock' \in [Fds -> Sockets] /\ SocketInv' /\ sock'[fd] = t
        /\ \A f \in Fds : f # fd => sock'[f] = sock[f]
    BY <2>2, <2>3, <1>1, <1>2, SocketFrame DEF s
  <2>5. /\ pc'[u] = "recv" /\ (\A w \in Users : w # u => pc'[w] = pc[w])
        /\ pc' \in [Users -> Steps]
    BY <1>4, Types DEF Go, Steps
  <2>6. TypeOK'
    BY <1>1, <2>4, <2>5, TypesKept, Types DEF IInv, TypeOK, bounded, epoll
  <2>7. CallsInv'
    <3>1. UNCHANGED <<made, dst, osfd, flag, conn, call, got>>
      BY <1>1 DEF cache
    <3>2. ASSUME NEW w \in Users
          PROVE /\ pc'[w] = "idle" <=> conn[w] = None
                /\ pc'[w] # "idle" =>
                     /\ conn[w] \in made /\ dst[conn[w]] \in Dsts /\ flag[conn[w]] = {}
                     /\ call[w] # 0
                /\ pc'[w] \notin {"idle", "socket", "failed"} => osfd[conn[w]] # None
                /\ got[w] # 0 => pc'[w] = "done" /\ got[w] = call[w]
      <4>1. CASE w = u
        BY <4>1, <1>1, <1>2, <2>5 DEF IInv, CallsInv, Fd
      <4>2. CASE w # u
        BY <4>2, <2>5 DEF IInv, CallsInv, Fd
      <4> QED
        BY <4>1, <4>2
    <3> QED
      BY <3>1, <3>2 DEF IInv, CallsInv, Fd
  <2>8. RegInv'
    <3>1. \A w \in Users : Waiting(w)' = Waiting(w) /\ (Waiting(w) => Awaited(w)' = Awaited(w))
      BY <1>1, <2>5 DEF Waiting, Awaited
    <3> QED
      BY <3>1, <1>1 DEF IInv, RegInv, cache, epoll, Fd, Idle
  <2>9. DataInv'
    <3>1. \A c \in Conns : c # conn[u] => osfd[c] # fd /\ osfd[c] \in Fds \cup {None}
      BY <1>1, <1>2, OtherConns, Types
    <3>2. \A c \in Conns : c # conn[u] => Quiet(c)' = Quiet(c)
      BY <3>1, <2>4, <1>1 DEF Quiet, cache
    <3>3. \A w \in Users : w # u /\ pc[w] # "idle" =>
            conn[w] \in Conns /\ conn[w] # conn[u] /\ conn'[w] = conn[w]
      BY <1>1, <1>2, CallFacts
    <3>4. \A c \in Conns : Idle(c)' => Quiet(c)'
      <4>1. ~Idle(conn[u])
        BY <1>1, CallFacts
      <4> QED
        BY <3>2, <4>1, <1>1 DEF IInv, DataInv, Idle, cache
    <3>5. ASSUME NEW w \in Users,
                 pc'[w] \in {"socket", "connect", "connecting", "send", "done"}
          PROVE  Quiet(conn[w])'
      <4>1. w # u /\ pc'[w] = pc[w] /\ pc[w] # "idle"
        BY <3>5, <2>5
      <4> QED
        BY <3>5, <4>1, <3>2, <3>3 DEF IInv, DataInv
    <3>6. ASSUME NEW w \in Users, pc'[w] \in {"recv", "receiving"}
          PROVE  Asked(Fd(w), call[w])'
      <4>1. CASE w = u
        BY <4>1, <2>3, <2>4, <1>1, SMTT(40) DEF Asked, Fd, cache
      <4>2. CASE w # u
        <5>1. /\ pc'[w] = pc[w] /\ pc[w] # "idle" /\ conn[w] \in Conns
              /\ conn[w] # conn[u] /\ Asked(Fd(w), call[w])
              /\ Fd(w) \in Fds /\ Fd(w) # fd
          BY <4>2, <3>6, <2>5, <3>1, <3>3, CallFacts DEF IInv, DataInv, Fd
        <5> QED
          BY <5>1, <2>4, <1>1 DEF Asked, Fd, cache
      <4> QED
        BY <4>1, <4>2
    <3> QED
      BY <3>4, <3>5, <3>6 DEF DataInv
  <2> QED
    BY <1>1, <2>4, <2>6, <2>7, <2>8, <2>9, CacheFrame DEF IInv
<1> QED
  BY <1>1, <1>3, <1>4

\* A server changes the data of a socket.
LEMMA ServerStep ==
  ASSUME IInv, NEW fd \in Fds, Open(fd), NEW s \in Sockets, s.to = sock[fd].to,
         sock' = [sock EXCEPT ![fd] = s],
         sock[fd].asked = <<>> =>
           s.asked = sock[fd].asked /\ s.answers = sock[fd].answers,
         \A k : sock[fd].asked = <<k>> /\ sock[fd].answers = <<>> =>
           \/ s.asked = <<k>> /\ s.answers = <<>>
           \/ s.asked = <<>> /\ s.answers = <<k>>,
         faults' \in 0..MaxFaults,
         UNCHANGED <<cache, timers, epoll, running, threads, got, calls>>
  PROVE  IInv'
<1>1. /\ sock' \in [Fds -> Sockets] /\ SocketInv' /\ sock'[fd] = s
      /\ \A f \in Fds : f # fd => sock'[f] = sock[f]
  BY SocketFrame
<1>2. TypeOK'
  BY <1>1, TypesKept, Types DEF IInv, TypeOK, epoll, threads
<1>3. CallsInv' /\ RegInv'
  BY DEF IInv, CallsInv, RegInv, cache, epoll, threads, Fd, Idle, Waiting, Awaited
<1>4. DataInv'
  <2>1. ASSUME NEW c \in Conns, Quiet(c) PROVE Quiet(c)'
    <3>1. osfd' = osfd /\ osfd[c] \in Fds \cup {None}
      BY Types DEF cache
    <3> QED
      BY <2>1, <3>1, <1>1 DEF Quiet
  <2>2. ASSUME NEW f \in Fds, NEW k, Asked(f, k) PROVE Asked(f, k)'
    <3>1. CASE f = fd
      BY <3>1, <2>2, <1>1 DEF Asked
    <3>2. CASE f # fd
      BY <3>2, <2>2, <1>1 DEF Asked
    <3> QED
      BY <3>1, <3>2
  <2>3. \A u \in Users : pc[u] # "idle" => conn[u] \in Conns
    BY CallFacts
  <2>4. \A u \in Users : pc[u] \in {"recv", "receiving"} => Fd(u) \in Fds
    BY CallFacts
  <2>5. /\ pc' = pc /\ conn' = conn /\ call' = call /\ flag' = flag /\ osfd' = osfd
        /\ \A u \in Users : Fd(u)' = Fd(u)
        /\ \A c \in Conns : Idle(c)' = Idle(c)
    BY DEF cache, threads, Fd, Idle
  <2>6. \A c \in Conns : Idle(c)' => Quiet(c)'
    BY <2>1, <2>5 DEF IInv, DataInv
  <2>7. \A u \in Users : pc'[u] \in {"socket", "connect", "connecting", "send", "done"} =>
          Quiet(conn[u])'
    BY <2>1, <2>3, <2>5 DEF IInv, DataInv
  <2>8. ASSUME NEW u \in Users, pc'[u] \in {"recv", "receiving"}
        PROVE  Asked(Fd(u), call[u])'
    <3>1. Fd(u) \in Fds /\ Asked(Fd(u), call[u])
      BY <2>4, <2>5, <2>8 DEF IInv, DataInv
    <3> DEFINE f == Fd(u)
               k == call[u]
    <3>2. f \in Fds /\ Asked(f, k)
      BY <3>1
    <3> HIDE DEF f, k
    <3>3. \/ sock'[f].asked = <<k>> /\ sock'[f].answers = <<>>
          \/ sock'[f].asked = <<>> /\ sock'[f].answers = <<k>>
      BY <3>2, <2>2 DEF Asked
    <3>4. \/ sock'[Fd(u)].asked = <<call[u]>> /\ sock'[Fd(u)].answers = <<>>
          \/ sock'[Fd(u)].asked = <<>> /\ sock'[Fd(u)].answers = <<call[u]>>
      BY <3>3 DEF f, k
    <3> QED
      BY <3>4, <2>5 DEF Asked
  <2> QED
    BY <2>6, <2>7, <2>8 DEF DataInv
<1>5. UNCHANGED conn
  BY DEF threads
<1> QED
  BY <1>1, <1>2, <1>3, <1>4, <1>5, CacheFrame DEF IInv

LEMMA ServeStep ==
  ASSUME IInv, NEW fd \in Fds, Serve(fd)
  PROVE  IInv'
<1> DEFINE s == sock[fd]
           t == [s EXCEPT !.asked = Tail(@), !.answers = Append(@, Head(s.asked))]
<1>1. /\ Open(fd) /\ s.asked # <<>>
      /\ UNCHANGED <<cache, timers, epoll, running, threads, got, bounded>>
      /\ sock' = [sock EXCEPT ![fd].asked = Tail(@), ![fd].answers = Append(@, Head(s.asked))]
  BY DEF Serve
<1>2. s \in Sockets
  BY Types
<1>3. sock' = [sock EXCEPT ![fd] = t]
  BY <1>1, <1>2, Types DEF Sockets
<1> HIDE DEF s
<1>4. /\ s.asked \in Seq(1..MaxCalls) /\ s.answers \in Seq(1..MaxCalls)
      /\ s.to \in Dsts \cup {None} /\ s.peer \in {"open", "fin", "rst"}
  BY <1>2, SocketFields
<1>5. /\ Tail(s.asked) \in Seq(1..MaxCalls)
      /\ Append(s.answers, Head(s.asked)) \in Seq(1..MaxCalls)
  <2>1. Head(s.asked) \in 1..MaxCalls /\ Tail(s.asked) \in Seq(1..MaxCalls)
    BY <1>1, <1>4, HeadTailProperties
  <2> QED
    BY <2>1, <1>4, AppendProperties
<1>6. /\ t \in Sockets /\ t.to = s.to /\ t.asked = Tail(s.asked)
      /\ t.answers = Append(s.answers, Head(s.asked))
  BY <1>2, <1>4, <1>5 DEF Sockets
<1>7. ASSUME NEW k, s.asked = <<k>>, s.answers = <<>> PROVE t.asked = <<>> /\ t.answers = <<k>>
  <2>1. Head(s.asked) = k /\ Tail(s.asked) = <<>>
    BY <1>7
  <2>2. Append(s.answers, k) = <<k>>
    BY <1>7
  <2> QED
    BY <2>1, <2>2, <1>6
<1> HIDE DEF t
<1>8. faults' \in 0..MaxFaults
  BY <1>1 DEF IInv, TypeOK, bounded
<1> QED
  BY <1>1, <1>3, <1>6, <1>7, <1>8, ServerStep, ZenonT(60) DEF s, bounded

LEMMA HangupStep ==
  ASSUME IInv, NEW fd \in Fds, Hangup(fd)
  PROVE  IInv'
<1>1. /\ Open(fd) /\ faults < MaxFaults /\ faults' = faults + 1
      /\ UNCHANGED <<cache, timers, epoll, running, threads, got, calls>>
  BY DEF Hangup
<1>2. PICK how \in {"fin", "rst"} : sock' = [sock EXCEPT ![fd].peer = how]
  BY DEF Hangup
<1> DEFINE s == sock[fd]
           t == [s EXCEPT !.peer = how]
<1>3. s \in Sockets
  BY Types
<1>4. sock' = [sock EXCEPT ![fd] = t]
  BY <1>2
<1>5. t \in Sockets /\ t.to = s.to /\ t.asked = s.asked /\ t.answers = s.answers
  BY <1>3 DEF Sockets
<1> HIDE DEF t
<1>6. faults' \in 0..MaxFaults
  BY <1>1, KeepAssumption DEF IInv, TypeOK
<1> QED
  BY <1>1, <1>4, <1>5, <1>6, ServerStep

LEMMA WaitFailsStep ==
  ASSUME IInv, NEW u \in Users, WaitFails(u)
  PROVE  IInv'
<1>1. /\ pc[u] \in {"connect", "recv"} /\ faults < MaxFaults /\ faults' = faults + 1
      /\ Go(u, "failed")
      /\ UNCHANGED <<cache, timers, epoll, sock, running, conn, call, woken, got, calls>>
  BY DEF WaitFails
<1>2. pc[u] # "idle" /\ pc[u] # "done" /\ ~Waiting(u)
  BY <1>1 DEF Waiting
<1>3. got[u] = 0
  BY <1>2 DEF IInv, CallsInv
<1>4. faults' \in 0..MaxFaults
  BY <1>1, KeepAssumption DEF IInv, TypeOK
<1> QED
  BY <1>1, <1>2, <1>3, <1>4, FailStep

\* The daemon reports an event to a thread that waits for it, or stops to listen for it.
LEMMA DispatchThreadStep ==
  ASSUME IInv, NEW fd \in Fds, DispatchThread(fd)
  PROVE  IInv'
<1>1. PICK u \in Users :
        /\ epobj[fd] = u
        /\ \/ Ignore(fd, Awaited(u)) /\ UNCHANGED woken
           \/ woken' = [woken EXCEPT ![u] = TRUE] /\ UNCHANGED <<events, kernel>>
  BY DEF DispatchThread
<1>2. UNCHANGED <<cache, timers, epobj, sock, running, pc, conn, call, got, bounded>>
  BY DEF DispatchThread
<1>3. /\ Waiting(u) /\ events[fd] = kernel[fd] /\ kernel[fd] \subseteq Awaited(u)
      /\ \A c \in Conns : epobj[fd] # c
  BY <1>1, Types DEF IInv, RegInv
<1>4. woken' \in [Users -> BOOLEAN]
  BY <1>1, Types
<1>5. /\ events' = kernel' /\ events' \in [Fds -> SUBSET {"IN", "OUT"}]
      /\ \A f \in Fds : f # fd => kernel'[f] = kernel[f]
      /\ kernel'[fd] \subseteq kernel[fd]
  <2>0. events = kernel
    BY Types DEF IInv, RegInv
  <2>1. CASE UNCHANGED <<events, kernel>>
    BY <2>0, <2>1, Types
  <2>2. CASE Ignore(fd, Awaited(u))
    <3> DEFINE evs == Awaited(u)
    <3>1. /\ events' = [events EXCEPT ![fd] = @ \ evs]
          /\ kernel' = IF evs \cap events[fd] = {} THEN kernel
                       ELSE [kernel EXCEPT ![fd] = events[fd] \ evs]
      BY <2>2 DEF Ignore
    <3> HIDE DEF evs
    <3>2. kernel' = [kernel EXCEPT ![fd] = @ \ evs]
      <4>1. CASE evs \cap events[fd] = {}
        <5>1. kernel[fd] \ evs = kernel[fd]
          BY <4>1, <2>0
        <5> QED
          BY <3>1, <4>1, <5>1, Types
      <4>2. CASE evs \cap events[fd] # {}
        BY <3>1, <4>2, <2>0
      <4> QED
        BY <4>1, <4>2
    <3>3. events' = kernel'
      BY <3>1, <3>2, <2>0
    <3>4. events[fd] \in SUBSET {"IN", "OUT"}
      BY Types
    <3>5. events' \in [Fds -> SUBSET {"IN", "OUT"}]
      BY <3>1, <3>4, Types
    <3> QED
      BY <3>2, <3>3, <3>5, Types
  <2> QED
    BY <1>1, <2>1, <2>2
<1>6. TypeOK'
  BY <1>2, <1>4, <1>5, TypesKept, Types DEF IInv, TypeOK, bounded
<1>7. CallsInv' /\ SocketInv' /\ DataInv'
  BY <1>2, SMTT(40) DEF IInv, CallsInv, SocketInv, DataInv, cache, Fd, Idle, Open, Quiet, Asked
<1>8. RegInv'
  <2>1. ASSUME NEW f \in Fds
        PROVE /\ events'[f] = kernel'[f]
              /\ epobj'[f] = None => kernel'[f] = {}
              /\ \A c \in Conns : epobj'[f] = c =>
                   Idle(c)' /\ osfd'[c] = f /\ kernel'[f] = {"IN"}
              /\ \A w \in Users : epobj'[f] = w =>
                   Waiting(w)' /\ Fd(w)' = f /\ kernel'[f] \subseteq Awaited(w)'
    <3>1. \A w \in Users : Waiting(w)' = Waiting(w) /\ Fd(w)' = Fd(w)
                           /\ Awaited(w)' = Awaited(w)
      BY <1>2 DEF Waiting, Fd, Awaited, cache
    <3>2. \A c \in Conns : Idle(c)' = Idle(c) /\ osfd'[c] = osfd[c] /\ epobj' = epobj
      BY <1>2 DEF Idle, cache
    <3>3. events'[f] = kernel'[f] /\ (epobj[f] = None => f # fd)
      BY <1>1, <1>5, Types
    <3>4. CASE f = fd
      BY <3>1, <3>2, <3>3, <3>4, <1>1, <1>2, <1>3, <1>5 DEF IInv, RegInv
    <3>5. CASE f # fd
      BY <3>1, <3>2, <3>3, <3>5, <1>2, <1>5 DEF IInv, RegInv
    <3> QED
      BY <3>4, <3>5
  <2>2. /\ \A c \in Conns : Idle(c)' => epobj'[osfd'[c]] = c
        /\ \A w \in Users : Waiting(w)' => epobj'[Fd(w)'] = w
    BY <1>2 DEF IInv, RegInv, Idle, Waiting, Fd, cache
  <2> QED
    BY <2>1, <2>2 DEF RegInv
<1> QED
  BY <1>2, <1>6, <1>7, <1>8, CacheFrame DEF IInv

LEMMA TickStep ==
  ASSUME IInv, Tick
  PROVE  IInv'
<1>1. /\ value' = [c \in Conns |-> IF value[c] > 1 THEN value[c] - 1 ELSE value[c]]
      /\ UNCHANGED <<cache, list, index, epoll, sock, running, threads, got, bounded>>
  BY DEF Tick
<1>2. value \in [Conns -> 1..KeepTime + 1 \cup {0}] /\ KeepTime \in Nat
  BY KeepAssumption DEF IInv, TypeOK, Timers!TypeOK
<1>3. value' \in [Conns -> 1..KeepTime + 1 \cup {0}]
  <2>1. ASSUME NEW c \in Conns
        PROVE (IF value[c] > 1 THEN value[c] - 1 ELSE value[c]) \in 1..KeepTime + 1 \cup {0}
    BY <1>2
  <2> QED
    BY <2>1, <1>1
<1>4. TypeOK'
  BY <1>1, <1>3 DEF IInv, TypeOK, Timers!TypeOK, cache, epoll, threads, bounded
<1>5. CallsInv' /\ PoolInv' /\ ListInv'
  BY <1>1 DEF IInv, CallsInv, PoolInv, ListInv, cache, threads, Fd, Distinct, Elems, Blank
<1>6. EveryInv' /\ SocketInv' /\ DataInv'
  <2>1. EveryInv'
    BY <1>1 DEF IInv, EveryInv, cache, threads, Fd, Elems, Idle
  <2>2. SocketInv'
    BY <1>1 DEF IInv, SocketInv, cache, threads, Fd, Idle, Open
  <2>3. DataInv'
    BY <1>1 DEF IInv, DataInv, cache, threads, Fd, Idle, Quiet, Asked
  <2> QED
    BY <2>1, <2>2, <2>3
<1>7. RegInv'
  BY <1>1 DEF IInv, RegInv, cache, epoll, threads, Fd, Idle, Waiting, Awaited
<1>8. TimerInv'
  BY <1>1 DEF IInv, TimerInv, TimerIffIdle, Idle, cache, Timers!IndexCorrect, Timers!Elems
<1> QED
  BY <1>4, <1>5, <1>6, <1>7, <1>8 DEF IInv

\* The descriptor that the kernel gives out.
LEMMA LeastFree ==
  ASSUME FreeFds # {}
  PROVE  (CHOOSE n \in FreeFds : \A m \in FreeFds : n <= m) \in FreeFds
<1>1. FreeFds \in SUBSET Nat
  BY KeepAssumption DEF FreeFds
<1>2. PICK n \in FreeFds : \A m \in FreeFds : n <= m
  <2>1. Heap!HeapAssumption
    BY KeepAssumption DEF Heap!HeapAssumption
  <2> QED
    BY <1>1, <2>1, Heap!Least
<1> QED
  BY <1>2

LEMMA CreateSocketStep ==
  ASSUME IInv, NEW u \in Users, CreateSocket(u)
  PROVE  IInv'
<1> DEFINE c == conn[u]
           d == dst[c]
           new == CHOOSE n \in FreeFds : \A m \in FreeFds : n <= m
<1>1. /\ pc[u] = "socket" /\ pc[u] # "idle" /\ ~Waiting(u)
      /\ UNCHANGED <<made, pool, dst, flag, keep_list, timers, epoll, running,
                     conn, call, woken, got, bounded>>
      /\ \/ Fd(u) # None /\ Go(u, "send") /\ UNCHANGED <<osfd, sock>>
         \/ /\ Fd(u) = None /\ FreeFds # {} /\ Go(u, "connect")
            /\ osfd' = [osfd EXCEPT ![c] = new]
            /\ sock' = [sock EXCEPT ![new].to = d]
         \/ Go(u, "failed") /\ UNCHANGED <<osfd, sock>>
  BY DEF CreateSocket, Waiting
<1>2. /\ c \in Conns /\ c # None /\ ~Idle(c) /\ d \in Dsts /\ d # None
      /\ call[u] \in 1..MaxCalls /\ (\A w \in Users : conn[w] = c => w = u)
      /\ got[u] = 0 /\ faults' \in 0..MaxFaults /\ Quiet(c) /\ c \in made
  BY <1>1, CallFacts, Types DEF IInv, CallsInv, TypeOK, bounded, DataInv
<1>3. CASE Go(u, "failed") /\ UNCHANGED <<osfd, sock>>
  BY <1>1, <1>2, <1>3, FailStep DEF cache, bounded
<1>4. CASE Fd(u) # None /\ Go(u, "send") /\ UNCHANGED <<osfd, sock>>
  <2>1. pc' = [pc EXCEPT ![u] = "send"] /\ pc' \in [Users -> Steps]
    BY <1>4, Types DEF Go, Steps
  <2>2. UNCHANGED <<cache, timers, epoll, sock, running, conn, call, woken, got, bounded>>
    BY <1>1, <1>4 DEF cache
  <2>3. TypeOK'
    BY <2>1, <2>2, TypesKept, Types DEF IInv, TypeOK, epoll, bounded
  <2>4. CallsInv'
    BY <1>1, <1>2, <1>4, <2>1, <2>2, Types DEF IInv, CallsInv, cache, Fd
  <2>5. SocketInv'
    BY <2>2 DEF IInv, SocketInv, cache, Open
  <2>6. RegInv'
    <3>1. \A w \in Users : Waiting(w)' = Waiting(w) /\ (Waiting(w) => Awaited(w)' = Awaited(w))
      BY <1>1, <2>1, Types DEF Waiting, Awaited
    <3> QED
      BY <3>1, <2>2 DEF IInv, RegInv, cache, epoll, Fd, Idle
  <2>7. DataInv'
    BY <1>1, <2>1, <2>2, Types, ZenonT(60) DEF IInv, DataInv, cache, Quiet, Asked, Fd, Idle
  <2> QED
    BY <2>2, <2>3, <2>4, <2>5, <2>6, <2>7, CacheFrame DEF IInv
<1>5. CASE /\ Fd(u) = None /\ FreeFds # {} /\ Go(u, "connect")
           /\ osfd' = [osfd EXCEPT ![c] = new]
           /\ sock' = [sock EXCEPT ![new].to = d]
  <2>1. new \in Fds /\ ~Open(new) /\ new # None
    BY <1>5, LeastFree, Types DEF FreeFds
  <2> HIDE DEF new, c, d
  <2>2. sock[new] = Closed /\ \A e \in Conns : osfd[e] # new
    BY <2>1 DEF IInv, SocketInv
  <2>3. /\ pc'[u] = "connect" /\ (\A w \in Users : w # u => pc'[w] = pc[w])
        /\ pc' \in [Users -> Steps]
    BY <1>5, Types DEF Go, Steps
  <2>4. /\ osfd'[c] = new /\ osfd[c] = None /\ (\A e \in Conns : e # c => osfd'[e] = osfd[e])
        /\ osfd' \in [Conns -> Fds \cup {None}]
    BY <1>2, <1>5, <2>1, Types DEF Fd, c
  <2>5. /\ sock'[new].to = d /\ sock'[new].asked = <<>> /\ sock'[new].answers = <<>>
        /\ sock'[new] \in Sockets
    <3>1. sock'[new] = [Closed EXCEPT !.to = d]
      BY <1>5, <2>1, <2>2, Types
    <3>2. <<>> \in Seq(1..MaxCalls)
      BY EmptySeq
    <3> QED
      BY <3>1, <3>2, <1>2 DEF Closed, Sockets
  <2>6. (\A f \in Fds : f # new => sock'[f] = sock[f]) /\ sock' \in [Fds -> Sockets]
    BY <1>5, <2>1, <2>5, Types
  <2>7. TypeOK'
    BY <1>1, <2>3, <2>4, <2>6, Types DEF IInv, TypeOK, Timers!TypeOK, timers, epoll, bounded
  <2>8. CallsInv'
    <3>1. UNCHANGED <<made, dst, flag, conn, call, got>>
      BY <1>1
    <3>2. ASSUME NEW w \in Users
          PROVE /\ pc'[w] = "idle" <=> conn[w] = None
                /\ pc'[w] # "idle" =>
                     /\ conn[w] \in made /\ dst[conn[w]] \in Dsts /\ flag[conn[w]] = {}
                     /\ call[w] # 0
                /\ pc'[w] \notin {"idle", "socket", "failed"} => osfd'[conn[w]] # None
                /\ got[w] # 0 => pc'[w] = "done" /\ got[w] = call[w]
      <4>1. CASE w = u
        BY <4>1, <1>1, <1>2, <2>1, <2>3, <2>4 DEF IInv, CallsInv, Fd, c
      <4>2. CASE w # u
        <5>1. pc[w] # "idle" => conn[w] \in Conns /\ conn[w] # c
          BY <4>2, <1>2, CallFacts
        <5> QED
          BY <4>2, <5>1, <2>3, <2>4 DEF IInv, CallsInv, Fd
      <4> QED
        BY <4>1, <4>2
    <3> QED
      BY <3>1, <3>2 DEF IInv, CallsInv, Fd
  <2>9. PoolInv' /\ ListInv' /\ EveryInv' /\ TimerInv'
    <3>1. c \notin Elems(pool)
      BY <1>2 DEF IInv, PoolInv, Blank, c, d
    <3>2. \A b \in Dsts : c \notin Elems(keep_list[b])
      BY <1>2 DEF IInv, ListInv, Idle, Flags
    <3>3. PoolInv'
      <4>1. \A e \in Conns : e \notin made \/ e \in Elems(pool) => osfd'[e] = osfd[e]
        BY <1>2, <2>4, <3>1
      <4> QED
        BY <4>1, <1>1 DEF IInv, PoolInv, Distinct, Blank, Elems
    <3>4. ListInv'
      <4>1. \A b \in Dsts, e \in Conns : e \in Elems(keep_list[b]) => osfd'[e] = osfd[e]
        BY <2>4, <3>2
      <4> QED
        BY <4>1, <1>1 DEF IInv, ListInv, Distinct, Elems
    <3>5. EveryInv'
      BY <1>1 DEF IInv, EveryInv, Idle, Elems
    <3>6. TimerInv'
      BY <1>1 DEF IInv, timers, TimerInv, TimerIffIdle, Idle, Timers!IndexCorrect, Timers!Elems
    <3> QED
      BY <3>3, <3>4, <3>5, <3>6
  <2>10. SocketInv'
    <3>1. ASSUME NEW e \in Conns, NEW a \in Conns, osfd'[a] # None, osfd'[a] = osfd'[e]
          PROVE  a = e
      BY <3>1, <2>2, <2>4 DEF IInv, SocketInv
    <3>2. ASSUME NEW a \in Conns, osfd'[a] # None
          PROVE  Open(osfd[a])' /\ sock'[osfd'[a]].to = dst'[a]
      <4>1. CASE a = c
        BY <4>1, <1>1, <1>2, <2>4, <2>5 DEF Open, d
      <4>2. CASE a # c
        <5>1. osfd'[a] = osfd[a] /\ osfd[a] \in Fds /\ osfd[a] # new
          BY <4>2, <3>2, <2>2, <2>4, Types
        <5> QED
          BY <5>1, <3>2, <1>1, <2>6 DEF IInv, SocketInv, Open
      <4> QED
        BY <4>1, <4>2
    <3>3. ASSUME NEW f \in Fds, Open(f)' PROVE \E a \in Conns : osfd'[a] = f
      <4>1. CASE f = new
        BY <4>1, <1>2, <2>4
      <4>2. CASE f # new
        <5>1. PICK a \in Conns : osfd[a] = f
          BY <4>2, <3>3, <2>6 DEF IInv, SocketInv, Open
        <5> QED
          BY <5>1, <2>4, Types
      <4> QED
        BY <4>1, <4>2
    <3>4. ASSUME NEW f \in Fds, ~Open(f)' PROVE sock'[f] = Closed
      <4>1. f # new
        BY <3>4, <1>2, <2>5 DEF Open
      <4> QED
        BY <4>1, <3>4, <2>6 DEF IInv, SocketInv, Open
    <3> QED
      BY <3>1, <3>2, <3>3, <3>4 DEF SocketInv
  <2>11. RegInv'
    <3>1. \A w \in Users : /\ Waiting(w)' = Waiting(w)
                           /\ Waiting(w) => Awaited(w)' = Awaited(w) /\ Fd(w)' = Fd(w)
      <4>1. ASSUME NEW w \in Users, Waiting(w) PROVE Fd(w)' = Fd(w)
        BY <4>1, <1>1, <1>2, <2>4, CallFacts DEF Fd, Waiting
      <4> QED
        BY <4>1, <1>1, <2>3, Types DEF Waiting, Awaited
    <3>2. \A e \in Conns : Idle(e)' = Idle(e) /\ (Idle(e) => osfd'[e] = osfd[e])
      BY <1>1, <1>2, <2>4 DEF Idle
    <3> QED
      BY <3>1, <3>2, <1>1 DEF IInv, RegInv, epoll
  <2>12. DataInv'
    <3>1. \A e \in Conns : Quiet(e) => Quiet(e)'
      <4>1. ASSUME NEW e \in Conns, e # c, Quiet(e) PROVE Quiet(e)'
        <5>1. osfd'[e] = osfd[e] /\ osfd[e] \in Fds \cup {None} /\ osfd[e] # new
          BY <4>1, <2>2, <2>4, Types
        <5> QED
          BY <4>1, <5>1, <2>6 DEF Quiet
      <4>2. ASSUME NEW e \in Conns, e = c PROVE Quiet(e)'
        BY <4>2, <2>4, <2>5 DEF Quiet
      <4> QED
        BY <4>1, <4>2
    <3>2. \A w \in Users : pc[w] # "idle" => conn[w] \in Conns /\ conn'[w] = conn[w]
      BY <1>1, CallFacts
    <3>3. \A e \in Conns : Idle(e)' => Quiet(e)'
      BY <3>1, <1>1 DEF IInv, DataInv, Idle
    <3>4. ASSUME NEW w \in Users,
                 pc'[w] \in {"socket", "connect", "connecting", "send", "done"}
          PROVE  Quiet(conn[w])'
      <4>1. CASE w = u
        BY <4>1, <3>1, <3>2, <1>1, <1>2 DEF c
      <4>2. CASE w # u
        BY <4>2, <3>1, <3>2, <3>4, <2>3 DEF IInv, DataInv
      <4> QED
        BY <4>1, <4>2
    <3>5. ASSUME NEW w \in Users, pc'[w] \in {"recv", "receiving"}
          PROVE  Asked(Fd(w), call[w])'
      <4>1. w # u /\ pc[w] \in {"recv", "receiving"} /\ pc[w] # "idle"
        BY <3>5, <2>3
      <4>2. /\ conn[w] \in Conns /\ conn[w] # c /\ Fd(w) \in Fds /\ Asked(Fd(w), call[w])
            /\ Fd(w) # new /\ osfd'[conn[w]] = osfd[conn[w]]
        BY <4>1, <1>2, <2>2, <2>4, CallFacts DEF IInv, DataInv, Fd
      <4>3. Fd(w)' = Fd(w) /\ call' = call
        BY <4>2, <1>1 DEF Fd
      <4> QED
        BY <4>2, <4>3, <2>6 DEF Asked
    <3> QED
      BY <3>3, <3>4, <3>5 DEF DataInv
  <2> QED
    BY <2>7, <2>8, <2>9, <2>10, <2>11, <2>12 DEF IInv
<1> QED
  BY <1>1, <1>3, <1>4, <1>5

-----------------------------------------------------------------------------
(* Sequences without repetition.                                               *)

LEMMA SeqFacts ==
  ASSUME NEW S, NEW s \in Seq(S)
  PROVE  /\ Len(s) \in Nat /\ DOMAIN s = 1..Len(s) /\ \A i \in 1..Len(s) : s[i] \in S
         /\ \A x : x \in Elems(s) <=> \E i \in 1..Len(s) : s[i] = x
<1>1. Len(s) \in Nat /\ DOMAIN s = 1..Len(s) /\ \A i \in 1..Len(s) : s[i] \in S
  BY LenProperties, ElementOfSeq
<1> QED
  BY <1>1 DEF Elems

LEMMA TailOut ==
  ASSUME NEW S, NEW s \in Seq(S), Distinct(s), s # <<>>
  PROVE  /\ Head(s) \in S /\ Head(s) \in Elems(s)
         /\ Tail(s) \in Seq(S) /\ Distinct(Tail(s))
         /\ \A x : x \in Elems(Tail(s)) <=> x \in Elems(s) /\ x # Head(s)
<1>1. /\ Head(s) \in S /\ Tail(s) \in Seq(S) /\ Len(Tail(s)) = Len(s) - 1 /\ Head(s) = s[1]
      /\ \A i \in 1..Len(Tail(s)) : Tail(s)[i] = s[i + 1]
  BY HeadTailProperties
<1>2. /\ Len(s) \in Nat /\ DOMAIN s = 1..Len(s) /\ Len(s) # 0
      /\ \A x : x \in Elems(s) <=> \E i \in 1..Len(s) : s[i] = x
  BY SeqFacts, EmptySeq
<1> DEFINE t == Tail(s)
<1>3. t \in Seq(S) /\ Len(t) = Len(s) - 1 /\ \A i \in 1..Len(s) - 1 : t[i] = s[i + 1]
  BY <1>1
<1> HIDE DEF t
<1>4. /\ DOMAIN t = 1..Len(s) - 1
      /\ \A x : x \in Elems(t) <=> \E i \in 1..Len(s) - 1 : t[i] = x
  BY <1>3, SeqFacts
<1>5. Head(s) \in Elems(s)
  <2>1. 1 \in 1..Len(s)
    BY <1>2
  <2> QED
    BY <2>1, <1>1, <1>2
<1>6. Distinct(t)
  <2>1. ASSUME NEW i \in 1..Len(s) - 1, NEW j \in 1..Len(s) - 1, t[i] = t[j] PROVE i = j
    <3>1. s[i + 1] = s[j + 1] /\ i + 1 \in 1..Len(s) /\ j + 1 \in 1..Len(s)
      BY <2>1, <1>2, <1>3
    <3>2. i + 1 = j + 1
      BY <3>1, <1>2 DEF Distinct
    <3> QED
      BY <3>2, <2>1
  <2> QED
    BY <2>1, <1>4 DEF Distinct
<1>7. ASSUME NEW x, x \in Elems(t) PROVE x \in Elems(s) /\ x # Head(s)
  <2>1. PICK i \in 1..Len(s) - 1 : t[i] = x
    BY <1>4, <1>7
  <2>2. i + 1 \in 1..Len(s) /\ s[i + 1] = x /\ i + 1 # 1 /\ 1 \in 1..Len(s)
    BY <2>1, <1>2, <1>3
  <2>3. s[i + 1] # s[1]
    BY <2>2, <1>2 DEF Distinct
  <2> QED
    BY <2>2, <2>3, <1>1, <1>2
<1>8. ASSUME NEW x, x \in Elems(s), x # Head(s) PROVE x \in Elems(t)
  <2>1. PICK i \in 1..Len(s) : s[i] = x
    BY <1>2, <1>8
  <2>2. i # 1
    BY <2>1, <1>1, <1>8
  <2> DEFINE k == i - 1
  <2>3. k \in 1..Len(s) - 1 /\ k + 1 = i
    BY <2>2, <1>2
  <2> HIDE DEF k
  <2>4. t[k] = x
    BY <2>1, <2>3, <1>3
  <2> QED
    BY <2>3, <2>4, <1>4
<1> QED
  BY <1>1, <1>5, <1>6, <1>7, <1>8 DEF t

LEMMA FrontIn ==
  ASSUME NEW S, NEW s \in Seq(S), Distinct(s), NEW c \in S, c \notin Elems(s)
  PROVE  /\ <<c>> \o s \in Seq(S) /\ Distinct(<<c>> \o s)
         /\ \A x : x \in Elems(<<c>> \o s) <=> x = c \/ x \in Elems(s)
<1> DEFINE t == <<c>> \o s
<1>1. <<c>> \in Seq(S) /\ Len(<<c>>) = 1 /\ <<c>>[1] = c
  OBVIOUS
<1>2. /\ Len(s) \in Nat /\ DOMAIN s = 1..Len(s)
      /\ \A x : x \in Elems(s) <=> \E i \in 1..Len(s) : s[i] = x
  BY SeqFacts
<1>3. /\ t \in Seq(S) /\ Len(t) = 1 + Len(s)
      /\ \A i \in 1..1 + Len(s) : t[i] = IF i <= 1 THEN <<c>>[i] ELSE s[i - 1]
  BY <1>1, ConcatProperties
<1> HIDE DEF t
<1>4. \A i \in 1..1 + Len(s) : t[i] = IF i = 1 THEN c ELSE s[i - 1]
  BY <1>1, <1>2, <1>3
<1>5. DOMAIN t = 1..1 + Len(s) /\ \A x : x \in Elems(t) <=> \E i \in 1..1 + Len(s) : t[i] = x
  BY <1>3, SeqFacts
<1>6. \A i \in 1..1 + Len(s) : i # 1 => i - 1 \in 1..Len(s) /\ s[i - 1] \in Elems(s) /\ s[i - 1] # c
  <2>1. \A i \in 1..1 + Len(s) : i # 1 => i - 1 \in 1..Len(s)
    BY <1>2
  <2> QED
    BY <2>1, <1>2
<1>7. Distinct(t)
  <2>1. ASSUME NEW i \in 1..1 + Len(s), NEW j \in 1..1 + Len(s), t[i] = t[j] PROVE i = j
    <3>1. CASE i = 1 \/ j = 1
      BY <3>1, <2>1, <1>4, <1>6
    <3>2. CASE i # 1 /\ j # 1
      <4>1. s[i - 1] = s[j - 1] /\ i - 1 \in 1..Len(s) /\ j - 1 \in 1..Len(s)
        BY <3>2, <2>1, <1>4, <1>6
      <4>2. i - 1 = j - 1
        BY <4>1, <1>2 DEF Distinct
      <4> QED
        BY <4>2, <1>2
    <3> QED
      BY <3>1, <3>2
  <2> QED
    BY <2>1, <1>5 DEF Distinct
<1>8. ASSUME NEW x, x \in Elems(t) PROVE x = c \/ x \in Elems(s)
  BY <1>4, <1>5, <1>6, <1>8
<1>9. c \in Elems(t)
  <2>1. 1 \in 1..1 + Len(s)
    BY <1>2
  <2> QED
    BY <2>1, <1>4, <1>5
<1>10. ASSUME NEW x, x \in Elems(s) PROVE x \in Elems(t)
  <2>1. PICK i \in 1..Len(s) : s[i] = x
    BY <1>2, <1>10
  <2> DEFINE k == i + 1
  <2>2. k \in 1..1 + Len(s) /\ k # 1 /\ k - 1 = i
    BY <1>2
  <2> HIDE DEF k
  <2>3. t[k] = x
    BY <2>1, <2>2, <1>4
  <2> QED
    BY <2>2, <2>3, <1>5
<1> QED
  BY <1>3, <1>7, <1>8, <1>9, <1>10 DEF t

LEMMA LastIn ==
  ASSUME NEW S, NEW s \in Seq(S), Distinct(s), NEW c \in S, c \notin Elems(s)
  PROVE  /\ Append(s, c) \in Seq(S) /\ Distinct(Append(s, c)) /\ Len(Append(s, c)) = Len(s) + 1
         /\ \A x : x \in Elems(Append(s, c)) <=> x = c \/ x \in Elems(s)
<1> DEFINE t == Append(s, c)
<1>1. /\ Len(s) \in Nat /\ DOMAIN s = 1..Len(s)
      /\ \A x : x \in Elems(s) <=> \E i \in 1..Len(s) : s[i] = x
  BY SeqFacts
<1>2. /\ t \in Seq(S) /\ Len(t) = Len(s) + 1 /\ t[Len(s) + 1] = c
      /\ \A i \in 1..Len(s) : t[i] = s[i]
  BY AppendProperties
<1> HIDE DEF t
<1>3. /\ DOMAIN t = 1..Len(s) + 1 /\ \A x : x \in Elems(t) <=> \E i \in 1..Len(s) + 1 : t[i] = x
  BY <1>2, SeqFacts
<1>4. \A i \in 1..Len(s) + 1 : i = Len(s) + 1 \/ i \in 1..Len(s)
  BY <1>1
<1>5. \A i \in 1..Len(s) : i \in 1..Len(s) + 1 /\ t[i] \in Elems(s) /\ t[i] # c
  BY <1>1, <1>2
<1>6. Len(s) + 1 \in 1..Len(s) + 1
  BY <1>1
<1>7. Distinct(t)
  BY <1>1, <1>2, <1>3, <1>4, <1>5 DEF Distinct
<1>8. \A x : x \in Elems(t) <=> x = c \/ x \in Elems(s)
  BY <1>1, <1>2, <1>3, <1>4, <1>5, <1>6
<1> QED
  BY <1>2, <1>7, <1>8 DEF t

LEMMA WithoutOut ==
  ASSUME NEW S, NEW s \in Seq(S), Distinct(s), NEW c, c \in Elems(s)
  PROVE  /\ Without(s, c) \in Seq(S) /\ Distinct(Without(s, c))
         /\ \A x : x \in Elems(Without(s, c)) <=> x \in Elems(s) /\ x # c
<1>1. /\ Len(s) \in Nat /\ DOMAIN s = 1..Len(s) /\ (\A i \in 1..Len(s) : s[i] \in S)
      /\ \A x : x \in Elems(s) <=> \E i \in 1..Len(s) : s[i] = x
  BY SeqFacts
<1> DEFINE n == CHOOSE k \in DOMAIN s : s[k] = c
           t == SubSeq(s, 1, n - 1) \o SubSeq(s, n + 1, Len(s))
<1>2. n \in 1..Len(s) /\ s[n] = c
  BY <1>1
<1>3. Without(s, c) = t
  BY DEF Without
<1> HIDE DEF n, t
<1> DEFINE a == SubSeq(s, 1, n - 1)
           b == SubSeq(s, n + 1, Len(s))
<1>4. /\ a \in Seq(S) /\ Len(a) = n - 1 /\ \A i \in 1..n - 1 : a[i] = s[i]
  <2>1. \A i \in 1..n - 1 : s[i] \in S
    BY <1>1, <1>2
  <2>2. /\ a \in Seq(S) /\ Len(a) = IF 1 <= n - 1 THEN n - 1 - 1 + 1 ELSE 0
        /\ \A i \in 1..n - 1 - 1 + 1 : a[i] = s[1 + i - 1]
    BY <1>2, <2>1, SubSeqProperties
  <2> HIDE DEF a
  <2> QED
    BY <1>1, <1>2, <2>2
<1>5. /\ b \in Seq(S) /\ Len(b) = Len(s) - n
      /\ \A i \in 1..Len(s) - n : b[i] = s[n + i]
  <2>1. \A i \in n + 1..Len(s) : s[i] \in S
    BY <1>1, <1>2
  <2>2. /\ b \in Seq(S)
        /\ Len(b) = IF n + 1 <= Len(s) THEN Len(s) - (n + 1) + 1 ELSE 0
        /\ \A i \in 1..Len(s) - (n + 1) + 1 : b[i] = s[n + 1 + i - 1]
    BY <1>1, <1>2, <2>1, SubSeqProperties
  <2> HIDE DEF b
  <2>3. Len(s) - (n + 1) + 1 = Len(s) - n
    BY <1>1, <1>2
  <2>4. \A i \in 1..Len(s) - n : n + 1 + i - 1 = n + i
    BY <1>1, <1>2
  <2>5. \A i \in 1..Len(s) - n : b[i] = s[n + i]
    BY <2>2, <2>3, <2>4
  <2>6. Len(b) = Len(s) - n
    <3>1. CASE n + 1 <= Len(s)
      BY <3>1, <2>2, <2>3
    <3>2. CASE ~(n + 1 <= Len(s))
      <4> DEFINE l == Len(s)
      <4>0. l \in Nat /\ n \in 1..l /\ ~(n + 1 <= l)
        BY <3>2, <1>1, <1>2
      <4> HIDE DEF l
      <4>01. l - n = 0
        BY <4>0
      <4>1. Len(s) - n = 0
        BY <4>01 DEF l
      <4> QED
        BY <3>2, <4>1, <2>2
    <3> QED
      BY <3>1, <3>2
  <2> QED
    BY <2>2, <2>5, <2>6
<1>6. t = a \o b
  BY DEF a, b, t
<1> HIDE DEF a, b
<1>7. /\ t \in Seq(S) /\ Len(t) = Len(a) + Len(b)
      /\ \A i \in 1..Len(a) + Len(b) : t[i] = IF i <= Len(a) THEN a[i] ELSE b[i - Len(a)]
  <2>1. a \in Seq(S) /\ b \in Seq(S)
    BY <1>4, <1>5
  <2> QED
    BY <2>1, <1>6, ConcatProperties
<1>8. /\ DOMAIN t = 1..Len(s) - 1
      /\ \A i \in 1..Len(s) - 1 : t[i] = IF i <= n - 1 THEN s[i] ELSE s[i + 1]
  <2>1. Len(a) + Len(b) = Len(s) - 1
    BY <1>1, <1>2, <1>4, <1>5
  <2>2. DOMAIN t = 1..Len(s) - 1
    BY <2>1, <1>7, LenProperties
  <2>3. ASSUME NEW i \in 1..Len(s) - 1 PROVE t[i] = IF i <= n - 1 THEN s[i] ELSE s[i + 1]
    <3>1. t[i] = IF i <= n - 1 THEN a[i] ELSE b[i - (n - 1)]
      BY <2>1, <1>4, <1>7
    <3>2. CASE i <= n - 1
      BY <3>1, <3>2, <1>2, <1>4
    <3>3. CASE i > n - 1
      <4> DEFINE k == i - (n - 1)
      <4>1. k \in 1..Len(s) - n /\ n + k = i + 1 /\ ~(i <= n - 1)
        BY <3>3, <1>1, <1>2
      <4>2. t[i] = b[k]
        BY <4>1, <3>1
      <4> HIDE DEF k
      <4> QED
        BY <4>1, <4>2, <1>5
    <3> QED
      BY <3>2, <3>3, <1>2
  <2> QED
    BY <2>2, <2>3
<1>9. \A x : x \in Elems(t) <=> \E i \in 1..Len(s) - 1 : t[i] = x
  BY <1>8 DEF Elems
<1>10. ASSUME NEW i \in 1..Len(s) - 1
       PROVE  \E k \in 1..Len(s) : /\ t[i] = s[k] /\ k # n
                                   /\ k = IF i <= n - 1 THEN i ELSE i + 1
  <2>1. CASE i <= n - 1
    BY <2>1, <1>1, <1>2, <1>8
  <2>2. CASE i > n - 1
    <3>1. i + 1 \in 1..Len(s) /\ i + 1 # n /\ ~(i <= n - 1)
      BY <2>2, <1>1, <1>2
    <3>2. t[i] = s[i + 1]
      BY <3>1, <1>8
    <3> QED
      BY <3>1, <3>2
  <2> QED
    BY <2>1, <2>2, <1>2
<1>11. Distinct(t)
  <2>1. ASSUME NEW i \in 1..Len(s) - 1, NEW j \in 1..Len(s) - 1, t[i] = t[j] PROVE i = j
    <3>1. PICK k \in 1..Len(s) : t[i] = s[k] /\ k = IF i <= n - 1 THEN i ELSE i + 1
      BY <1>10
    <3>2. PICK l \in 1..Len(s) : t[j] = s[l] /\ l = IF j <= n - 1 THEN j ELSE j + 1
      BY <1>10
    <3>3. k = l
      BY <3>1, <3>2, <2>1, <1>1 DEF Distinct
    <3> QED
      BY <3>1, <3>2, <3>3, <1>2
  <2> QED
    BY <2>1, <1>8 DEF Distinct
<1>12. ASSUME NEW x, x \in Elems(t) PROVE x \in Elems(s) /\ x # c
  <2>1. PICK i \in 1..Len(s) - 1 : t[i] = x
    BY <1>9, <1>12
  <2>2. PICK k \in 1..Len(s) : t[i] = s[k] /\ k # n
    BY <1>10
  <2>3. s[k] # s[n]
    BY <2>2, <1>1, <1>2 DEF Distinct
  <2> QED
    BY <2>1, <2>2, <2>3, <1>1, <1>2
<1>13. ASSUME NEW x, x \in Elems(s), x # c PROVE x \in Elems(t)
  <2>1. PICK k \in 1..Len(s) : s[k] = x
    BY <1>1, <1>13
  <2>2. k # n
    BY <2>1, <1>2, <1>13
  <2>3. CASE k < n
    <3>1. k \in 1..Len(s) - 1 /\ k <= n - 1
      BY <2>3, <1>1, <1>2
    <3> QED
      BY <3>1, <2>1, <1>8, <1>9
  <2>4. CASE k > n
    <3> DEFINE i == k - 1
    <3>1. i \in 1..Len(s) - 1 /\ ~(i <= n - 1) /\ i + 1 = k
      BY <2>4, <1>1, <1>2
    <3> HIDE DEF i
    <3>2. t[i] = x
      BY <3>1, <2>1, <1>8
    <3> QED
      BY <3>1, <3>2, <1>9
  <2> QED
    BY <2>2, <2>3, <2>4, <1>1, <1>2
<1> QED
  BY <1>3, <1>7, <1>11, <1>12, <1>13

-----------------------------------------------------------------------------
(* Timers, by what is proved of the heap.                                      *)

LEMMA TimersSound ==
  ASSUME IInv
  PROVE  /\ Heap!HeapAssumption /\ Heap!Sound
         /\ \A c \in Conns : index[c] # 0 => index[c] \in 1..Len(list) /\ list[index[c]] = c
         /\ \A c \in Conns : index[c] # 0 <=> Idle(c)
         /\ Len(list) \in Nat /\ list \in Seq(Conns)
         /\ \A i \in 1..Len(list) : list[i] \in Conns /\ index[list[i]] = i
<1>1. Heap!HeapAssumption
  BY KeepAssumption DEF Heap!HeapAssumption
<1>2. Heap!Sound
  BY DEF IInv, TypeOK, TimerInv, Heap!Sound, Timers!TypeOK, Timers!IndexCorrect,
         Heap!TypeOK, Heap!IndexCorrect, Heap!Elems, Timers!Elems
<1>3. /\ list \in Seq(Conns)
      /\ \A i \in DOMAIN list : index[list[i]] = i
      /\ \A c \in Conns : index[c] = 0 <=> c \notin Timers!Elems(list)
      /\ \A c \in Conns : index[c] # 0 <=> Idle(c)
  BY DEF IInv, TypeOK, TimerInv, TimerIffIdle, Timers!TypeOK, Timers!IndexCorrect
<1>4. Len(list) \in Nat /\ DOMAIN list = 1..Len(list) /\ \A i \in 1..Len(list) : list[i] \in Conns
  BY <1>3, LenProperties, ElementOfSeq
<1>5. ASSUME NEW c \in Conns, index[c] # 0
      PROVE  index[c] \in 1..Len(list) /\ list[index[c]] = c
  <2>1. c \in Timers!Elems(list)
    BY <1>3, <1>5
  <2>2. PICK i \in DOMAIN list : list[i] = c
    BY <2>1 DEF Timers!Elems
  <2>3. index[c] = i
    BY <2>2, <1>3
  <2> QED
    BY <2>2, <2>3, <1>4
<1> QED
  BY <1>1, <1>2, <1>3, <1>4, <1>5

LEMMA TimersTyped ==
  ASSUME IInv, Heap!Sound'
  PROVE  /\ Timers!TypeOK' /\ Timers!IndexCorrect'
         /\ \A c \in Conns : index'[c] # 0 <=> c \in Heap!Elems(list')
BY DEF Heap!Sound, Timers!TypeOK, Timers!IndexCorrect,
       Heap!TypeOK, Heap!IndexCorrect, Heap!Elems, Timers!Elems

LEMMA StartStep ==
  ASSUME IInv, NEW c \in Conns, CanStartTimer(c), StartTimer(c)
  PROVE  /\ Timers!TypeOK' /\ Timers!IndexCorrect'
         /\ \A e \in Conns : index'[e] # 0 <=> e = c \/ index[e] # 0
<1>1. Timers!HeapPush(c, KeepTime + 1)
  BY Zenon DEF StartTimer
<1>2. Heap!HeapPush(c, KeepTime + 1)
  BY <1>1 DEF Timers!HeapPush, Heap!HeapPush, Timers!HeapFull, Heap!HeapFull, Timers!Becomes,
    Heap!Becomes, Timers!HeapUp, Heap!HeapUp, Timers!Places, Heap!Places, Timers!Climbs,
    Heap!Climbs, Timers!MoveTo, Heap!MoveTo, Timers!Heaps, Heap!Heaps, Timers!Exchange,
    Heap!Exchange, Timers!PutAt, Heap!PutAt
<1>3. KeepTime + 1 \in 1..KeepTime + 1
  BY KeepAssumption
<1>4. Heap!Sound' /\ \A e \in Conns : e \in Heap!Elems(list') <=> e = c \/ e \in Heap!Elems(list)
  BY <1>2, <1>3, TimersSound, Heap!PushStep
<1>5. \A e \in Conns : index[e] # 0 <=> e \in Heap!Elems(list)
  BY TimersSound DEF Heap!Sound, Heap!IndexCorrect
<1> QED
  BY <1>4, <1>5, TimersTyped

LEMMA RefusedStep ==
  ASSUME IInv, NEW c \in Conns, ~CanStartTimer(c), StartTimer(c)
  PROVE  Timers!TypeOK' /\ UNCHANGED <<list, index>>
<1>1. /\ value' = [value EXCEPT ![c] = IF index[c] = 0 THEN 0 ELSE KeepTime + 1]
      /\ UNCHANGED <<list, index>>
  BY DEF StartTimer
<1>2. KeepTime + 1 \in 1..KeepTime + 1
  BY KeepAssumption
<1>3. (IF index[c] = 0 THEN 0 ELSE KeepTime + 1) \in 1..KeepTime + 1 \cup {0}
  BY <1>2
<1> QED
  BY <1>1, <1>3 DEF IInv, TypeOK, Timers!TypeOK

LEMMA DeleteStep ==
  ASSUME IInv, NEW c \in Conns, Timers!HeapDelete(c)
  PROVE  /\ Timers!TypeOK' /\ Timers!IndexCorrect'
         /\ \A e \in Conns : index'[e] # 0 <=> e # c /\ index[e] # 0
<1> DEFINE pos == index[c]
<1>1. pos \in 1..Len(list) /\ Timers!RemoveAt(pos)
  BY Zenon DEF Timers!HeapDelete
<1>2. Heap!RemoveAt(pos)
  BY <1>1 DEF Timers!RemoveAt, Heap!RemoveAt, Timers!Becomes,
    Heap!Becomes, Timers!HeapDown, Heap!HeapDown, Timers!Places, Heap!Places, Timers!Sinks,
    Heap!Sinks, Timers!MoveTo, Heap!MoveTo, Timers!Heaps, Heap!Heaps, Timers!Exchange,
    Heap!Exchange, Timers!PutAt, Heap!PutAt, Timers!MinSon, Heap!MinSon, Timers!MoveLastTo,
    Heap!MoveLastTo
<1>3. list[pos] = c
  <2>1. Len(list) \in Nat
    BY TimersSound
  <2> QED
    BY <1>1, <2>1, TimersSound
<1> HIDE DEF pos
<1>4. Heap!Sound' /\ \A e \in Conns : e \in Heap!Elems(list') <=> e # c /\ e \in Heap!Elems(list)
  BY <1>1, <1>2, <1>3, TimersSound, Heap!RemoveStep
<1>5. \A e \in Conns : index[e] # 0 <=> e \in Heap!Elems(list)
  BY TimersSound DEF Heap!Sound, Heap!IndexCorrect
<1> QED
  BY <1>4, <1>5, TimersTyped

-----------------------------------------------------------------------------
(* Connections that leave a use.                                               *)

\* An object goes back to the pool, or is destroyed, and its socket is closed.
LEMMA DiscardStep ==
  ASSUME IInv, NEW c \in made, c \notin Elems(pool), Discard(c, {})
  PROVE  /\ made' \subseteq Conns /\ pool' \in Seq(Conns) /\ Len(pool') <= MaxFree
         /\ dst' = [dst EXCEPT ![c] = None] /\ osfd' = [osfd EXCEPT ![c] = None]
         /\ flag' = [flag EXCEPT ![c] = {}]
         /\ dst' \in [Conns -> Dsts \cup {None}] /\ osfd' \in [Conns -> Fds \cup {None}]
         /\ flag' \in [Conns -> SUBSET Flags]
         /\ sock' \in [Fds -> Sockets] /\ PoolInv' /\ SocketInv'
         /\ \A e \in made : e # c => e \in made'
         /\ \A e \in made' : e \in Elems(pool') \/ (e \in made /\ e # c)
         /\ \A e \in Elems(pool) : e \in Elems(pool')
<1>1. /\ dst' = [dst EXCEPT ![c] = None] /\ osfd' = [osfd EXCEPT ![c] = None]
      /\ flag' = [flag EXCEPT ![c] = {}] /\ FreePtr(c)
      /\ sock' = IF osfd[c] = None THEN sock ELSE [sock EXCEPT ![osfd[c]] = Closed]
  BY DEF Discard
<1>2. /\ c \in Conns /\ made \subseteq Conns /\ pool \in Seq(Conns) /\ Len(pool) <= MaxFree
      /\ Distinct(pool) /\ MaxFree \in Nat /\ Len(pool) \in Nat
      /\ \A e \in Conns : e \in Elems(pool) => e \in made
      /\ \A e \in Conns : e \notin made \/ e \in Elems(pool) => Blank(e)
  BY KeepAssumption, SeqFacts DEF IInv, TypeOK, PoolInv
<1>3. /\ dst' \in [Conns -> Dsts \cup {None}] /\ osfd' \in [Conns -> Fds \cup {None}]
      /\ flag' \in [Conns -> SUBSET Flags]
      /\ dst'[c] = None /\ osfd'[c] = None /\ flag'[c] = {}
      /\ \A e \in Conns : e # c => dst'[e] = dst[e] /\ osfd'[e] = osfd[e] /\ flag'[e] = flag[e]
  BY <1>1, <1>2, Types
<1>4. \A e \in Conns : Blank(e) \/ e = c => Blank(e)'
  BY <1>3 DEF Blank
<1>5. /\ made' \subseteq Conns /\ pool' \in Seq(Conns) /\ Len(pool') <= MaxFree
      /\ (\A e \in made : e # c => e \in made')
      /\ (\A e \in made' : e \in Elems(pool') \/ (e \in made /\ e # c))
      /\ (\A e \in Elems(pool) : e \in Elems(pool')) /\ PoolInv'
  <2>1. CASE Len(pool) >= MaxFree
    <3>1. made' = made \ {c} /\ pool' = pool
      BY <1>1, <2>1 DEF FreePtr
    <3>2. PoolInv'
      <4>1. Distinct(pool)' /\ Elems(pool)' = Elems(pool)
        BY <3>1, <1>2 DEF Distinct, Elems
      <4> QED
        BY <4>1, <3>1, <1>2, <1>4 DEF PoolInv
    <3> QED
      BY <3>1, <3>2, <1>2
  <2>2. CASE ~(Len(pool) >= MaxFree)
    <3>1. made' = made /\ pool' = Append(pool, c)
      BY <1>1, <2>2 DEF FreePtr
    <3>2. /\ Append(pool, c) \in Seq(Conns) /\ Distinct(Append(pool, c))
          /\ Len(Append(pool, c)) = Len(pool) + 1
          /\ \A x : x \in Elems(Append(pool, c)) <=> x = c \/ x \in Elems(pool)
      BY <1>2, LastIn
    <3>3. pool' \in Seq(Conns) /\ Len(pool') <= MaxFree
      BY <3>1, <3>2, <2>2, <1>2
    <3>4. \A x : x \in Elems(pool') <=> x = c \/ x \in Elems(pool)
      BY <3>1, <3>2
    <3>5. Distinct(pool)'
      BY <3>1, <3>2 DEF Distinct
    <3>6. PoolInv'
      <4>1. \A e \in Conns : e \in Elems(pool') => e \in made'
        BY <3>1, <3>4, <1>2
      <4>2. \A e \in Conns : e \notin made' \/ e \in Elems(pool') => Blank(e)'
        BY <3>1, <3>4, <1>2, <1>4
      <4>3. Elems(pool)' = Elems(pool')
        BY DEF Elems
      <4> QED
        BY <4>1, <4>2, <4>3, <3>5 DEF PoolInv
    <3> QED
      BY <3>1, <3>3, <3>4, <3>6, <1>2
  <2> QED
    BY <2>1, <2>2
<1>6. sock' \in [Fds -> Sockets]
  <2>1. Closed \in Sockets
    <3>1. <<>> \in Seq(1..MaxCalls)
      BY EmptySeq
    <3> QED
      BY <3>1 DEF Closed, Sockets
  <2> QED
    BY <2>1, <1>1, Types
<1>7. \A f \in Fds : sock'[f] = IF f = osfd[c] THEN Closed ELSE sock[f]
  BY <1>1, <1>2, Types
<1>8. SocketInv'
  <2>1. ASSUME NEW a \in Conns, NEW e \in Conns, osfd'[a] # None, osfd'[a] = osfd'[e]
        PROVE  a = e
    BY <2>1, <1>3 DEF IInv, SocketInv
  <2>2. ASSUME NEW a \in Conns, osfd'[a] # None
        PROVE  Open(osfd[a])' /\ sock'[osfd'[a]].to = dst'[a]
    <3>1. a # c /\ osfd'[a] = osfd[a] /\ osfd[a] # osfd[c] /\ osfd[a] \in Fds
      BY <2>2, <1>2, <1>3, Types DEF IInv, SocketInv
    <3>2. Open(osfd[a]) /\ sock[osfd[a]].to = dst[a]
      BY <2>2, <3>1 DEF IInv, SocketInv
    <3> QED
      BY <3>1, <3>2, <1>3, <1>7 DEF Open
  <2>3. ASSUME NEW f \in Fds, Open(f)' PROVE \E a \in Conns : osfd'[a] = f
    <3>1. f # osfd[c] /\ Open(f)
      BY <2>3, <1>7 DEF Open, Closed
    <3>2. PICK a \in Conns : osfd[a] = f
      BY <3>1 DEF IInv, SocketInv
    <3> QED
      BY <3>1, <3>2, <1>3
  <2>4. ASSUME NEW f \in Fds, ~Open(f)' PROVE sock'[f] = Closed
    BY <2>4, <1>7 DEF IInv, SocketInv, Open
  <2> QED
    BY <2>1, <2>2, <2>3, <2>4 DEF SocketInv
<1> QED
  BY <1>1, <1>3, <1>5, <1>6, <1>8

\* What it leaves alone: the data of other connections.
LEMMA DiscardData ==
  ASSUME IInv, NEW c \in Conns, osfd' = [osfd EXCEPT ![c] = None],
         sock' = IF osfd[c] = None THEN sock ELSE [sock EXCEPT ![osfd[c]] = Closed]
  PROVE  /\ \A e \in Conns : Quiet(e) => Quiet(e)'
         /\ \A e \in Conns : \A k : e # c /\ osfd[e] # None /\ Asked(osfd[e], k) =>
              osfd'[e] = osfd[e] /\ sock'[osfd[e]] = sock[osfd[e]]
<1>1. /\ \A e \in Conns : osfd'[e] = IF e = c THEN None ELSE osfd[e]
      /\ \A f \in Fds : sock'[f] = IF f = osfd[c] THEN Closed ELSE sock[f]
  BY Types
<1>2. \A e \in Conns : e # c /\ osfd[e] # None => osfd[e] \in Fds /\ osfd[e] # osfd[c]
  BY Types DEF IInv, SocketInv
<1>3. ASSUME NEW e \in Conns, Quiet(e) PROVE Quiet(e)'
  <2>1. CASE e = c
    BY <2>1, <1>1 DEF Quiet
  <2>2. CASE e # c
    BY <2>2, <1>1, <1>2, <1>3 DEF Quiet
  <2> QED
    BY <2>1, <2>2
<1> QED
  BY <1>1, <1>2, <1>3

\* The tables when the descriptor of one connection is taken from them.
LEMMA ClearedRegs ==
  ASSUME IInv, NEW c \in Conns, ~Idle(c)', \A u \in Users : Waiting(u) => conn[u] # c,
         \A e \in Conns : e # c => Idle(e)' = Idle(e) /\ osfd'[e] = osfd[e],
         \A u \in Users : /\ Waiting(u)' = Waiting(u)
                          /\ Waiting(u) => conn'[u] = conn[u] /\ pc'[u] = pc[u],
         \/ UNCHANGED epoll /\ (osfd[c] # None => epobj[osfd[c]] # c)
         \/ /\ osfd[c] # None
            /\ epobj' = [epobj EXCEPT ![osfd[c]] = None]
            /\ events' = [events EXCEPT ![osfd[c]] = {}]
            /\ kernel' = [kernel EXCEPT ![osfd[c]] = {}]
  PROVE  /\ epobj' \in [Fds -> Users \cup Conns \cup {None}]
         /\ events' \in [Fds -> SUBSET {"IN", "OUT"}]
         /\ kernel' \in [Fds -> SUBSET {"IN", "OUT"}] /\ RegInv'
<1>1. /\ epobj' \in [Fds -> Users \cup Conns \cup {None}]
      /\ events' \in [Fds -> SUBSET {"IN", "OUT"}] /\ kernel' \in [Fds -> SUBSET {"IN", "OUT"}]
  BY Types DEF epoll
<1>2. \A w \in Users : Waiting(w) => /\ conn[w] \in Conns /\ conn[w] # c /\ Fd(w) \in Fds
                                     /\ Fd(w)' = Fd(w) /\ Awaited(w)' = Awaited(w)
                                     /\ epobj[Fd(w)] = w /\ Fd(w) # osfd[c]
  <2>1. ASSUME NEW w \in Users, Waiting(w)
        PROVE  conn[w] \in Conns /\ conn[w] # c /\ Fd(w) \in Fds /\ Fd(w) # None
    BY <2>1, CallFacts, Types DEF Waiting
  <2>2. ASSUME NEW w \in Users, Waiting(w)
        PROVE  Fd(w)' = Fd(w) /\ Awaited(w)' = Awaited(w) /\ epobj[Fd(w)] = w
    BY <2>1, <2>2 DEF Fd, Awaited, IInv, RegInv
  <2>3. ASSUME NEW w \in Users, Waiting(w) PROVE Fd(w) # osfd[c]
    BY <2>1, <2>3 DEF Fd, IInv, SocketInv
  <2> QED
    BY <2>1, <2>2, <2>3
<1>3. \A f \in Fds : \/ epobj'[f] = epobj[f] /\ events'[f] = events[f] /\ kernel'[f] = kernel[f]
                        /\ epobj[f] # c
                     \/ f = osfd[c] /\ epobj'[f] = None /\ events'[f] = {} /\ kernel'[f] = {}
  <2>1. \A f \in Fds : epobj[f] = c => f = osfd[c]
    BY DEF IInv, RegInv
  <2> QED
    BY <2>1, Types DEF epoll
<1>4. ASSUME NEW f \in Fds
      PROVE /\ events'[f] = kernel'[f]
            /\ epobj'[f] = None => kernel'[f] = {}
            /\ \A e \in Conns : epobj'[f] = e =>
                 Idle(e)' /\ osfd'[e] = f /\ kernel'[f] = {"IN"}
            /\ \A w \in Users : epobj'[f] = w =>
                 Waiting(w)' /\ Fd(w)' = f /\ kernel'[f] \subseteq Awaited(w)'
  <2>1. CASE /\ epobj'[f] = epobj[f] /\ events'[f] = events[f] /\ kernel'[f] = kernel[f]
             /\ epobj[f] # c
    <3>1. /\ events'[f] = kernel'[f]
          /\ epobj'[f] = None => kernel'[f] = {}
      BY <2>1 DEF IInv, RegInv
    <3>2. ASSUME NEW e \in Conns, epobj'[f] = e
          PROVE  Idle(e)' /\ osfd'[e] = f /\ kernel'[f] = {"IN"}
      BY <2>1, <3>2, ZenonT(60) DEF IInv, RegInv
    <3>3. ASSUME NEW w \in Users, epobj'[f] = w
          PROVE  Waiting(w)' /\ Fd(w)' = f /\ kernel'[f] \subseteq Awaited(w)'
      <4>1. Waiting(w) /\ Fd(w) = f /\ kernel[f] \subseteq Awaited(w)
        BY <2>1, <3>3 DEF IInv, RegInv
      <4> QED
        BY <4>1, <2>1, <1>2
    <3> QED
      BY <3>1, <3>2, <3>3
  <2>2. CASE epobj'[f] = None /\ events'[f] = {} /\ kernel'[f] = {}
    BY <2>2, Types
  <2> QED
    BY <2>1, <2>2, <1>3
<1>5. ASSUME NEW e \in Conns, Idle(e)' PROVE epobj'[osfd'[e]] = e
  <2>1. e # c /\ Idle(e) /\ epobj[osfd[e]] = e /\ osfd'[e] = osfd[e]
    BY <1>5 DEF IInv, RegInv
  <2>2. osfd[e] \in Fds
    <3>1. PICK d \in Dsts : e \in Elems(keep_list[d])
      BY <2>1 DEF IInv, EveryInv
    <3> QED
      BY <3>1, Types DEF IInv, ListInv
  <2>3. osfd[e] # osfd[c]
    BY <2>1, <2>2, Types DEF IInv, SocketInv
  <2> QED
    BY <2>1, <2>2, <2>3, <1>3
<1>6. ASSUME NEW w \in Users, Waiting(w)' PROVE epobj'[Fd(w)'] = w
  BY <1>2, <1>3, <1>6
<1>7. RegInv'
  BY <1>4, <1>5, <1>6 DEF RegInv
<1> QED
  BY <1>1, <1>7

\* An idle connection is in the list of its server, and registered.
LEMMA IdleFacts ==
  ASSUME IInv, NEW c \in Conns, Idle(c)
  PROVE  /\ dst[c] \in Dsts /\ c \in Elems(keep_list[dst[c]]) /\ flag[c] = Flags
         /\ osfd[c] \in Fds /\ osfd[c] # None /\ Attached(c)
         /\ epobj[osfd[c]] = c /\ events[osfd[c]] = {"IN"} /\ kernel[osfd[c]] = {"IN"}
         /\ c \in made /\ c \notin Elems(pool) /\ FlagDetached(c) = {}
         /\ \A u \in Users : conn[u] # c
         /\ index[c] # 0 /\ index[c] \in 1..Len(list)
<1>1. PICK d \in Dsts : c \in Elems(keep_list[d])
  BY DEF IInv, EveryInv
<1>2. dst[c] = d /\ flag[c] = Flags /\ osfd[c] \in Fds /\ osfd[c] # None
  BY <1>1, Types DEF IInv, ListInv
<1>3. /\ epobj[osfd[c]] = c /\ events[osfd[c]] = {"IN"} /\ kernel[osfd[c]] = {"IN"}
  BY <1>2 DEF IInv, RegInv
<1>4. c \in made /\ c \notin Elems(pool)
  BY <1>2 DEF IInv, PoolInv, Blank
<1>5. ASSUME NEW u \in Users PROVE conn[u] # c
  <2>1. CASE pc[u] = "idle"
    BY <2>1, Types DEF IInv, CallsInv
  <2>2. CASE pc[u] # "idle"
    BY <2>2, CallFacts
  <2> QED
    BY <2>1, <2>2
<1>6. Attached(c) /\ FlagDetached(c) = {}
  BY <1>2, <1>3 DEF Attached, FlagDetached, Flags
<1>7. index[c] # 0 /\ index[c] \in 1..Len(list)
  BY TimersSound
<1> QED
  BY <1>1, <1>2, <1>3, <1>4, <1>5, <1>6, <1>7

\* It leaves the list.
LEMMA LeaveList ==
  ASSUME IInv, NEW d \in Dsts, NEW c \in Conns, c \in Elems(keep_list[d]),
         NEW s \in Seq(Conns), Distinct(s),
         \A x : x \in Elems(s) <=> x \in Elems(keep_list[d]) /\ x # c,
         keep_list' = [keep_list EXCEPT ![d] = s],
         flag' = [flag EXCEPT ![c] = {}],
         \A e \in Conns : e # c => dst'[e] = dst[e] /\ osfd'[e] = osfd[e]
  PROVE  /\ keep_list' \in [Dsts -> Seq(Conns)] /\ ListInv'
         /\ \A e \in Conns : Idle(e)' => \E b \in Dsts : e \in Elems(keep_list[b])'
         /\ ~Idle(c)' /\ \A e \in Conns : e # c => Idle(e)' = Idle(e)
<1>1. keep_list \in [Dsts -> Seq(Conns)] /\ keep_list' \in [Dsts -> Seq(Conns)]
  BY DEF IInv, TypeOK
<1>2. dst[c] = d /\ \A b \in Dsts : c \in Elems(keep_list[b]) => b = d
  BY DEF IInv, ListInv
<1>3. \A b \in Dsts : keep_list'[b] = IF b = d THEN s ELSE keep_list[b]
  BY <1>1
<1>4. /\ \A b \in Dsts : Elems(keep_list[b])' = Elems(keep_list'[b])
      /\ \A b \in Dsts, e \in Conns : e \in Elems(keep_list'[b]) <=> e \in Elems(keep_list[b]) /\ e # c
  <2>1. \A b \in Dsts : Elems(keep_list[b])' = Elems(keep_list'[b])
    BY DEF Elems
  <2> QED
    BY <1>2, <1>3, <2>1
<1>5. /\ ~Idle(c)' /\ \A e \in Conns : e # c => Idle(e)' = Idle(e) /\ flag'[e] = flag[e]
  BY Types DEF Idle
<1>6. \A b \in Dsts : Distinct(keep_list[b])'
  BY <1>3 DEF IInv, ListInv, Distinct
<1>7. ListInv'
  <2>1. ASSUME NEW b \in Dsts, NEW e \in Conns, e \in Elems(keep_list[b])'
        PROVE  dst'[e] = b /\ flag'[e] = Flags /\ osfd'[e] # None
    <3>1. e # c /\ e \in Elems(keep_list[b])
      BY <1>4, <2>1
    <3> QED
      BY <3>1, <1>5 DEF IInv, ListInv
  <2> QED
    BY <1>6, <2>1 DEF ListInv
<1>8. ASSUME NEW e \in Conns, Idle(e)' PROVE \E b \in Dsts : e \in Elems(keep_list[b])'
  BY <1>4, <1>5, <1>8 DEF IInv, EveryInv
<1> QED
  BY <1>1, <1>5, <1>7, <1>8

\* A connection closes while it is idle.
LEMMA CloseIdleStep ==
  ASSUME IInv, NEW c \in Conns, Idle(c), Timers!HeapDelete(c), CloseIdle(c),
         UNCHANGED <<running, threads, got, bounded>>
  PROVE  IInv'
<1> DEFINE fd == osfd[c]
           d == dst[c]
<1>1. /\ d \in Dsts /\ c \in Elems(keep_list[d]) /\ fd \in Fds /\ fd # None /\ Attached(c)
      /\ epobj[fd] = c /\ events[fd] = {"IN"} /\ c \in made /\ c \notin Elems(pool)
      /\ FlagDetached(c) = {} /\ \A u \in Users : conn[u] # c
  BY IdleFacts
<1>2. /\ Discard(c, {}) /\ DelObj(c, fd, {"IN"})
      /\ keep_list' = [keep_list EXCEPT ![d] = Without(@, c)]
  BY <1>1 DEF CloseIdle, Detach, RemoveFromList, Idle
<1>3. /\ made' \subseteq Conns /\ pool' \in Seq(Conns) /\ Len(pool') <= MaxFree
      /\ dst' = [dst EXCEPT ![c] = None] /\ osfd' = [osfd EXCEPT ![c] = None]
      /\ flag' = [flag EXCEPT ![c] = {}]
      /\ dst' \in [Conns -> Dsts \cup {None}] /\ osfd' \in [Conns -> Fds \cup {None}]
      /\ flag' \in [Conns -> SUBSET Flags]
      /\ sock' \in [Fds -> Sockets] /\ PoolInv' /\ SocketInv'
      /\ (\A e \in made : e # c => e \in made')
      /\ (\A e \in made' : e \in Elems(pool') \/ (e \in made /\ e # c))
  BY <1>1, <1>2, DiscardStep
<1>4. /\ keep_list[d] \in Seq(Conns) /\ Distinct(keep_list[d])
  BY <1>1 DEF IInv, TypeOK, ListInv
<1>5. \A e \in Conns : e # c => dst'[e] = dst[e] /\ osfd'[e] = osfd[e] /\ flag'[e] = flag[e]
  BY <1>3, Types
<1>6. /\ keep_list' \in [Dsts -> Seq(Conns)] /\ ListInv'
      /\ (\A e \in Conns : Idle(e)' => \E b \in Dsts : e \in Elems(keep_list[b])')
      /\ ~Idle(c)' /\ (\A e \in Conns : e # c => Idle(e)' = Idle(e))
  <2> DEFINE s == Without(keep_list[d], c)
  <2>1. /\ s \in Seq(Conns) /\ Distinct(s)
        /\ \A x : x \in Elems(s) <=> x \in Elems(keep_list[d]) /\ x # c
    BY <1>1, <1>4, WithoutOut
  <2>2. keep_list' = [keep_list EXCEPT ![d] = s]
    BY <1>2
  <2> HIDE DEF s, d, fd
  <2>3. \A e \in Conns : e # c => dst'[e] = dst[e] /\ osfd'[e] = osfd[e]
    BY <1>5
  <2>4. d \in Dsts /\ c \in Elems(keep_list[d]) /\ flag' = [flag EXCEPT ![c] = {}]
    BY <1>1, <1>3
  <2> QED
    BY <2>1, <2>2, <2>3, <2>4, LeaveList
<1>7. /\ Timers!TypeOK' /\ Timers!IndexCorrect'
      /\ \A e \in Conns : index'[e] # 0 <=> e # c /\ index[e] # 0
  BY DeleteStep
<1>8. /\ epobj' = [epobj EXCEPT ![fd] = None] /\ events' = [events EXCEPT ![fd] = {}]
      /\ kernel' = [kernel EXCEPT ![fd] = {}]
  <2>1. /\ epobj' = [epobj EXCEPT ![fd] = None]
        /\ events' = [events EXCEPT ![fd] = @ \ {"IN"}]
        /\ kernel' = [kernel EXCEPT ![fd] = events[fd] \ {"IN"}]
    BY <1>1, <1>2 DEF DelObj, Ignore
  <2>2. events[fd] \ {"IN"} = {}
    BY <1>1
  <2> QED
    BY <2>1, <2>2
<1>9. /\ UNCHANGED <<running, pc, conn, call, woken, got, calls, faults>>
      /\ \A u \in Users : Waiting(u)' = Waiting(u)
  BY DEF threads, bounded, Waiting
<1>10. /\ epobj' \in [Fds -> Users \cup Conns \cup {None}]
       /\ events' \in [Fds -> SUBSET {"IN", "OUT"}]
       /\ kernel' \in [Fds -> SUBSET {"IN", "OUT"}] /\ RegInv'
  BY <1>1, <1>5, <1>6, <1>8, <1>9, ClearedRegs
<1> HIDE DEF fd, d
<1>11. TypeOK'
  BY <1>3, <1>6, <1>7, <1>9, <1>10 DEF IInv, TypeOK
<1>12. CallsInv'
  <2>1. \A u \in Users : pc[u] # "idle" => conn[u] \in Conns /\ conn[u] # c /\ conn[u] \in made
    BY <1>1, CallFacts
  <2>2. \A u \in Users : pc[u] # "idle" =>
          /\ conn[u] \in made' /\ dst'[conn[u]] = dst[conn[u]]
          /\ osfd'[conn[u]] = osfd[conn[u]] /\ flag'[conn[u]] = flag[conn[u]]
    BY <2>1, <1>3, <1>5
  <2> QED
    BY <2>2, <1>9 DEF IInv, CallsInv, Fd
<1>13. EveryInv'
  <2>1. ASSUME NEW e \in made'
        PROVE  e \in Elems(pool)' \/ Idle(e)' \/ \E u \in Users : conn'[u] = e
    <3>1. Elems(pool)' = Elems(pool')
      BY DEF Elems
    <3>2. CASE e \in made /\ e # c /\ e \notin Elems(pool')
      <4>1. e \in Conns /\ e \notin Elems(pool)
        <5>1. \A x \in Elems(pool) : x \in Elems(pool')
          BY <1>1, <1>2, DiscardStep
        <5> QED
          BY <5>1, <3>2, Types
      <4> QED
        BY <4>1, <3>2, <1>6, <1>9 DEF IInv, EveryInv
    <3> QED
      BY <3>1, <3>2, <1>3
  <2> QED
    BY <2>1, <1>6 DEF EveryInv
<1>14. TimerInv'
  <2>1. \A e \in Conns : index[e] # 0 <=> Idle(e)
    BY TimersSound
  <2> QED
    BY <2>1, <1>6, <1>7 DEF TimerInv, TimerIffIdle
<1>15. DataInv'
  <2>1. /\ \A e \in Conns : Quiet(e) => Quiet(e)'
        /\ \A e \in Conns : \A k : e # c /\ osfd[e] # None /\ Asked(osfd[e], k) =>
             osfd'[e] = osfd[e] /\ sock'[osfd[e]] = sock[osfd[e]]
    <3>1. sock' = IF osfd[c] = None THEN sock ELSE [sock EXCEPT ![osfd[c]] = Closed]
      BY <1>2 DEF Discard
    <3> QED
      BY <3>1, <1>3, DiscardData
  <2>2. \A e \in Conns : Idle(e)' => Quiet(e)'
    BY <2>1, <1>6 DEF IInv, DataInv
  <2>3. \A u \in Users : pc[u] # "idle" => conn[u] \in Conns /\ conn[u] # c
    BY <1>1, CallFacts
  <2>4. ASSUME NEW u \in Users,
               pc'[u] \in {"socket", "connect", "connecting", "send", "done"}
        PROVE  Quiet(conn[u])'
    <3>1. pc[u] # "idle" /\ Quiet(conn[u]) /\ conn'[u] = conn[u]
      BY <2>4, <1>9 DEF IInv, DataInv
    <3> QED
      BY <3>1, <2>1, <2>3
  <2>5. ASSUME NEW u \in Users, pc'[u] \in {"recv", "receiving"}
        PROVE  Asked(Fd(u), call[u])'
    <3>1. /\ pc[u] # "idle" /\ Asked(Fd(u), call[u]) /\ Fd(u) \in Fds
      BY <2>5, <1>9, CallFacts DEF IInv, DataInv
    <3>2. osfd[conn[u]] # None /\ Asked(osfd[conn[u]], call[u])
      BY <3>1, Types DEF Fd
    <3>3. osfd'[conn[u]] = osfd[conn[u]] /\ sock'[osfd[conn[u]]] = sock[osfd[conn[u]]]
      BY <3>1, <3>2, <2>1, <2>3
    <3> QED
      BY <3>2, <3>3, <1>9 DEF Asked, Fd
  <2> QED
    BY <2>2, <2>4, <2>5 DEF DataInv
<1> QED
  BY <1>3, <1>6, <1>10, <1>11, <1>12, <1>13, <1>14, <1>15 DEF IInv

LEMMA DispatchIdleStep ==
  ASSUME IInv, NEW fd \in Fds, DispatchIdle(fd)
  PROVE  IInv'
<1>1. PICK c \in Conns : epobj[fd] = c /\ DetachTimer(c) /\ CloseIdle(c)
  BY DEF DispatchIdle
<1>2. UNCHANGED <<running, threads, got, bounded>>
  BY DEF DispatchIdle
<1>3. Idle(c)
  BY <1>1 DEF IInv, RegInv
<1>4. Attached(c) /\ index[c] \in 1..Len(list)
  BY <1>3, IdleFacts
<1>5. Timers!HeapDelete(c)
  BY <1>1, <1>4 DEF DetachTimer, StopTimer
<1> QED
  BY <1>1, <1>2, <1>3, <1>5, CloseIdleStep

\* The timer that is looked at is an idle connection's.
LEMMA TopIdle ==
  ASSUME IInv, NEW c \in Conns, list # <<>>, c = Head(list)
  PROVE  Idle(c)
<1>1. /\ list \in Seq(Conns) /\ Len(list) \in Nat
      /\ (\A i \in 1..Len(list) : list[i] \in Conns /\ index[list[i]] = i)
      /\ \A e \in Conns : index[e] # 0 <=> Idle(e)
  BY TimersSound
<1>2. Len(list) # 0 /\ Head(list) = list[1]
  BY <1>1, EmptySeq, HeadTailProperties
<1>3. 1 \in 1..Len(list)
  BY <1>1, <1>2
<1>4. index[c] = 1
  BY <1>1, <1>2, <1>3
<1> QED
  BY <1>1, <1>4

LEMMA ExpireStep ==
  ASSUME IInv, NEW c \in Conns, Expire(c)
  PROVE  IInv'
<1>1. /\ list # <<>> /\ c = Head(list) /\ Timers!HeapDelete(c) /\ CloseIdle(c)
      /\ UNCHANGED <<running, threads, got, bounded>>
  BY DEF Expire
<1>2. Idle(c)
  BY <1>1, TopIdle
<1> QED
  BY <1>1, <1>2, CloseIdleStep

\* A call returns and its connection is closed.
LEMMA CloseStep ==
  ASSUME IInv, NEW u \in Users, pc[u] \in {"done", "failed"}, Close(u),
         NEW c \in Conns, c = conn[u],
         Timers!TypeOK', UNCHANGED <<list, index>>, faults' \in 0..MaxFaults
  PROVE  IInv'
<1>1. /\ pc[u] # "idle" /\ ~Waiting(u) /\ c \in made /\ c \in Conns /\ flag[c] = {} /\ ~Idle(c)
      /\ c # None /\ dst[c] \in Dsts /\ \A w \in Users : conn[w] = c => w = u
  BY CallFacts DEF Waiting
<1>2. c \notin Elems(pool)
  BY <1>1, Types DEF IInv, PoolInv, Blank
<1>3. /\ Discard(c, {}) /\ Forget(c) /\ pc' = [pc EXCEPT ![u] = "idle"] /\ running' = Daemon
      /\ conn' = [conn EXCEPT ![u] = None] /\ call' = [call EXCEPT ![u] = 0]
      /\ got' = [got EXCEPT ![u] = 0] /\ UNCHANGED <<keep_list, woken, calls>>
  BY <1>1 DEF Close, Return, Go
<1>4. /\ UNCHANGED <<epobj, events>>
      /\ kernel' = IF osfd[c] = None THEN kernel ELSE [kernel EXCEPT ![osfd[c]] = {}]
  BY <1>3 DEF Forget
<1>5. /\ made' \subseteq Conns /\ pool' \in Seq(Conns) /\ Len(pool') <= MaxFree
      /\ dst' = [dst EXCEPT ![c] = None] /\ osfd' = [osfd EXCEPT ![c] = None]
      /\ flag' = [flag EXCEPT ![c] = {}]
      /\ dst' \in [Conns -> Dsts \cup {None}] /\ osfd' \in [Conns -> Fds \cup {None}]
      /\ flag' \in [Conns -> SUBSET Flags]
      /\ sock' \in [Fds -> Sockets] /\ PoolInv' /\ SocketInv'
      /\ (\A e \in made : e # c => e \in made')
      /\ (\A e \in made' : e \in Elems(pool') \/ (e \in made /\ e # c))
      /\ (\A e \in Elems(pool) : e \in Elems(pool'))
  BY <1>1, <1>2, <1>3, DiscardStep
<1>6. \A e \in Conns : /\ e # c => dst'[e] = dst[e] /\ osfd'[e] = osfd[e]
                       /\ flag'[e] = flag[e] /\ Idle(e)' = Idle(e)
  BY <1>1, <1>5, Types DEF Idle
<1>7. \A w \in Users : /\ w # u => /\ pc'[w] = pc[w] /\ conn'[w] = conn[w]
                                   /\ call'[w] = call[w] /\ got'[w] = got[w]
                       /\ pc[w] # "idle" /\ w # u => conn[w] \in Conns /\ conn[w] # c
  BY <1>1, <1>3, Types, CallFacts
<1>8. pc'[u] = "idle" /\ conn'[u] = None /\ call'[u] = 0 /\ got'[u] = 0
  BY <1>3, Types
<1>9. epobj' = epobj /\ events' = events /\ kernel' = kernel
      /\ (osfd[c] # None => epobj[osfd[c]] = None)
  <2>1. osfd[c] # None => epobj[osfd[c]] = None /\ kernel[osfd[c]] = {}
    BY <1>1, Unregistered DEF Fd
  <2> QED
    BY <2>1, <1>4, Types
<1>10. /\ epobj' \in [Fds -> Users \cup Conns \cup {None}]
       /\ events' \in [Fds -> SUBSET {"IN", "OUT"}]
       /\ kernel' \in [Fds -> SUBSET {"IN", "OUT"}] /\ RegInv'
  <2>1. \A w \in Users : /\ Waiting(w)' = Waiting(w)
                         /\ Waiting(w) => conn'[w] = conn[w] /\ pc'[w] = pc[w] /\ conn[w] # c
    BY <1>1, <1>7, <1>8 DEF Waiting
  <2>2. ~Idle(c)'
    BY <1>1, <1>6
  <2>3. epoll' = epoll /\ (osfd[c] # None => epobj[osfd[c]] # c)
    BY <1>9, <1>1 DEF epoll
  <2>4. \A e \in Conns : e # c => Idle(e)' = Idle(e) /\ osfd'[e] = osfd[e]
    BY <1>6
  <2> QED
    BY <2>1, <2>2, <2>3, <2>4, <1>1, ClearedRegs
<1>11. TypeOK'
  <2>1. /\ pc' \in [Users -> Steps] /\ conn' \in [Users -> Conns \cup {None}]
        /\ call' \in [Users -> 0..MaxCalls] /\ got' \in [Users -> 0..MaxCalls]
        /\ woken' \in [Users -> BOOLEAN] /\ running' \in Users \cup {Daemon}
    BY <1>3, Types, KeepAssumption DEF Steps
  <2> QED
    BY <2>1, <1>3, <1>5, <1>10 DEF IInv, TypeOK
<1>12. CallsInv'
  <2>1. ASSUME NEW w \in Users
        PROVE  /\ pc'[w] = "idle" <=> conn'[w] = None
               /\ pc'[w] # "idle" =>
                    /\ conn'[w] \in made' /\ dst'[conn'[w]] \in Dsts /\ flag'[conn'[w]] = {}
                    /\ call'[w] # 0
               /\ pc'[w] \notin {"idle", "socket", "failed"} => Fd(w)' # None
               /\ got'[w] # 0 => pc'[w] = "done" /\ got'[w] = call'[w]
    <3>1. CASE w = u
      BY <3>1, <1>8
    <3>2. CASE w # u
      <4>1. pc[w] # "idle" => conn[w] \in made' /\ dst'[conn[w]] = dst[conn[w]]
                              /\ flag'[conn[w]] = flag[conn[w]] /\ Fd(w)' = Fd(w)
        BY <3>2, <1>5, <1>6, <1>7, CallFacts DEF Fd
      <4> QED
        BY <3>2, <4>1, <1>7 DEF IInv, CallsInv
    <3> QED
      BY <3>1, <3>2
  <2>2. \A w, v \in Users : conn'[w] # None /\ conn'[w] = conn'[v] => w = v
    BY <1>7, <1>8 DEF IInv, CallsInv
  <2> QED
    BY <2>1, <2>2 DEF CallsInv
<1>13. ListInv'
  <2>1. \A b \in Dsts : c \notin Elems(keep_list[b])
    BY <1>1 DEF IInv, ListInv, Flags
  <2>2. \A b \in Dsts : /\ Elems(keep_list[b])' = Elems(keep_list[b])
                        /\ Distinct(keep_list[b])' = Distinct(keep_list[b])
    BY <1>3 DEF Elems, Distinct
  <2> QED
    BY <2>1, <2>2, <1>6 DEF IInv, ListInv
<1>14. EveryInv'
  <2>1. \A e \in Conns : Idle(e)' => \E d \in Dsts : e \in Elems(keep_list[d])'
    <3>1. \A b \in Dsts : Elems(keep_list[b])' = Elems(keep_list[b])
      BY <1>3 DEF Elems
    <3> QED
      BY <3>1, <1>6 DEF IInv, EveryInv
  <2>2. ASSUME NEW e \in made'
        PROVE  e \in Elems(pool)' \/ Idle(e)' \/ \E w \in Users : conn'[w] = e
    <3>1. Elems(pool)' = Elems(pool')
      BY DEF Elems
    <3>2. CASE e \in made /\ e # c /\ e \notin Elems(pool')
      <4>1. e \in Conns /\ e \notin Elems(pool)
        BY <3>2, <1>5, Types
      <4>2. CASE Idle(e)
        BY <4>1, <4>2, <1>6
      <4>3. CASE \E w \in Users : conn[w] = e
        <5>1. PICK w \in Users : conn[w] = e
          BY <4>3
        <5>2. w # u
          BY <5>1, <3>2
        <5> QED
          BY <5>1, <5>2, <1>7
      <4> QED
        BY <4>1, <4>2, <4>3, <3>2 DEF IInv, EveryInv
    <3> QED
      BY <3>1, <3>2, <1>5
  <2> QED
    BY <2>1, <2>2 DEF EveryInv
<1>15. TimerInv'
  BY <1>6 DEF IInv, TimerInv, TimerIffIdle, Timers!IndexCorrect, Timers!Elems
<1>16. DataInv'
  <2>1. /\ \A e \in Conns : Quiet(e) => Quiet(e)'
        /\ \A e \in Conns : \A k : e # c /\ osfd[e] # None /\ Asked(osfd[e], k) =>
             osfd'[e] = osfd[e] /\ sock'[osfd[e]] = sock[osfd[e]]
    <3>1. sock' = IF osfd[c] = None THEN sock ELSE [sock EXCEPT ![osfd[c]] = Closed]
      BY <1>3 DEF Discard
    <3> QED
      BY <3>1, <1>1, <1>5, DiscardData
  <2>2. \A e \in Conns : Idle(e)' => Quiet(e)'
    BY <2>1, <1>6 DEF IInv, DataInv
  <2>3. ASSUME NEW w \in Users,
               pc'[w] \in {"socket", "connect", "connecting", "send", "done"}
        PROVE  Quiet(conn[w])'
    <3>1. w # u /\ pc[w] # "idle" /\ conn'[w] = conn[w] /\ conn[w] \in Conns
      BY <2>3, <1>7, <1>8
    <3>2. Quiet(conn[w])
      BY <2>3, <3>1, <1>7 DEF IInv, DataInv
    <3> QED
      BY <3>1, <3>2, <2>1
  <2>4. ASSUME NEW w \in Users, pc'[w] \in {"recv", "receiving"}
        PROVE  Asked(Fd(w), call[w])'
    <3>1. /\ w # u /\ pc[w] # "idle" /\ conn'[w] = conn[w] /\ call'[w] = call[w]
          /\ conn[w] \in Conns /\ conn[w] # c
      BY <2>4, <1>7, <1>8
    <3>2. /\ Asked(Fd(w), call[w]) /\ Fd(w) \in Fds
      BY <2>4, <3>1, <1>7, CallFacts DEF IInv, DataInv
    <3>3. osfd[conn[w]] # None /\ Asked(osfd[conn[w]], call[w])
      BY <3>2, Types DEF Fd
    <3>4. osfd'[conn[w]] = osfd[conn[w]] /\ sock'[osfd[conn[w]]] = sock[osfd[conn[w]]]
      BY <3>1, <3>3, <2>1
    <3> QED
      BY <3>1, <3>3, <3>4 DEF Asked, Fd
  <2> QED
    BY <2>2, <2>3, <2>4 DEF DataInv
<1> QED
  BY <1>5, <1>10, <1>11, <1>12, <1>13, <1>14, <1>15, <1>16 DEF IInv

LEMMA NoTimerStep ==
  ASSUME IInv, NEW u \in Users, NoTimer(u)
  PROVE  IInv'
<1>1. /\ pc[u] = "done" /\ ~CanStartTimer(conn[u]) /\ StartTimer(conn[u]) /\ Close(u)
      /\ faults' \in 0..MaxFaults
  BY DEF NoTimer, MayKeep, IInv, TypeOK
<1>2. conn[u] \in Conns
  BY <1>1, CallFacts
<1>3. Timers!TypeOK' /\ UNCHANGED <<list, index>>
  BY <1>1, <1>2, RefusedStep
<1> QED
  BY <1>1, <1>2, <1>3, CloseStep

LEMMA FailedStep ==
  ASSUME IInv, NEW u \in Users, Failed(u)
  PROVE  IInv'
<1>1. /\ pc[u] = "failed" /\ Close(u) /\ faults' \in 0..MaxFaults
      /\ UNCHANGED timers
  BY DEF Failed, IInv, TypeOK
<1>2. Timers!TypeOK' /\ UNCHANGED <<list, index>>
  BY <1>1 DEF timers, IInv, TypeOK, Timers!TypeOK
<1>3. conn[u] \in Conns
  BY <1>1, CallFacts
<1> QED
  BY <1>1, <1>2, <1>3, CloseStep

-----------------------------------------------------------------------------
(* A call takes a connection, and keeps it when it is done.                    *)

\* What it means for the calls and their data.
LEMMA TakeStep ==
  ASSUME IInv, NEW u \in Users, pc[u] = "idle", calls < MaxCalls, NEW d \in Dsts,
         NEW c \in Conns, \A w \in Users : conn[w] # c, Quiet(c),
         c \in made', \A e \in made : e \in made', dst'[c] = d, flag'[c] = {},
         \A e \in Conns : e # c => dst'[e] = dst[e] /\ flag'[e] = flag[e],
         conn' = [conn EXCEPT ![u] = c], running' = u, Go(u, "socket"),
         calls' = calls + 1, call' = [call EXCEPT ![u] = calls + 1],
         UNCHANGED <<osfd, sock, woken, got, faults>>
  PROVE  /\ CallsInv' /\ DataInv'
         /\ running' \in Users \cup {Daemon} /\ pc' \in [Users -> Steps]
         /\ conn' \in [Users -> Conns \cup {None}] /\ call' \in [Users -> 0..MaxCalls]
         /\ woken' \in [Users -> BOOLEAN] /\ got' \in [Users -> 0..MaxCalls]
         /\ calls' \in 0..MaxCalls /\ faults' \in 0..MaxFaults
         /\ \A w \in Users : /\ Waiting(w)' = Waiting(w)
                             /\ Waiting(w) => conn'[w] = conn[w] /\ pc'[w] = pc[w]
<1>1. /\ pc'[u] = "socket" /\ conn'[u] = c /\ call'[u] = calls + 1
      /\ \A w \in Users : w # u => pc'[w] = pc[w] /\ conn'[w] = conn[w] /\ call'[w] = call[w]
  BY Types DEF Go
<1>2. calls \in 0..MaxCalls /\ calls + 1 \in 0..MaxCalls /\ calls + 1 # 0
  <2>1. calls \in 0..MaxCalls /\ MaxCalls \in Nat
    BY KeepAssumption DEF IInv, TypeOK
  <2> QED
    BY <2>1
<1>3. /\ running' \in Users \cup {Daemon} /\ pc' \in [Users -> Steps]
      /\ conn' \in [Users -> Conns \cup {None}] /\ call' \in [Users -> 0..MaxCalls]
      /\ woken' \in [Users -> BOOLEAN] /\ got' \in [Users -> 0..MaxCalls]
      /\ calls' \in 0..MaxCalls /\ faults' \in 0..MaxFaults
  <2>1. pc' \in [Users -> Steps]
    BY Types DEF Go, Steps
  <2> QED
    BY <2>1, <1>2, Types DEF IInv, TypeOK
<1>4. got[u] = 0 /\ c # None
  BY Types DEF IInv, CallsInv
<1>5. \A w \in Users : pc[w] # "idle" =>
        w # u /\ conn[w] \in Conns /\ conn[w] # c /\ conn[w] # None /\ Fd(w)' = Fd(w)
  BY <1>1, CallFacts DEF Fd
<1>6. CallsInv'
  <2>1. ASSUME NEW w \in Users
        PROVE  /\ pc'[w] = "idle" <=> conn'[w] = None
               /\ pc'[w] # "idle" =>
                    /\ conn'[w] \in made' /\ dst'[conn'[w]] \in Dsts /\ flag'[conn'[w]] = {}
                    /\ call'[w] # 0
               /\ pc'[w] \notin {"idle", "socket", "failed"} => Fd(w)' # None
               /\ got'[w] # 0 => pc'[w] = "done" /\ got'[w] = call'[w]
    <3>1. CASE w = u
      BY <3>1, <1>1, <1>2, <1>4
    <3>2. CASE w # u
      BY <3>2, <1>1, <1>5 DEF IInv, CallsInv
    <3> QED
      BY <3>1, <3>2
  <2>2. \A w, v \in Users : conn'[w] # None /\ conn'[w] = conn'[v] => w = v
    BY <1>1 DEF IInv, CallsInv
  <2> QED
    BY <2>1, <2>2 DEF CallsInv
<1>7. DataInv'
  <2>1. \A e \in Conns : Quiet(e)' = Quiet(e)
    BY DEF Quiet
  <2>2. \A e \in Conns : Idle(e)' => Quiet(e)'
    BY <2>1 DEF IInv, DataInv, Idle
  <2>3. ASSUME NEW w \in Users,
               pc'[w] \in {"socket", "connect", "connecting", "send", "done"}
        PROVE  Quiet(conn[w])'
    <3>1. CASE w = u
      BY <3>1, <1>1, <2>1
    <3>2. CASE w # u
      <4>1. pc[w] # "idle" /\ Quiet(conn[w])
        BY <3>2, <2>3, <1>1 DEF IInv, DataInv
      <4> QED
        BY <4>1, <3>2, <2>1, <1>1, <1>5
    <3> QED
      BY <3>1, <3>2
  <2>4. ASSUME NEW w \in Users, pc'[w] \in {"recv", "receiving"}
        PROVE  Asked(Fd(w), call[w])'
    <3>1. w # u /\ pc[w] \in {"recv", "receiving"} /\ pc[w] # "idle" /\ call'[w] = call[w]
      BY <2>4, <1>1
    <3>2. Asked(Fd(w), call[w]) /\ Fd(w)' = Fd(w)
      BY <3>1, <1>5 DEF IInv, DataInv
    <3> QED
      BY <3>1, <3>2 DEF Asked
  <2> QED
    BY <2>2, <2>3, <2>4 DEF DataInv
<1>8. \A w \in Users : /\ Waiting(w)' = Waiting(w)
                       /\ Waiting(w) => conn'[w] = conn[w] /\ pc'[w] = pc[w]
  BY <1>1 DEF Waiting
<1> QED
  BY <1>3, <1>6, <1>7, <1>8

LEMMA GetIdleStep ==
  ASSUME IInv, NEW u \in Users, NEW d \in Dsts, GetIdle(u, d), Call(u, d)
  PROVE  IInv'
<1> DEFINE s == keep_list[d]
<1>1. /\ pc[u] = "idle" /\ calls < MaxCalls /\ running' = u /\ Go(u, "socket")
      /\ calls' = calls + 1 /\ call' = [call EXCEPT ![u] = calls + 1]
      /\ UNCHANGED <<osfd, sock, woken, got, faults>>
  BY DEF Call
<1>2. s \in Seq(Conns) /\ Distinct(s) /\ s # <<>>
  BY DEF IInv, TypeOK, ListInv, GetIdle
<1>3. PICK c \in Conns : c = Head(s) /\ c \in Elems(s)
  BY <1>2, TailOut
<1>4. dst[c] = d /\ Idle(c)
  BY <1>3 DEF IInv, ListInv, Idle, Flags
<1>5. /\ osfd[c] \in Fds /\ osfd[c] # None /\ Attached(c)
      /\ epobj[osfd[c]] = c /\ events[osfd[c]] = {"IN"}
      /\ c \in made /\ c \notin Elems(pool) /\ FlagDetached(c) = {}
      /\ (\A w \in Users : conn[w] # c) /\ index[c] \in 1..Len(list)
  BY <1>4, IdleFacts
<1>6. /\ keep_list' = [keep_list EXCEPT ![d] = Tail(@)]
      /\ flag' = [flag EXCEPT ![c] = {}]
      /\ Timers!HeapDelete(c) /\ DelObj(c, osfd[c], {"IN"})
      /\ conn' = [conn EXCEPT ![u] = c]
      /\ UNCHANGED <<made, pool, dst>>
  BY <1>3, <1>5 DEF GetIdle, DetachTimer, Detach, StopTimer
<1>7. /\ keep_list' \in [Dsts -> Seq(Conns)] /\ ListInv'
      /\ (\A e \in Conns : Idle(e)' => \E b \in Dsts : e \in Elems(keep_list[b])')
      /\ ~Idle(c)' /\ (\A e \in Conns : e # c => Idle(e)' = Idle(e))
  <2> DEFINE t == Tail(s)
  <2>1. /\ t \in Seq(Conns) /\ Distinct(t)
        /\ \A x : x \in Elems(t) <=> x \in Elems(s) /\ x # c
    BY <1>2, <1>3, TailOut
  <2>2. keep_list' = [keep_list EXCEPT ![d] = t]
    BY <1>6
  <2>3. c \in Elems(keep_list[d])
    BY <1>3
  <2>4. \A e \in Conns : e # c => dst'[e] = dst[e] /\ osfd'[e] = osfd[e]
    BY <1>1, <1>6
  <2> HIDE DEF t
  <2> QED
    BY <2>1, <2>2, <2>3, <2>4, <1>6, LeaveList
<1>8. /\ Timers!TypeOK' /\ Timers!IndexCorrect'
      /\ \A e \in Conns : index'[e] # 0 <=> e # c /\ index[e] # 0
  BY <1>6, DeleteStep
<1>9. \A e \in Conns : e # c => flag'[e] = flag[e]
  BY <1>6, Types
<1>10. flag'[c] = {} /\ flag' \in [Conns -> SUBSET Flags]
  BY <1>6, Types
<1>11. /\ CallsInv' /\ DataInv'
       /\ running' \in Users \cup {Daemon} /\ pc' \in [Users -> Steps]
       /\ conn' \in [Users -> Conns \cup {None}] /\ call' \in [Users -> 0..MaxCalls]
       /\ woken' \in [Users -> BOOLEAN] /\ got' \in [Users -> 0..MaxCalls]
       /\ calls' \in 0..MaxCalls /\ faults' \in 0..MaxFaults
       /\ \A w \in Users : /\ Waiting(w)' = Waiting(w)
                           /\ Waiting(w) => conn'[w] = conn[w] /\ pc'[w] = pc[w]
  <2>1. Quiet(c)
    BY <1>4 DEF IInv, DataInv
  <2>2. dst'[c] = d /\ c \in made' /\ (\A e \in made : e \in made')
    BY <1>4, <1>5, <1>6
  <2>3. \A e \in Conns : e # c => dst'[e] = dst[e] /\ flag'[e] = flag[e]
    BY <1>6, <1>9
  <2> QED
    BY <2>1, <2>2, <2>3, <1>1, <1>5, <1>6, <1>10, TakeStep
<1>12. /\ epobj' \in [Fds -> Users \cup Conns \cup {None}]
       /\ events' \in [Fds -> SUBSET {"IN", "OUT"}]
       /\ kernel' \in [Fds -> SUBSET {"IN", "OUT"}] /\ RegInv'
  <2>1. /\ epobj' = [epobj EXCEPT ![osfd[c]] = None]
        /\ events' = [events EXCEPT ![osfd[c]] = {}]
        /\ kernel' = [kernel EXCEPT ![osfd[c]] = {}]
    <3>1. /\ epobj' = [epobj EXCEPT ![osfd[c]] = None]
          /\ events' = [events EXCEPT ![osfd[c]] = @ \ {"IN"}]
          /\ kernel' = [kernel EXCEPT ![osfd[c]] = events[osfd[c]] \ {"IN"}]
      BY <1>5, <1>6 DEF DelObj, Ignore
    <3>2. events[osfd[c]] \ {"IN"} = {}
      BY <1>5
    <3> QED
      BY <3>1, <3>2
  <2>2. \A e \in Conns : e # c => Idle(e)' = Idle(e) /\ osfd'[e] = osfd[e]
    BY <1>1, <1>7
  <2> QED
    BY <2>1, <2>2, <1>5, <1>7, <1>11, ClearedRegs
<1>13. TypeOK'
  BY <1>1, <1>6, <1>7, <1>8, <1>10, <1>11, <1>12 DEF IInv, TypeOK
<1>14. PoolInv'
  <2>1. \A e \in Conns : e \notin made \/ e \in Elems(pool) => e # c
    BY <1>5
  <2> QED
    BY <2>1, <1>1, <1>6, <1>9 DEF IInv, PoolInv, Blank, Distinct, Elems
<1>15. EveryInv'
  <2>1. ASSUME NEW e \in made'
        PROVE  e \in Elems(pool)' \/ Idle(e)' \/ \E w \in Users : conn'[w] = e
    <3>1. Elems(pool)' = Elems(pool) /\ made' = made /\ e \in Conns
      BY <1>6, Types DEF Elems
    <3>2. CASE e = c
      BY <3>2, <1>6, Types
    <3>3. CASE e # c /\ \E w \in Users : conn[w] = e
      <4>1. PICK w \in Users : conn[w] = e
        BY <3>3
      <4>2. pc[w] # "idle"
        BY <4>1, <3>1, Types DEF IInv, CallsInv
      <4>3. conn'[w] = e
        BY <4>1, <4>2, <1>1, <1>6, Types
      <4> QED
        BY <4>3
    <3> QED
      BY <3>1, <3>2, <3>3, <1>7 DEF IInv, EveryInv
  <2> QED
    BY <2>1, <1>7 DEF EveryInv
<1>16. SocketInv'
  BY <1>1, <1>6 DEF IInv, SocketInv, Open
<1>17. TimerInv'
  <2>1. \A e \in Conns : index[e] # 0 <=> Idle(e)
    BY TimersSound
  <2> QED
    BY <2>1, <1>7, <1>8 DEF TimerInv, TimerIffIdle
<1> QED
  BY <1>7, <1>11, <1>12, <1>13, <1>14, <1>15, <1>16, <1>17 DEF IInv

LEMMA GetFreshStep ==
  ASSUME IInv, NEW u \in Users, NEW d \in Dsts, GetFresh(u, d), Call(u, d)
  PROVE  IInv'
<1>1. /\ pc[u] = "idle" /\ calls < MaxCalls /\ running' = u /\ Go(u, "socket")
      /\ calls' = calls + 1 /\ call' = [call EXCEPT ![u] = calls + 1]
      /\ UNCHANGED <<osfd, sock, woken, got, faults>>
  BY DEF Call
<1>2. PICK c \in IF pool # <<>> THEN {Head(pool)} ELSE Conns \ made :
        /\ pool' = IF pool # <<>> THEN Tail(pool) ELSE pool
        /\ made' = made \cup {c} /\ dst' = [dst EXCEPT ![c] = d]
        /\ conn' = [conn EXCEPT ![u] = c]
  BY DEF GetFresh
<1>3. UNCHANGED <<flag, keep_list, timers, epoll>>
  BY DEF GetFresh
<1>4. pool \in Seq(Conns) /\ Distinct(pool) /\ Len(pool) <= MaxFree /\ MaxFree \in Nat
  BY KeepAssumption DEF IInv, TypeOK, PoolInv
<1>5. /\ c \in Conns /\ Blank(c)
      /\ pool' \in Seq(Conns) /\ Len(pool') <= MaxFree /\ Distinct(pool')
      /\ \A x \in Conns : x \in Elems(pool') <=> x \in Elems(pool) /\ x # c
  <2>1. CASE pool # <<>>
    <3>1. /\ c = Head(pool) /\ pool' = Tail(pool)
      BY <2>1, <1>2
    <3>2. /\ c \in Conns /\ c \in Elems(pool) /\ pool' \in Seq(Conns) /\ Distinct(pool')
          /\ \A x : x \in Elems(pool') <=> x \in Elems(pool) /\ x # c
      BY <2>1, <3>1, <1>4, TailOut
    <3>3. Len(pool') = Len(pool) - 1 /\ Len(pool) \in Nat
      BY <2>1, <3>1, <1>4, HeadTailProperties, SeqFacts
    <3>4. Blank(c)
      BY <3>2 DEF IInv, PoolInv
    <3>5. Len(pool') <= MaxFree
      BY <3>3, <1>4
    <3> QED
      BY <3>2, <3>4, <3>5
  <2>2. CASE pool = <<>>
    <3>1. c \in Conns /\ c \notin made /\ pool' = pool
      BY <2>2, <1>2
    <3>2. c \notin Elems(pool)
      BY <3>1 DEF IInv, PoolInv
    <3>3. Blank(c)
      BY <3>1 DEF IInv, PoolInv
    <3> QED
      BY <3>1, <3>2, <3>3, <1>4
  <2> QED
    BY <2>1, <2>2
<1>6. \A w \in Users : conn[w] # c
  <2>1. ASSUME NEW w \in Users PROVE conn[w] # c
    <3>1. CASE pc[w] = "idle"
      BY <3>1, <1>5, Types DEF IInv, CallsInv
    <3>2. CASE pc[w] # "idle"
      BY <3>2, <1>5, CallFacts, Types DEF Blank
    <3> QED
      BY <3>1, <3>2
  <2> QED
    BY <2>1
<1>7. /\ dst'[c] = d /\ dst' \in [Conns -> Dsts \cup {None}] /\ flag' = flag /\ flag[c] = {}
      /\ osfd' = osfd /\ osfd[c] = None /\ \A e \in Conns : e # c => dst'[e] = dst[e]
  BY <1>1, <1>2, <1>3, <1>5, Types DEF Blank
<1>8. made' = made \cup {c} /\ made' \subseteq Conns
  BY <1>2, <1>5, Types
<1>9. /\ CallsInv' /\ DataInv'
      /\ running' \in Users \cup {Daemon} /\ pc' \in [Users -> Steps]
      /\ conn' \in [Users -> Conns \cup {None}] /\ call' \in [Users -> 0..MaxCalls]
      /\ woken' \in [Users -> BOOLEAN] /\ got' \in [Users -> 0..MaxCalls]
      /\ calls' \in 0..MaxCalls /\ faults' \in 0..MaxFaults
      /\ \A w \in Users : /\ Waiting(w)' = Waiting(w)
                          /\ Waiting(w) => conn'[w] = conn[w] /\ pc'[w] = pc[w]
  <2>1. Quiet(c) /\ flag'[c] = {} /\ \A e \in Conns : e # c => dst'[e] = dst[e] /\ flag'[e] = flag[e]
    BY <1>7 DEF Quiet
  <2>2. c \in made' /\ \A e \in made : e \in made'
    BY <1>8
  <2> QED
    BY <2>1, <2>2, <1>1, <1>2, <1>5, <1>6, <1>7, TakeStep
<1>10. /\ epobj' \in [Fds -> Users \cup Conns \cup {None}]
       /\ events' \in [Fds -> SUBSET {"IN", "OUT"}]
       /\ kernel' \in [Fds -> SUBSET {"IN", "OUT"}] /\ RegInv'
  <2>1. ~Idle(c)' /\ \A e \in Conns : e # c => Idle(e)' = Idle(e) /\ osfd'[e] = osfd[e]
    BY <1>7 DEF Idle
  <2>2. UNCHANGED epoll
    BY <1>3
  <2> QED
    BY <2>1, <2>2, <1>5, <1>6, <1>7, <1>9, ClearedRegs
<1>11. TypeOK'
  BY <1>1, <1>3, <1>5, <1>7, <1>8, <1>9, <1>10
  DEF IInv, TypeOK, Timers!TypeOK, timers
<1>12. PoolInv'
  <2>1. Elems(pool)' = Elems(pool') /\ Distinct(pool)' = Distinct(pool')
    BY DEF Elems, Distinct
  <2>2. \A e \in Conns : e \in Elems(pool') => e \in made'
    BY <1>5, <1>8 DEF IInv, PoolInv
  <2>3. ASSUME NEW e \in Conns, e \notin made' \/ e \in Elems(pool') PROVE Blank(e)'
    <3>1. e # c /\ (e \notin made \/ e \in Elems(pool))
      BY <2>3, <1>5, <1>8
    <3> QED
      BY <3>1, <1>7 DEF IInv, PoolInv, Blank
  <2> QED
    BY <2>1, <2>2, <2>3, <1>5 DEF PoolInv
<1>13. ListInv'
  <2>1. \A b \in Dsts : c \notin Elems(keep_list[b])
    BY <1>5, <1>7 DEF IInv, ListInv, Flags
  <2>2. \A b \in Dsts : /\ Elems(keep_list[b])' = Elems(keep_list[b])
                        /\ Distinct(keep_list[b])' = Distinct(keep_list[b])
    BY <1>3 DEF Elems, Distinct
  <2> QED
    BY <2>1, <2>2, <1>7 DEF IInv, ListInv
<1>14. EveryInv'
  <2>1. \A e \in Conns : Idle(e)' => \E b \in Dsts : e \in Elems(keep_list[b])'
    <3>1. \A b \in Dsts : Elems(keep_list[b])' = Elems(keep_list[b])
      BY <1>3 DEF Elems
    <3> QED
      BY <3>1, <1>7 DEF IInv, EveryInv, Idle
  <2>2. ASSUME NEW e \in made'
        PROVE  e \in Elems(pool)' \/ Idle(e)' \/ \E w \in Users : conn'[w] = e
    <3>1. Elems(pool)' = Elems(pool') /\ e \in Conns
      BY <2>2, <1>8 DEF Elems
    <3>2. CASE e = c
      BY <3>2, <1>2, Types
    <3>3. CASE e # c /\ \E w \in Users : conn[w] = e
      <4>1. PICK w \in Users : conn[w] = e
        BY <3>3
      <4>2. pc[w] # "idle"
        BY <4>1, <3>1, Types DEF IInv, CallsInv
      <4>3. conn'[w] = e
        BY <4>1, <4>2, <1>1, <1>2, Types
      <4> QED
        BY <4>3
    <3>4. CASE e # c /\ (e \in Elems(pool) \/ Idle(e))
      BY <3>1, <3>4, <1>5, <1>7 DEF Idle
    <3> QED
      BY <3>1, <3>2, <3>3, <3>4, <1>8 DEF IInv, EveryInv
  <2> QED
    BY <2>1, <2>2 DEF EveryInv
<1>15. SocketInv'
  <2>1. \A e \in Conns : osfd[e] # None => dst'[e] = dst[e]
    BY <1>7
  <2> QED
    BY <2>1, <1>1 DEF IInv, SocketInv, Open
<1>16. TimerInv'
  BY <1>3, <1>7 DEF IInv, TimerInv, TimerIffIdle, Timers!IndexCorrect, Timers!Elems,
     timers, Idle
<1> QED
  BY <1>9, <1>10, <1>11, <1>12, <1>13, <1>14, <1>15, <1>16 DEF IInv

LEMMA KeepStep ==
  ASSUME IInv, NEW u \in Users, Keep(u), NEW c \in Conns, c = conn[u]
  PROVE  IInv'
<1> DEFINE fd == osfd[c]
           d == dst[c]
<1>1. /\ pc[u] = "done" /\ CanStartTimer(c) /\ StartTimer(c) /\ AddObj(c, fd, {"IN"})
      /\ flag' = [flag EXCEPT ![c] = {"IN_EPOLL", "IN_LIST"}]
      /\ keep_list' = [keep_list EXCEPT ![d] = <<c>> \o @]
      /\ pc' = [pc EXCEPT ![u] = "idle"] /\ running' = Daemon
      /\ conn' = [conn EXCEPT ![u] = None] /\ call' = [call EXCEPT ![u] = 0]
      /\ got' = [got EXCEPT ![u] = 0]
      /\ UNCHANGED <<made, pool, dst, osfd, sock, woken, bounded>>
  BY DEF Keep, MayKeep, Return, Go
<1>2. /\ ~Waiting(u) /\ c \in made /\ flag[c] = {} /\ ~Idle(c) /\ c # None /\ d \in Dsts
      /\ (\A w \in Users : conn[w] = c => w = u) /\ fd \in Fds /\ fd # None
      /\ epobj[fd] = None /\ kernel[fd] = {} /\ events[fd] = {} /\ Quiet(c)
  <2>1. /\ ~Waiting(u) /\ c \in made /\ flag[c] = {} /\ ~Idle(c) /\ c # None /\ d \in Dsts
        /\ (\A w \in Users : conn[w] = c => w = u) /\ Fd(u) \in Fds /\ Fd(u) = fd
    BY <1>1, CallFacts DEF Waiting, Fd
  <2>2. fd # None
    BY <2>1, Types
  <2>3. epobj[fd] = None /\ kernel[fd] = {} /\ events[fd] = {}
    BY <1>1, <2>1, <2>2, Unregistered
  <2>4. Quiet(c)
    BY <1>1 DEF IInv, DataInv
  <2> QED
    BY <2>1, <2>2, <2>3, <2>4
<1>3. c \notin Elems(pool) /\ \A b \in Dsts : c \notin Elems(keep_list[b])
  <2>1. c \notin Elems(pool)
    BY <1>2, Types DEF IInv, PoolInv, Blank
  <2>2. \A b \in Dsts : c \notin Elems(keep_list[b])
    BY <1>2 DEF IInv, ListInv, Flags
  <2> QED
    BY <2>1, <2>2
<1>4. /\ pc'[u] = "idle" /\ conn'[u] = None /\ call'[u] = 0 /\ got'[u] = 0
      /\ \A w \in Users : w # u => /\ pc'[w] = pc[w] /\ conn'[w] = conn[w]
                                   /\ call'[w] = call[w] /\ got'[w] = got[w]
  BY <1>1, Types
<1>5. \A w \in Users : pc[w] # "idle" /\ w # u =>
        conn[w] \in Conns /\ conn[w] # c /\ Fd(w)' = Fd(w)
  BY <1>1, <1>2, <1>4, CallFacts DEF Fd
<1>6. flag'[c] = Flags /\ (\A e \in Conns : e # c => flag'[e] = flag[e] /\ Idle(e)' = Idle(e))
      /\ Idle(c)' /\ flag' \in [Conns -> SUBSET Flags]
  BY <1>1, Types DEF Flags, Idle
<1>7. /\ Timers!TypeOK' /\ Timers!IndexCorrect'
      /\ \A e \in Conns : index'[e] # 0 <=> e = c \/ index[e] # 0
  BY <1>1, StartStep
<1>8. /\ epobj' = [epobj EXCEPT ![fd] = c] /\ events' = [events EXCEPT ![fd] = {"IN"}]
      /\ kernel' = [kernel EXCEPT ![fd] = {"IN"}]
  <2>1. /\ epobj' = [epobj EXCEPT ![fd] = c] /\ events' = [events EXCEPT ![fd] = @ \cup {"IN"}]
        /\ kernel' = IF {"IN"} \subseteq events[fd] THEN kernel
                     ELSE [kernel EXCEPT ![fd] = events[fd] \cup {"IN"}]
    BY <1>1 DEF AddObj, Listen
  <2>2. events[fd] \cup {"IN"} = {"IN"} /\ ~({"IN"} \subseteq events[fd])
    BY <1>2
  <2> QED
    BY <2>1, <2>2
<1>9. /\ keep_list' \in [Dsts -> Seq(Conns)]
      /\ \A b \in Dsts : Distinct(keep_list[b])'
      /\ \A b \in Dsts, e \in Conns :
           e \in Elems(keep_list[b])' <=> e \in Elems(keep_list[b]) \/ (b = d /\ e = c)
  <2> DEFINE s == keep_list[d]
             t == <<c>> \o s
  <2>1. keep_list \in [Dsts -> Seq(Conns)] /\ s \in Seq(Conns) /\ Distinct(s) /\ c \notin Elems(s)
    BY <1>2, <1>3 DEF IInv, TypeOK, ListInv
  <2>2. /\ t \in Seq(Conns) /\ Distinct(t)
        /\ \A x : x \in Elems(t) <=> x = c \/ x \in Elems(s)
    BY <2>1, FrontIn
  <2>3. keep_list' = [keep_list EXCEPT ![d] = t]
    BY <1>1
  <2> HIDE DEF t, d
  <2>4. keep_list' \in [Dsts -> Seq(Conns)]
    BY <2>1, <2>2, <2>3
  <2>5. \A b \in Dsts : keep_list'[b] = IF b = d THEN t ELSE keep_list[b]
    BY <2>1, <2>3
  <2>6. \A b \in Dsts : /\ Elems(keep_list[b])' = Elems(keep_list'[b])
                        /\ Distinct(keep_list[b])' = Distinct(keep_list'[b])
    BY DEF Elems, Distinct
  <2>7. \A b \in Dsts : Distinct(keep_list[b])
    BY DEF IInv, ListInv
  <2> QED
    BY <2>2, <2>4, <2>5, <2>6, <2>7
<1> HIDE DEF fd, d
<1>10. TypeOK'
  <2>1. /\ pc' \in [Users -> Steps] /\ conn' \in [Users -> Conns \cup {None}]
        /\ call' \in [Users -> 0..MaxCalls] /\ got' \in [Users -> 0..MaxCalls]
        /\ woken' \in [Users -> BOOLEAN] /\ running' \in Users \cup {Daemon}
    BY <1>1, Types, KeepAssumption DEF Steps
  <2>2. /\ epobj' \in [Fds -> Users \cup Conns \cup {None}]
        /\ events' \in [Fds -> SUBSET {"IN", "OUT"}] /\ kernel' \in [Fds -> SUBSET {"IN", "OUT"}]
    BY <1>8, Types
  <2> QED
    BY <2>1, <2>2, <1>1, <1>6, <1>7, <1>9 DEF IInv, TypeOK, bounded
<1>11. CallsInv'
  <2>1. ASSUME NEW w \in Users
        PROVE  /\ pc'[w] = "idle" <=> conn'[w] = None
               /\ pc'[w] # "idle" =>
                    /\ conn'[w] \in made' /\ dst'[conn'[w]] \in Dsts /\ flag'[conn'[w]] = {}
                    /\ call'[w] # 0
               /\ pc'[w] \notin {"idle", "socket", "failed"} => Fd(w)' # None
               /\ got'[w] # 0 => pc'[w] = "done" /\ got'[w] = call'[w]
    <3>1. CASE w = u
      BY <3>1, <1>4
    <3>2. CASE w # u
      <4>1. pc[w] # "idle" => conn[w] \in made' /\ dst'[conn[w]] = dst[conn[w]]
                              /\ flag'[conn[w]] = flag[conn[w]] /\ Fd(w)' = Fd(w)
        BY <3>2, <1>1, <1>5, <1>6, CallFacts
      <4> QED
        BY <3>2, <4>1, <1>4 DEF IInv, CallsInv
    <3> QED
      BY <3>1, <3>2
  <2>2. \A w, v \in Users : conn'[w] # None /\ conn'[w] = conn'[v] => w = v
    BY <1>4 DEF IInv, CallsInv
  <2> QED
    BY <2>1, <2>2 DEF CallsInv
<1>12. PoolInv'
  <2>1. \A e \in Conns : e \notin made \/ e \in Elems(pool) => e # c
    BY <1>2, <1>3
  <2> QED
    BY <2>1, <1>1, <1>6 DEF IInv, PoolInv, Blank, Distinct, Elems
<1>13. ListInv'
  <2>1. ASSUME NEW b \in Dsts, NEW e \in Conns, e \in Elems(keep_list[b])'
        PROVE  dst'[e] = b /\ flag'[e] = Flags /\ osfd'[e] # None
    <3>1. CASE b = d /\ e = c
      BY <3>1, <1>1, <1>2, <1>6 DEF d, fd
    <3>2. CASE e \in Elems(keep_list[b])
      <4>1. e # c
        BY <3>2, <1>3
      <4> QED
        BY <3>2, <4>1, <1>1, <1>6 DEF IInv, ListInv
    <3> QED
      BY <3>1, <3>2, <1>9, <2>1
  <2> QED
    BY <2>1, <1>9 DEF ListInv
<1>14. EveryInv'
  <2>1. \A e \in Conns : Idle(e)' => \E b \in Dsts : e \in Elems(keep_list[b])'
    BY <1>2, <1>6, <1>9 DEF IInv, EveryInv
  <2>2. ASSUME NEW e \in made'
        PROVE  e \in Elems(pool)' \/ Idle(e)' \/ \E w \in Users : conn'[w] = e
    <3>1. Elems(pool)' = Elems(pool) /\ e \in Conns /\ e \in made
      BY <1>1, Types DEF Elems
    <3>2. CASE e # c /\ \E w \in Users : conn[w] = e
      <4>1. PICK w \in Users : conn[w] = e /\ w # u
        BY <3>2
      <4> QED
        BY <4>1, <1>4
    <3> QED
      BY <3>1, <3>2, <1>6 DEF IInv, EveryInv
  <2> QED
    BY <2>1, <2>2 DEF EveryInv
<1>15. SocketInv'
  BY <1>1 DEF IInv, SocketInv, Open
<1>16. RegInv'
  <2>1. \A w \in Users : /\ Waiting(w)' = Waiting(w)
                         /\ Waiting(w) => Awaited(w)' = Awaited(w) /\ Fd(w)' = Fd(w)
    BY <1>2, <1>4, <1>5 DEF Waiting, Awaited
  <2>2. \A f \in Fds : /\ f # fd => epobj'[f] = epobj[f] /\ events'[f] = events[f]
                                    /\ kernel'[f] = kernel[f]
                       /\ f = fd => epobj'[f] = c /\ events'[f] = {"IN"} /\ kernel'[f] = {"IN"}
    BY <1>8, Types
  <2>3. ASSUME NEW f \in Fds
        PROVE /\ events'[f] = kernel'[f]
              /\ epobj'[f] = None => kernel'[f] = {}
              /\ \A e \in Conns : epobj'[f] = e =>
                   Idle(e)' /\ osfd'[e] = f /\ kernel'[f] = {"IN"}
              /\ \A w \in Users : epobj'[f] = w =>
                   Waiting(w)' /\ Fd(w)' = f /\ kernel'[f] \subseteq Awaited(w)'
    <3>1. CASE f = fd
      <4>1. epobj'[f] = c /\ events'[f] = {"IN"} /\ kernel'[f] = {"IN"} /\ osfd'[c] = f
        BY <3>1, <2>2, <1>1 DEF fd
      <4> QED
        BY <4>1, <1>2, <1>6, Types
    <3>2. CASE f # fd
      <4>1. /\ events'[f] = kernel'[f]
            /\ epobj'[f] = None => kernel'[f] = {}
        BY <3>2, <2>2 DEF IInv, RegInv
      <4>2. ASSUME NEW e \in Conns, epobj'[f] = e
            PROVE  Idle(e)' /\ osfd'[e] = f /\ kernel'[f] = {"IN"}
        <5>1. Idle(e) /\ osfd[e] = f /\ kernel[f] = {"IN"}
          BY <3>2, <4>2, <2>2 DEF IInv, RegInv
        <5> QED
          BY <5>1, <3>2, <1>1, <1>2, <1>6, <2>2
      <4>3. ASSUME NEW w \in Users, epobj'[f] = w
            PROVE  Waiting(w)' /\ Fd(w)' = f /\ kernel'[f] \subseteq Awaited(w)'
        <5>1. Waiting(w) /\ Fd(w) = f /\ kernel[f] \subseteq Awaited(w)
          BY <3>2, <4>3, <2>2 DEF IInv, RegInv
        <5> QED
          BY <5>1, <3>2, <2>1, <2>2
      <4> QED
        BY <4>1, <4>2, <4>3
    <3> QED
      BY <3>1, <3>2
  <2>4. ASSUME NEW e \in Conns, Idle(e)' PROVE epobj'[osfd'[e]] = e
    <3>1. CASE e = c
      BY <3>1, <2>2, <1>1, <1>2 DEF fd
    <3>2. CASE e # c
      <4>1. Idle(e) /\ osfd[e] \in Fds /\ epobj[osfd[e]] = e
        BY <3>2, <2>4, <1>6, IdleFacts
      <4>2. osfd[e] # fd
        BY <3>2, <4>1, <1>2, Types DEF IInv, SocketInv, fd
      <4> QED
        BY <4>1, <4>2, <2>2, <1>1
    <3> QED
      BY <3>1, <3>2
  <2>5. ASSUME NEW w \in Users, Waiting(w)' PROVE epobj'[Fd(w)'] = w
    <3>1. Waiting(w) /\ epobj[Fd(w)] = w /\ Fd(w)' = Fd(w) /\ Fd(w) \in Fds
      BY <2>1, <2>5, CallFacts DEF IInv, RegInv, Waiting
    <3>2. Fd(w) # fd
      BY <3>1, <1>2, Types
    <3> QED
      BY <3>1, <3>2, <2>2
  <2> QED
    BY <2>3, <2>4, <2>5 DEF RegInv
<1>17. TimerInv'
  <2>1. \A e \in Conns : index[e] # 0 <=> Idle(e)
    BY TimersSound
  <2> QED
    BY <2>1, <1>6, <1>7 DEF TimerInv, TimerIffIdle
<1>18. DataInv'
  <2>1. \A e \in Conns : Quiet(e)' = Quiet(e)
    BY <1>1 DEF Quiet
  <2>2. \A e \in Conns : Idle(e)' => Quiet(e)'
    BY <2>1, <1>2, <1>6 DEF IInv, DataInv
  <2>3. ASSUME NEW w \in Users,
               pc'[w] \in {"socket", "connect", "connecting", "send", "done"}
        PROVE  Quiet(conn[w])'
    <3>1. w # u /\ pc[w] # "idle" /\ Quiet(conn[w]) /\ conn'[w] = conn[w]
      BY <2>3, <1>4 DEF IInv, DataInv
    <3> QED
      BY <3>1, <2>1, <1>5
  <2>4. ASSUME NEW w \in Users, pc'[w] \in {"recv", "receiving"}
        PROVE  Asked(Fd(w), call[w])'
    <3>1. /\ w # u /\ pc[w] # "idle" /\ call'[w] = call[w] /\ Asked(Fd(w), call[w])
      BY <2>4, <1>4 DEF IInv, DataInv
    <3>2. Fd(w)' = Fd(w) /\ sock' = sock
      BY <3>1, <1>1, <1>5
    <3> QED
      BY <3>1, <3>2 DEF Asked
  <2> QED
    BY <2>2, <2>3, <2>4 DEF DataInv
<1> QED
  BY <1>10, <1>11, <1>12, <1>13, <1>14, <1>15, <1>16, <1>17, <1>18 DEF IInv

-----------------------------------------------------------------------------
(* The invariant.                                                              *)

LEMMA Initial == Init => IInv
<1> SUFFICES ASSUME Init PROVE IInv
  OBVIOUS
<1>0. /\ None \notin Users /\ None \notin Conns /\ None \notin Dsts /\ None \notin Fds
      /\ MaxCalls \in Nat /\ MaxFaults \in Nat /\ MaxFree \in Nat /\ MaxTimers \in Nat
  BY KeepAssumption
<1>1. \A x : x \notin Elems(<<>>)
  BY DEF Elems
<1>2. Distinct(<<>>)
  BY DEF Distinct
<1>3. Timers!TypeOK /\ Timers!IndexCorrect /\ \A c \in Conns : index[c] = 0
  BY <1>0 DEF Init, Timers!Init, Timers!TypeOK, Timers!IndexCorrect, Timers!Elems
<1>4. Closed \in Sockets
  <2>1. <<>> \in Seq(1..MaxCalls)
    BY EmptySeq
  <2> QED
    BY <2>1 DEF Closed, Sockets
<1>5. TypeOK
  <2>1. pc \in [Users -> Steps]
    BY DEF Init, Steps
  <2>2. /\ pool \in Seq(Conns) /\ Len(pool) <= MaxFree /\ keep_list \in [Dsts -> Seq(Conns)]
        /\ sock \in [Fds -> Sockets]
    BY <1>0, <1>4, EmptySeq DEF Init
  <2> QED
    BY <1>0, <1>3, <2>1, <2>2 DEF Init, TypeOK
<1>6. CallsInv
  BY DEF Init, CallsInv
<1>7. PoolInv
  BY <1>1, <1>2 DEF Init, PoolInv, Blank
<1>8. ListInv /\ EveryInv
  BY <1>1, <1>2 DEF Init, ListInv, EveryInv, Idle
<1>9. SocketInv
  BY DEF Init, SocketInv, Open, Closed
<1>10. RegInv
  BY <1>0 DEF Init, RegInv, Idle, Waiting
<1>11. TimerInv
  BY <1>3 DEF Init, TimerInv, TimerIffIdle, Idle
<1>12. DataInv
  BY DEF Init, DataInv, Idle
<1> QED
  BY <1>5, <1>6, <1>7, <1>8, <1>9, <1>10, <1>11, <1>12 DEF IInv

LEMMA Stutters ==
  ASSUME IInv, UNCHANGED vars
  PROVE  IInv'
<1>1. UNCHANGED <<cache, timers, epoll, sock, running, threads, got, bounded, conn>>
  BY DEF vars, threads
<1>2. TypeOK'
  BY <1>1, TypesKept, Types DEF IInv, TypeOK, epoll, threads, bounded
<1>3. CallsInv' /\ SocketInv'
  BY <1>1 DEF IInv, CallsInv, SocketInv, cache, threads, Fd, Open
<1>4. RegInv' /\ DataInv'
  <2>1. RegInv'
    BY <1>1 DEF IInv, RegInv, cache, epoll, threads, Fd, Idle, Waiting, Awaited
  <2>2. DataInv'
    BY <1>1 DEF IInv, DataInv, cache, threads, Fd, Idle, Quiet, Asked
  <2> QED
    BY <2>1, <2>2
<1> QED
  BY <1>1, <1>2, <1>3, <1>4, CacheFrame DEF IInv

LEMMA Inductive == IInv /\ [Next]_vars => IInv'
<1> SUFFICES ASSUME IInv, [Next]_vars PROVE IInv'
  OBVIOUS
<1>1. CASE UNCHANGED vars
  BY <1>1, Stutters
<1>2. ASSUME NEW u \in Users, Run(u) PROVE IInv'
  <2>1. CASE CreateSocket(u)
    BY <2>1, CreateSocketStep
  <2>2. CASE Connect(u) \/ Recv(u)
    BY <2>2, WaitStep DEF Connect, Recv
  <2>3. CASE Send(u)
    BY <2>3, SendStep
  <2>4. CASE Keep(u)
    <3>1. conn[u] \in Conns
      BY <2>4, CallFacts DEF Keep, MayKeep
    <3> QED
      BY <2>4, <3>1, KeepStep
  <2>5. CASE NoTimer(u) \/ Failed(u)
    BY <2>5, NoTimerStep, FailedStep
  <2> QED
    BY <1>2, <2>1, <2>2, <2>3, <2>4, <2>5 DEF Run
<1>3. ASSUME NEW u \in Users, Resume(u) \/ TimesOut(u) \/ WaitFails(u) PROVE IInv'
  BY <1>3, ResumeStep, TimesOutStep, WaitFailsStep
<1>4. ASSUME NEW u \in Users, NEW d \in Dsts, Call(u, d) PROVE IInv'
  BY <1>4, GetIdleStep, GetFreshStep DEF Call
<1>5. ASSUME NEW fd \in Fds, Serve(fd) \/ Hangup(fd) \/ DispatchThread(fd) \/ DispatchIdle(fd)
      PROVE  IInv'
  BY <1>5, ServeStep, HangupStep, DispatchThreadStep, DispatchIdleStep
<1>6. ASSUME NEW c \in Conns, Expire(c) PROVE IInv'
  BY <1>6, ExpireStep
<1>7. CASE Tick
  BY <1>7, TickStep
<1> QED
  BY <1>1, <1>2, <1>3, <1>4, <1>5, <1>6, <1>7 DEF Next

LEMMA Invariance == Spec => []IInv
BY Initial, Inductive, PTL DEF Spec

-----------------------------------------------------------------------------
(* What follows from it.                                                       *)

\* Every variable keeps its type, through every call, answer, timeout and fault.
THEOREM TypeCorrect == Spec => []TypeOK
<1>1. IInv => TypeOK
  BY DEF IInv
<1> QED
  BY <1>1, Invariance, PTL

\* An object has at most one place in a sequence that does not repeat any.
LEMMA CountOnce ==
  ASSUME NEW S, NEW s \in Seq(S), Distinct(s), NEW c
  PROVE  Occurrences(s, c) = IF c \in Elems(s) THEN 1 ELSE 0
<1> DEFINE T == {i \in DOMAIN s : s[i] = c}
<1>1. CASE c \in Elems(s)
  <2>1. PICK i \in DOMAIN s : s[i] = c
    BY <1>1 DEF Elems
  <2>2. T = {i}
    BY <2>1 DEF Distinct
  <2>3. Cardinality(T) = 1
    BY <2>2, FS_Singleton
  <2> QED
    BY <1>1, <2>3 DEF Occurrences
<1>2. CASE c \notin Elems(s)
  <2>1. T = {}
    BY <1>2 DEF Elems
  <2>2. Cardinality(T) = 0
    BY <2>1, FS_EmptySet
  <2> QED
    BY <1>2, <2>2 DEF Occurrences
<1> QED
  BY <1>1, <1>2

\* GetTcpKeepConn, CacheTcpKeepConn, CloseIdleTcpKeep and FreePtr neither lose a
\* connection object nor put it where it can be taken twice, whatever the sizes of
\* the pool and of the heap of timers, and however calls, events and timeouts fall.
THEOREM OnePlaceEach == Spec => []OnePlace
<1>1. ASSUME IInv PROVE OnePlace
  <2> SUFFICES ASSUME NEW c \in Conns
               PROVE  LET inUse == {u \in Users : conn[u] = c}
                          idleTo == {d \in Dsts : c \in Elems(keep_list[d])}
                      IN  /\ Occurrences(pool, c) + Cardinality(idleTo) + Cardinality(inUse)
                               = IF c \in made THEN 1 ELSE 0
                          /\ \A d \in idleTo : Occurrences(keep_list[d], c) = 1 /\ dst[c] = d
                          /\ Idle(c) <=> idleTo # {}
    BY DEF OnePlace
  <2> DEFINE inUse == {u \in Users : conn[u] = c}
             idleTo == {d \in Dsts : c \in Elems(keep_list[d])}
  <2>1. pool \in Seq(Conns) /\ Distinct(pool) /\ keep_list \in [Dsts -> Seq(Conns)]
        /\ \A d \in Dsts : Distinct(keep_list[d])
    BY <1>1 DEF IInv, TypeOK, PoolInv, ListInv
  <2>2. Occurrences(pool, c) = IF c \in Elems(pool) THEN 1 ELSE 0
    BY <2>1, CountOnce
  <2>3. \A d \in idleTo : Occurrences(keep_list[d], c) = 1 /\ dst[c] = d
    <3>1. ASSUME NEW d \in Dsts, c \in Elems(keep_list[d])
          PROVE  Occurrences(keep_list[d], c) = 1
      BY <2>1, <3>1, CountOnce
    <3>2. ASSUME NEW d \in Dsts, c \in Elems(keep_list[d]) PROVE dst[c] = d
      BY <1>1, <3>2 DEF IInv, ListInv
    <3> QED
      BY <3>1, <3>2
  <2>4. Idle(c) <=> idleTo # {}
    <3>1. Idle(c) => idleTo # {}
      BY <1>1 DEF IInv, EveryInv
    <3>2. ASSUME NEW d \in Dsts, c \in Elems(keep_list[d]) PROVE Idle(c)
      BY <1>1, <3>2 DEF IInv, ListInv, Idle, Flags
    <3> QED
      BY <3>1, <3>2
  <2>5. Cardinality(idleTo) = IF Idle(c) THEN 1 ELSE 0
    <3>1. CASE Idle(c)
      <4>1. idleTo = {dst[c]}
        BY <1>1, <3>1, <2>3, <2>4
      <4> QED
        BY <3>1, <4>1, FS_Singleton
    <3>2. CASE ~Idle(c)
      BY <3>2, <2>4, FS_EmptySet
    <3> QED
      BY <3>1, <3>2
  <2>6. Cardinality(inUse) = IF \E u \in Users : conn[u] = c THEN 1 ELSE 0
    <3>1. ASSUME NEW u \in Users, conn[u] = c PROVE Cardinality(inUse) = 1
      <4>1. c # None
        BY <1>1, Types
      <4>2. inUse = {u}
        BY <1>1, <3>1, <4>1 DEF IInv, CallsInv
      <4> QED
        BY <4>2, FS_Singleton
    <3>2. CASE ~ \E u \in Users : conn[u] = c
      <4>1. inUse = {}
        BY <3>2
      <4> QED
        BY <3>2, <4>1, FS_EmptySet
    <3> QED
      BY <3>1, <3>2
  <2>7. /\ c \in Elems(pool) => c \in made /\ ~Idle(c) /\ \A u \in Users : conn[u] # c
        /\ Idle(c) => c \in made /\ \A u \in Users : conn[u] # c
        /\ \A u \in Users : conn[u] = c => c \in made
        /\ c \in made => c \in Elems(pool) \/ Idle(c) \/ \E u \in Users : conn[u] = c
    <3>1. ASSUME NEW u \in Users, conn[u] = c PROVE c \in made /\ dst[c] # None
      <4>1. pc[u] # "idle"
        BY <1>1, <3>1, Types DEF IInv, CallsInv
      <4> QED
        BY <1>1, <3>1, <4>1, CallFacts, Types
    <3>2. c \in Elems(pool) => c \in made /\ dst[c] = None /\ ~Idle(c)
      BY <1>1 DEF IInv, PoolInv, Blank, Idle
    <3>3. Idle(c) => c \in made /\ \A u \in Users : conn[u] # c
      BY <1>1, IdleFacts
    <3> QED
      BY <1>1, <3>1, <3>2, <3>3 DEF IInv, EveryInv
  <2> HIDE DEF inUse, idleTo
  <2>8. Occurrences(pool, c) + Cardinality(idleTo) + Cardinality(inUse)
          = IF c \in made THEN 1 ELSE 0
    <3>1. CASE c \in Elems(pool)
      BY <3>1, <2>2, <2>5, <2>6, <2>7
    <3>2. CASE c \notin Elems(pool) /\ Idle(c)
      BY <3>2, <2>2, <2>5, <2>6, <2>7
    <3>3. CASE c \notin Elems(pool) /\ ~Idle(c)
      BY <3>3, <2>2, <2>5, <2>6, <2>7
    <3> QED
      BY <3>1, <3>2, <3>3
  <2> QED
    BY <2>3, <2>4, <2>8 DEF inUse, idleTo
<1> QED
  BY <1>1, Invariance, PTL

\* IdleAttach and IdleDetach start and stop the timer with the idleness: no timer
\* outlives it, and none is missing, also when a timer is stopped in the middle of
\* the heap, when it expires in the round of an event, and when the heap is full.
THEOREM TimersFollow == Spec => []TimerIffIdle
<1>1. IInv => TimerIffIdle
  BY DEF IInv, TimerInv
<1> QED
  BY <1>1, Invariance, PTL

\* A connection, the tables of EpollProxy and the kernel agree about a descriptor,
\* although the kernel gives the number of a closed one out again.
THEOREM DescriptorsAgree == Spec => []Descriptors
<1>1. ASSUME IInv PROVE RightPeer
  <2>1. \A c \in Conns : osfd[c] # None => Open(osfd[c]) /\ sock[osfd[c]].to = dst[c]
    BY <1>1 DEF IInv, SocketInv
  <2>2. ASSUME NEW fd \in Fds, Open(fd) PROVE Cardinality({c \in Conns : osfd[c] = fd}) = 1
    <3>1. PICK c \in Conns : osfd[c] = fd
      BY <1>1, <2>2 DEF IInv, SocketInv
    <3>2. fd # None
      BY <1>1, Types
    <3>3. {e \in Conns : osfd[e] = fd} = {c}
      BY <1>1, <3>1, <3>2 DEF IInv, SocketInv
    <3> QED
      BY <3>3, FS_Singleton
  <2> QED
    BY <2>1, <2>2 DEF RightPeer
<1>2. ASSUME IInv PROVE Registered
  <2>1. ASSUME NEW fd \in Fds
        PROVE  /\ events[fd] = kernel[fd]
               /\ epobj[fd] = None => kernel[fd] = {}
               /\ epobj[fd] # None =>
                    \/ \E c \in Conns : epobj[fd] = c /\ Idle(c) /\ osfd[c] = fd
                                        /\ kernel[fd] = {"IN"}
                    \/ \E u \in Users : epobj[fd] = u /\ Fd(u) = fd
                                        /\ pc[u] \in {"connecting", "receiving"}
    BY <1>2, Types DEF IInv, RegInv, Waiting
  <2> QED
    BY <2>1 DEF Registered
<1>3. IInv => Descriptors
  BY <1>1, <1>2 DEF Descriptors
<1> QED
  BY <1>3, Invariance, PTL

\* A call returns the answer to its own request, although its connection has served
\* other calls before and answers may come after their calls have timed out: a
\* connection is only kept once it has answered everything it was asked.
THEOREM AnswersOwn == Spec => []OwnAnswer
<1>1. IInv => OwnAnswer
  BY DEF IInv, CallsInv, OwnAnswer
<1> QED
  BY <1>1, Invariance, PTL

\* No event, timer or other call changes the descriptor of a connection in use.
THEOREM InUseKept == Spec => InUseUntouched
<1> DEFINE Untouched ==
             \A u \in Users : conn[u] # None /\ running # u => osfd'[conn[u]] = osfd[conn[u]]
<1>1. ASSUME IInv, Next PROVE Untouched
  <2> SUFFICES ASSUME NEW u \in Users, conn[u] # None, running # u
               PROVE  osfd'[conn[u]] = osfd[conn[u]]
    OBVIOUS
  <2>0. /\ osfd \in [Conns -> Fds \cup {None}] /\ conn[u] \in Conns
        /\ \A w \in Users : conn[w] = conn[u] => w = u
    <3>1. pc[u] # "idle"
      BY <1>1 DEF IInv, CallsInv
    <3> QED
      BY <1>1, <3>1, CallFacts, Types
  <2>1. ASSUME NEW w \in Users, Run(w) PROVE osfd'[conn[u]] = osfd[conn[u]]
    <3>1. running = w /\ w # u /\ conn[w] # conn[u]
      BY <2>0, <2>1 DEF Run, CreateSocket, Connect, Send, Recv, Keep, NoTimer, Failed
    <3>2. UNCHANGED osfd \/ \E fd : osfd' = [osfd EXCEPT ![conn[w]] = fd]
      BY <2>1 DEF Run, CreateSocket, Connect, Send, Recv, Keep, NoTimer, Failed, Wait, Close,
                  Discard, cache
    <3> QED
      BY <2>0, <3>1, <3>2
  <2>2. ASSUME NEW w \in Users, Resume(w) \/ TimesOut(w) \/ WaitFails(w)
        PROVE  osfd'[conn[u]] = osfd[conn[u]]
    BY <2>2 DEF Resume, TimesOut, WaitFails, cache
  <2>3. ASSUME NEW w \in Users, NEW d \in Dsts, Call(w, d) PROVE osfd'[conn[u]] = osfd[conn[u]]
    BY <2>3 DEF Call
  <2>4. ASSUME NEW fd \in Fds, Serve(fd) \/ Hangup(fd) \/ DispatchThread(fd)
        PROVE  osfd'[conn[u]] = osfd[conn[u]]
    BY <2>4 DEF Serve, Hangup, DispatchThread, cache
  <2>5. ASSUME NEW c \in Conns, Idle(c), CloseIdle(c) PROVE osfd'[conn[u]] = osfd[conn[u]]
    <3>1. conn[u] # c
      BY <1>1, <2>5, IdleFacts
    <3>2. osfd' = [osfd EXCEPT ![c] = None]
      BY <2>5 DEF CloseIdle, Discard
    <3> QED
      BY <2>0, <3>1, <3>2
  <2>6. ASSUME NEW fd \in Fds, DispatchIdle(fd) PROVE osfd'[conn[u]] = osfd[conn[u]]
    <3>1. PICK c \in Conns : epobj[fd] = c /\ CloseIdle(c)
      BY <2>6 DEF DispatchIdle
    <3>2. Idle(c)
      BY <1>1, <3>1 DEF IInv, RegInv
    <3> QED
      BY <2>5, <3>1, <3>2
  <2>7. ASSUME NEW c \in Conns, Expire(c) PROVE osfd'[conn[u]] = osfd[conn[u]]
    <3>1. list # <<>> /\ c = Head(list) /\ CloseIdle(c)
      BY <2>7 DEF Expire
    <3>2. Idle(c)
      BY <1>1, <3>1, TopIdle
    <3> QED
      BY <2>5, <3>1, <3>2
  <2>8. CASE Tick
    BY <2>8 DEF Tick, cache
  <2> QED
    BY <1>1, <2>1, <2>2, <2>3, <2>4, <2>6, <2>7, <2>8 DEF Next
<1>2. ASSUME IInv, [Next]_vars PROVE [Untouched]_vars
  BY <1>1, <1>2
<1> QED
  BY <1>2, Invariance, PTL DEF Spec, InUseUntouched
=============================================================================
