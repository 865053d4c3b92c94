------------------------------- MODULE Routes -------------------------------
(***************************************************************************)
(* The routing data of one service (nlb): the agent's update_config and    *)
(* the calls of the API, search_route and updateroute, over a meta block   *)
(* with an index and two copies of the table of servers in shared memory.  *)
(* Every update takes the results counted in the current copy, computes    *)
(* weights and dead servers from them, writes the other copy, switches the *)
(* index and adds what was counted meanwhile.                              *)
(*                                                                         *)
(* Callers are processes of their own: each reads the index, and then that *)
(* copy.  They take no lock; Prompt is the assumption that replaces it.    *)
(* Ratios are percentages; ports, costs and time stamps are left out.      *)
(* An operator named Op_Slip is Op with a slip the code could have had.    *)
(***************************************************************************)
EXTENDS Integers, Sequences, FiniteSets, SequencesExt, Functions

CONSTANTS
  Servers,     \* addresses, in the order of the configuration
  Callers,     \* processes that use the API
  WeightStatic,\* weight_static
  SuccessBase, SuccessMin,         \* success_ratio_base, success_ratio_min
  ResumeWeight, WeightIncr,        \* resume_weight_ratio, weight_incr_ratio
  LowWatermark, LowRatio,          \* weight_low_watermark, weight_low_ratio
  RequestMin,  \* shaping_request_min
  MaxResults,  \* bounds: results reported,
  MaxRounds,   \* updates and loads,
  MaxFaults    \* events and crashes of the agent

ASSUME RoutesAssumption ==
  /\ Servers \subseteq Nat /\ IsFiniteSet(Servers) /\ Servers # {}
  /\ WeightStatic \in Nat \ {0} /\ RequestMin \in Nat
  /\ {SuccessBase, SuccessMin, ResumeWeight, WeightIncr, LowWatermark, LowRatio}
     \subseteq 1..100
  /\ {MaxResults, MaxRounds, MaxFaults} \subseteq Nat

VARIABLES
  index,           \* meta->index
  head, table,     \* the two copies: the fields of shm_servers, and svrs
  retry,           \* dead_retry_times
  failed, success, \* the counts in svrs
  events,          \* event_list, at most one event for each server
  agent, next,     \* update_config: its step and servers to go; the table it computes
  pc, at, hdr, job,\* callers: step; copy; fields read; server or retries held
  owed,            \* results reported in time and not collected since
  lost,            \* those of them left in the old copy when the agent died
  probes,          \* dead servers found in each copy since it was written
  bounds           \* bounded counters

copies == <<index, head, table, retry, failed, success>>
callers == <<pc, at, hdr, job>>
results == <<owed, lost>>
vars == <<copies, events, agent, next, callers, results, probes, bounds>>

Largest(m, n) == IF m > n THEN m ELSE n
Smallest(m, n) == IF m < n THEN m ELSE n
Percent(n, p) == (n * p) \div 100
None == [s \in Servers |-> 0]
Members(t) == ToSet(t.order)

\* Servers come in the order of the configuration.
Configured(set) ==
  CHOOSE order \in [1..Cardinality(set) -> set] :
    \A i, j \in DOMAIN order : i < j => order[i] < order[j]

Count(i, s) == failed[i][s] + success[i][s]

-----------------------------------------------------------------------------
(* What the agent computes. *)

\* handle_node_events, for the event of server s; c holds what was collected.
RealDead(c, s) ==
  LET total == c.success[s] + c.failed[s]
  IN total = 0 \/ c.success[s] * 100 < SuccessMin * total

Resumed == Largest(1, Percent(WeightStatic, ResumeWeight))

Forget(c, s) == [c EXCEPT !.success[s] = 0, !.failed[s] = 0]

OnEvent(c, s) ==
  CASE s \notin Members(c) \/ events[s] = "none" -> c
    [] events[s] = "dead" /\ RealDead(c, s) ->
         Forget([c EXCEPT !.dead = @ \cup {s}, !.dyn[s] = 0], s)
    [] events[s] = "dead" /\ ~RealDead(c, s) -> Forget(c, s)
    [] events[s] = "resume" /\ s \in c.dead ->
         Forget([c EXCEPT !.dead = @ \ {s}, !.dyn[s] = Resumed], s)
    [] OTHER -> c

HandleEvents(c) == FoldLeft(OnEvent, c, SetToSeq(Servers))

\* _shaping_servers goes from both ends: a server stays at begin, or is swapped with
\* the one at end.
Stay(st) == [st EXCEPT !.begin = @ + 1]

ToEnd(st) ==
  [st EXCEPT !.order[st.begin] = st.order[st.end],
             !.order[st.end] = st.order[st.begin], !.end = @ - 1]

Kill(st, s) == ToEnd([st EXCEPT !.dead = @ \cup {s}, !.dyn[s] = 0])

\* A success ratio of at least the base base[1] / base[2]; dec: weights are lowered
Shape(st, base, dec) ==
  LET s == st.order[st.begin]
      ok == st.success[s]
      total == ok + st.failed[s]
      good == ok * base[2] >= base[1] * total
      lowered == (st.dyn[s] * ok * ok) \div (total * total)
      raised == st.dyn[s] + Largest(1, Percent(WeightStatic, WeightIncr))
  IN CASE total = 0 /\ s \in st.dead -> Kill(st, s)
       [] total = 0 /\ s \notin st.dead -> Stay(st)
       [] total > 0 /\ good ->
            Stay([st EXCEPT !.dead = @ \ {s},
                            !.dyn[s] = IF s \in st.dead THEN Resumed
                                       ELSE Smallest(WeightStatic, raised)])
       [] total > 0 /\ ~good /\ ok = 0 -> Kill(st, s)
       [] total > 0 /\ ~good /\ ok > 0 ->
            IF ~dec THEN Stay(st)
            ELSE IF lowered = 0 THEN Kill(st, s)
            ELSE Stay([st EXCEPT !.dyn[s] = lowered])

LowNum(st) == Cardinality({s \in Members(st) : st.dyn[s] * 100 < WeightStatic * LowWatermark})

\* The average of the results, lowered to the base: a pair <<success, total>>
AverageBase(st) ==
  LET ok == FoldFunction(+, 0, [s \in Members(st) |-> st.success[s]])
      all == ok + FoldFunction(+, 0, [s \in Members(st) |-> st.failed[s]])
  IN IF all = 0 \/ ok * 100 >= SuccessBase * all THEN <<SuccessBase, 100>> ELSE <<ok, all>>

Shaping(c) ==
  LET num == Len(c.order)
      dec == c.low * 100 <= LowRatio * num
      base == IF dec THEN <<SuccessBase, 100>> ELSE AverageBase(c)
      start == [order |-> c.order, dyn |-> c.dyn, dead |-> c.dead,
                failed |-> c.failed, success |-> c.success, begin |-> 1, end |-> num]
      shaped == FoldLeft(LAMBDA st, i : IF st.begin <= st.end THEN Shape(st, base, dec) ELSE st,
                         start, [i \in 1..num |-> i])
  IN IF num = 0 THEN c ELSE [c EXCEPT !.order = shaped.order, !.dyn = shaped.dyn,
                                      !.dead = shaped.dead, !.low = LowNum(shaped)]

\* calc_servers_weight: the servers before the first dead one get an interval each.
Live(c) ==
  LET deadAt == {i \in DOMAIN c.order : c.order[i] \in c.dead}
  IN IF deadAt = {} THEN Len(c.order) ELSE Min(deadAt) - 1

BaseOf(c, i) == FoldLeft(LAMBDA sum, s : sum + c.dyn[s], 0, SubSeq(c.order, 1, i - 1))

Bases(c) ==
  [s \in Servers |-> IF \E i \in 1..Live(c) : c.order[i] = s
                     THEN BaseOf(c, CHOOSE i \in 1..Live(c) : c.order[i] = s) ELSE 0]

HeadOf(c) ==
  [num |-> Len(c.order), deadNum |-> Len(c.order) - Live(c),
            deadBase |-> BaseOf(c, Live(c) + 1), low |-> c.low]

TableOf(c) == [order |-> c.order, dyn |-> c.dyn, dead |-> c.dead, base |-> c.base]

\* add_new_service: both copies hold the configured servers with their static weights.
Fresh ==
  LET order == Configured(Servers)
      c == [order |-> order, dyn |-> [s \in Servers |-> WeightStatic], dead |-> {}, low |-> 0]
  IN [order |-> order, dyn |-> c.dyn, dead |-> {}, base |-> Bases(c), head |-> HeadOf(c)]

-----------------------------------------------------------------------------
(* The agent: update_config, one step for each access to a shared table.   *)

Cur == index
Spare == 1 - index

Private(order) ==
  [order |-> order, dyn |-> table[Cur].dyn, dead |-> {}, base |-> None, low |-> 0,
   failed |-> None, success |-> None, lower |-> 0]

\* Every five seconds: copy_servers, for the servers there are.  The threshold it is
\* called with is that of a table just cleared.
Update ==
  /\ agent.at = "idle"
  /\ bounds.rounds < MaxRounds
  /\ Len(table[Cur].order) > 0
  /\ next' = [Private(table[Cur].order) EXCEPT !.low = head[Cur].low]
  /\ agent' = [at |-> "collect", todo |-> table[Cur].order]
  /\ bounds' = [bounds EXCEPT !.rounds = @ + 1]
  /\ UNCHANGED <<copies, events, callers, results, probes>>

\* A configuration has been read: copy_specified_servers, for the servers in it.
Load(set) ==
  /\ agent.at = "idle"
  /\ bounds.rounds < MaxRounds
  /\ next' = [Private(Configured(set)) EXCEPT !.lower = RequestMin]
  /\ agent' = [at |-> "collect", todo |-> Configured(set)]
  /\ bounds' = [bounds EXCEPT !.rounds = @ + 1]
  /\ UNCHANGED <<copies, events, callers, results, probes>>

\* The counts of a server are exchanged for zeros, unless they are few.
Taken(s) ==
  \/ s \in table[Cur].dead
  \/ failed[Cur][s] + success[Cur][s] >= next.lower

Zeroed(counts, s) == [counts EXCEPT ![Cur][s] = 0]

Collect ==
  /\ agent.at = "collect"
  /\ agent.todo # <<>>
  /\ LET s == Head(agent.todo) IN
       /\ agent' = [agent EXCEPT !.todo = Tail(@)]
       /\ IF s \notin Members(table[Cur])
          THEN /\ next' = [next EXCEPT !.dyn[s] = WeightStatic]
               /\ UNCHANGED <<failed, success, owed>>
          ELSE /\ next' = [next EXCEPT
                    !.dead = IF s \in table[Cur].dead THEN @ \cup {s} ELSE @,
                    !.failed[s] = IF Taken(s) THEN failed[Cur][s] ELSE 0,
                    !.success[s] = IF Taken(s) THEN success[Cur][s] ELSE 0]
               /\ failed' = IF Taken(s) THEN Zeroed(failed, s) ELSE failed
               /\ success' = IF Taken(s) THEN Zeroed(success, s) ELSE success
               /\ owed' = IF Taken(s) THEN [owed EXCEPT ![s] = @ - failed[Cur][s] - success[Cur][s]]
                          ELSE owed
  /\ UNCHANGED <<index, head, table, retry, events, callers, lost, probes, bounds>>

Compute_KeepsCounts ==
  /\ agent.at = "collect"
  /\ agent.todo = <<>>
  /\ LET c == Shaping(HandleEvents(next))
     IN next' = [c EXCEPT !.base = Bases(c)]
  /\ events' = [s \in Servers |-> "none"]
  /\ agent' = [agent EXCEPT !.at = "head"]
  /\ UNCHANGED <<copies, callers, results, probes, bounds>>

\* Events, shaping, clean_servers_stat and weights, on private memory.
Compute ==
  /\ agent.at = "collect"
  /\ agent.todo = <<>>
  /\ LET c == Shaping(HandleEvents(next))
     IN next' = [c EXCEPT !.base = Bases(c), !.failed = None, !.success = None]
  /\ events' = [s \in Servers |-> "none"]
  /\ agent' = [agent EXCEPT !.at = "head"]
  /\ UNCHANGED <<copies, callers, results, probes, bounds>>

\* A call takes far less than the time between two updates of a service: none still
\* uses the copy that is written now.
Prompt == \A c \in Callers : pc[c] = "idle" \/ pc[c] = "done" \/ at[c] = Cur

\* The memcpy to the spare copy: the fields of shm_servers, then svrs.
CopyHead ==
  /\ agent.at = "head"
  /\ Prompt
  /\ head' = [head EXCEPT ![Spare] = HeadOf(next)]
  /\ retry' = [retry EXCEPT ![Spare] = IF HeadOf(next).deadNum > 0 THEN 1 ELSE 0]
  /\ probes' = [probes EXCEPT ![Spare] = 0]
  /\ agent' = [agent EXCEPT !.at = "table"]
  /\ UNCHANGED <<index, table, failed, success, events, next, callers, results, bounds>>

CopyTable ==
  /\ agent.at = "table"
  /\ table' = [table EXCEPT ![Spare] = TableOf(next)]
  /\ failed' = [failed EXCEPT ![Spare] = next.failed]
  /\ success' = [success EXCEPT ![Spare] = next.success]
  /\ agent' = [agent EXCEPT !.at = "switch"]
  /\ UNCHANGED <<index, head, retry, events, next, callers, results, probes, bounds>>

\* Results of servers the spare copy lists
OfNew(counts) == [s \in Servers |-> IF s \in Members(table[Spare]) THEN counts[s] ELSE 0]

Switch_TooSoon ==
  /\ agent.at = "table"
  /\ index' = Spare
  /\ agent' = [at |-> "merge", todo |-> table[Spare].order]
  /\ owed' = OfNew(owed)
  /\ lost' = OfNew(lost)
  /\ UNCHANGED <<head, table, retry, failed, success, events, next, callers, probes, bounds>>

\* The results counted in the spare copy are those to merge: what comes later than its
\* merge is too late, and so are those of servers that are no longer configured.
Switch ==
  /\ agent.at = "switch"
  /\ index' = Spare
  /\ agent' = [at |-> "merge", todo |-> table[Spare].order]
  /\ owed' = OfNew(owed)
  /\ lost' = OfNew(lost)
  /\ UNCHANGED <<head, table, retry, failed, success, events, next, callers, probes, bounds>>

\* merge_servers_stat, for the next server.
Common(s) == s \in Members(table[Spare])

Merge ==
  /\ agent.at = "merge"
  /\ agent.todo # <<>>
  /\ LET s == Head(agent.todo) IN
       /\ failed' = IF Common(s) THEN [failed EXCEPT ![Cur][s] = @ + failed[Spare][s]] ELSE failed
       /\ success' = IF Common(s) THEN [success EXCEPT ![Cur][s] = @ + success[Spare][s]] ELSE success
  /\ agent' = [agent EXCEPT !.todo = Tail(@)]
  /\ UNCHANGED <<index, head, table, retry, events, next, callers, results, probes, bounds>>

Done ==
  /\ agent.at = "merge"
  /\ agent.todo = <<>>
  /\ agent' = [agent EXCEPT !.at = "idle"]
  /\ next' = Private(<<>>)
  /\ UNCHANGED <<copies, events, callers, results, probes, bounds>>

\* The results of s in the old copy that the merge has not reached
Unmerged(s) ==
  IF agent.at = "merge" /\ s \in ToSet(agent.todo) /\ Common(s) THEN Count(Spare, s) ELSE 0

\* The agent dies, and is started again with what the shared memory holds.  It does not
\* resume a merge: the next update writes over the results that are still in the old copy.
Crash ==
  /\ agent.at # "idle"
  /\ bounds.faults < MaxFaults
  /\ agent' = [at |-> "idle", todo |-> <<>>]
  /\ next' = Private(<<>>)
  /\ events' = [s \in Servers |-> "none"]
  /\ lost' = [s \in Servers |-> lost[s] + Unmerged(s)]
  /\ bounds' = [bounds EXCEPT !.faults = @ + 1]
  /\ UNCHANGED <<copies, callers, owed, probes>>

\* A node's entry in zookeeper has gone or come: merge_new_event.
NodeEvent(s, type) ==
  /\ agent.at = "idle"
  /\ s \in Members(table[Cur])
  /\ bounds.faults < MaxFaults
  /\ events' = [events EXCEPT ![s] = type]
  /\ bounds' = [bounds EXCEPT !.faults = @ + 1]
  /\ UNCHANGED <<copies, agent, next, callers, results, probes>>

-----------------------------------------------------------------------------
(* The callers: search_route, then updateroute. *)

Go(c, step) == pc' = [pc EXCEPT ![c] = step]
Hold(c, v) == job' = [job EXCEPT ![c] = v]
agentSide == <<events, agent, next>>

\* What a call knew of the copy is of no use to it any more.
LetGo(c) == at' = [at EXCEPT ![c] = 0] /\ hdr' = [hdr EXCEPT ![c] = Fresh.head]

\* The server the search found, or any when too few of its calls succeed.
Answer(c, s) ==
  LET low == Count(at[c], s) >= RequestMin
             /\ success[at[c]][s] * 100 < SuccessMin * Count(at[c], s)
  IN /\ \E got \in IF low THEN Members(table[at[c]]) ELSE {s} : Hold(c, got)
     /\ Go(c, "done")
     /\ LetGo(c)

\* The search answers s, which costs the copy a probe when s is dead.
Finds(c, s) ==
  /\ Answer(c, s)
  /\ probes' = IF s \in table[at[c]].dead THEN [probes EXCEPT ![at[c]] = @ + 1] ELSE probes

FindCopy(c) ==
  /\ pc[c] \in {"idle", "done"}
  /\ at' = [at EXCEPT ![c] = index]
  /\ Go(c, "look")
  /\ Hold(c, 0)
  /\ UNCHANGED <<copies, agentSide, hdr, results, probes, bounds>>

NoServer(c) ==
  /\ pc[c] = "look"
  /\ head[at[c]].num = 0
  /\ Go(c, "idle")
  /\ LetGo(c)
  /\ UNCHANGED <<copies, agentSide, job, results, probes, bounds>>

ReadHead(c) ==
  /\ pc[c] = "look"
  /\ LET h == head[at[c]] IN
       /\ h.num > 0
       /\ hdr' = [hdr EXCEPT ![c] = h]
       /\ Go(c, IF h.deadNum = h.num \/ h.deadBase = 0 THEN "any" ELSE "draw")
  /\ UNCHANGED <<copies, agentSide, at, job, results, probes, bounds>>

AnyServer(c) ==
  /\ pc[c] = "any"
  /\ \E i \in 1..hdr[c].num : Answer(c, table[at[c]].order[i])
  /\ UNCHANGED <<copies, agentSide, results, probes, bounds>>

\* The number drawn falls into the range of the dead servers, which exists when there
\* are some, or does not.
DrawDead(c) ==
  /\ pc[c] = "draw"
  /\ hdr[c].deadNum > 0
  /\ Hold(c, retry[at[c]])
  /\ Go(c, IF retry[at[c]] = 0 THEN "search" ELSE "cas")
  /\ UNCHANGED <<copies, agentSide, at, hdr, results, probes, bounds>>

DrawLive(c) ==
  /\ pc[c] = "draw"
  /\ Go(c, "search")
  /\ UNCHANGED <<copies, agentSide, at, hdr, job, results, probes, bounds>>

SwapFails_Never(c) == FALSE

\* check_dead_useable: the value read is swapped for the next lower one, or read again.
SwapFails(c) == retry[at[c]] # job[c]

TryDead(c) ==
  /\ pc[c] = "cas"
  /\ ~SwapFails(c)
  /\ retry' = [retry EXCEPT ![at[c]] = job[c] - 1]
  /\ \E i \in hdr[c].num - hdr[c].deadNum + 1 .. hdr[c].num : Finds(c, table[at[c]].order[i])
  /\ UNCHANGED <<index, head, table, failed, success, agentSide, results, bounds>>

ReadAgain(c) ==
  /\ pc[c] = "cas"
  /\ SwapFails(c)
  /\ Hold(c, retry[at[c]])
  /\ Go(c, IF retry[at[c]] = 0 THEN "search" ELSE "cas")
  /\ UNCHANGED <<copies, agentSide, at, hdr, results, probes, bounds>>

\* The binary search among the servers before the dead ones.
Found(t, h, r) ==
  LET live == h.num - h.deadNum
      seek[part \in (1..live + 1) \X (0..live)] ==
        LET low == part[1]
            high == part[2]
            mid == (low + high) \div 2
            s == t.order[mid]
        IN IF low >= high THEN t.order[low]
           ELSE IF r < t.base[s] THEN seek[<<low, mid - 1>>]
           ELSE IF r >= t.base[s] + t.dyn[s] THEN seek[<<mid + 1, high>>]
           ELSE s
  IN seek[<<1, live>>]

Search(c) ==
  /\ pc[c] = "search"
  /\ \E r \in 0..hdr[c].deadBase - 1 : Finds(c, Found(table[at[c]], hdr[c], r))
  /\ UNCHANGED <<copies, agentSide, results, bounds>>

\* updateroute finds the server in the copy in use, or reports nothing.
Report(c) ==
  /\ pc[c] = "done"
  /\ bounds.results < MaxResults
  /\ at' = [at EXCEPT ![c] = index]
  /\ Go(c, "find")
  /\ bounds' = [bounds EXCEPT !.results = @ + 1]
  /\ UNCHANGED <<copies, agentSide, hdr, job, results, probes>>

NotFound(c) ==
  /\ pc[c] = "find"
  /\ job[c] \notin Members(table[at[c]])
  /\ Go(c, "idle")
  /\ LetGo(c)
  /\ Hold(c, 0)
  /\ UNCHANGED <<copies, agentSide, results, probes, bounds>>

\* In time: before the server is merged from the copy that is no longer in use, which
\* nobody does once the agent has died.
InTime(i, s) ==
  /\ s \in Members(table[Cur])
  /\ i # Cur => agent.at = "merge" /\ s \in ToSet(agent.todo)

Add(c, ok) ==
  LET s == job[c]
      counted(counts) == [counts EXCEPT ![at[c]][s] = @ + 1]
  IN /\ pc[c] = "find"
     /\ s \in Members(table[at[c]])
     /\ success' = IF ok THEN counted(success) ELSE success
     /\ failed' = IF ok THEN failed ELSE counted(failed)
     /\ owed' = IF InTime(at[c], s) THEN [owed EXCEPT ![s] = @ + 1] ELSE owed
     /\ Go(c, "idle")
     /\ LetGo(c)
     /\ Hold(c, 0)
     /\ UNCHANGED <<index, head, table, retry, agentSide, lost, probes, bounds>>

-----------------------------------------------------------------------------
Init ==
  /\ index = 0
  /\ head = [i \in 0..1 |-> Fresh.head]
  /\ table = [i \in 0..1 |-> TableOf(Fresh)]
  /\ retry = [i \in 0..1 |-> 0]
  /\ failed = [i \in 0..1 |-> None]
  /\ success = [i \in 0..1 |-> None]
  /\ events = [s \in Servers |-> "none"]
  /\ agent = [at |-> "idle", todo |-> <<>>]
  /\ next = Private(<<>>)
  /\ pc = [c \in Callers |-> "idle"]
  /\ at = [c \in Callers |-> 0]
  /\ hdr = [c \in Callers |-> Fresh.head]
  /\ job = [c \in Callers |-> 0]
  /\ owed = None
  /\ lost = None
  /\ probes = [i \in 0..1 |-> 0]
  /\ bounds = [results |-> 0, rounds |-> 0, faults |-> 0]

AgentStep == Update \/ Collect \/ Compute \/ CopyHead \/ CopyTable \/ Switch \/ Merge \/ Done

Next ==
  \/ AgentStep
  \/ \E set \in SUBSET Servers : Load(set)
  \/ Crash
  \/ \E s \in Servers, type \in {"dead", "resume"} : NodeEvent(s, type)
  \/ \E c \in Callers :
       \/ FindCopy(c) \/ NoServer(c) \/ ReadHead(c) \/ AnyServer(c) \/ DrawDead(c) \/ DrawLive(c)
       \/ TryDead(c) \/ ReadAgain(c) \/ Search(c)
       \/ Report(c) \/ NotFound(c)
       \/ \E ok \in BOOLEAN : Add(c, ok)

Spec == Init /\ [][Next]_vars

-----------------------------------------------------------------------------
(* Properties. *)

\* Every result a caller reports in time is in the counts exactly once until the agent
\* takes it: neither the switch of copies, nor a collection that leaves few results where
\* they are, nor a change of the configuration, nor an agent that dies at any step loses or
\* doubles one.  The exception is those a dying agent had left in the old copy for servers
\* it had not merged: they, and no others, are gone for good.
Conserved ==
  \A s \in Members(table[Cur]) : owed[s] = Count(Cur, s) + Unmerged(s) + lost[s]

\* Whatever the agent is doing, the copy a caller searches holds together: for every number
\* it may draw it finds the live server whose share holds the number.
FindsShare ==
  \A c \in Callers :
    pc[c] \in {"draw", "cas", "search"} =>
      LET t == table[at[c]] IN
      /\ hdr[c].num = Len(t.order)
      /\ \A r \in 0..hdr[c].deadBase - 1 :
           LET s == Found(t, hdr[c], r)
           IN s \notin t.dead /\ r \in t.base[s] .. t.base[s] + t.dyn[s] - 1

\* A server in use before the dead ones is never left without a share: once live, it can
\* be drawn, and so prove itself.
LiveHasShare ==
  \A i \in 1..Len(table[Cur].order) :
    table[Cur].order[i] \notin table[Cur].dead => table[Cur].dyn[table[Cur].order[i]] > 0

\* The servers share the numbers that are drawn, and each live one has some.
Shares == FindsShare /\ LiveHasShare

\* The comment on search_route (nlbapi.c:183) has dead servers tried dead_retrys times.  However
\* many callers race for them, the search of a copy finds no more dead servers than the
\* retries written with it, as long as the head does not count every server as dead.  Two
\* other ways a call gets a dead server use no retry and are not counted: AnyServer, when
\* all are dead, and the replacement Answer makes when too few calls of s succeed.
FewProbes == \A i \in 0..1 : probes[i] + retry[i] <= 1
=============================================================================
