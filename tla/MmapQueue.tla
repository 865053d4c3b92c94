----------------------------- MODULE MmapQueue -----------------------------
(***************************************************************************)
(* mq_put and mq_get (monitor/agent/monitor_api/mmap_queue.c): the         *)
(* lock-free ring in a mapped file through which the processes of a host   *)
(* report counters to the monitor agent.                                   *)
(*                                                                         *)
(* A writer claims nodes by moving tail_pos with a compare-and-swap, fills *)
(* them and sets the token of the first one; it may be killed in between.  *)
(* A reader looks for a node with its token set, claims the message by     *)
(* moving head_pos, copies it and resets the tokens.  Every step that      *)
(* another process could observe or disturb is an action of its own.       *)
(*                                                                         *)
(* The code cannot exclude three accidents.  Each is recorded in blame     *)
(* when it happens, and the properties say what holds until then:          *)
(*   "impatient"  a reader gives up nodes whose writer is alive and busy   *)
(*   "reused"     a writer claims nodes a reader is still copying          *)
(*   "lapped"     a compare-and-swap succeeds although the position has    *)
(*                gone round the whole ring since it was read              *)
(*                                                                         *)
(* An operator named Op_Slip is Op with a slip the code could have had.    *)
(***************************************************************************)
EXTENDS Integers, Sequences, FiniteSets

CONSTANTS
  Writers, Readers,
  EleCount,      \* ele_count; there are EleCount + 1 positions
  RESERVE_BLOCK_COUNT,
  SQ_MAX_CONFLICT_TRIES,
  Needs,         \* the numbers of nodes messages need
  MaxMsgs,       \* bound: messages that get nodes
  MaxDeaths      \* bound: writers that are killed

ASSUME SizesAssumption ==
  /\ EleCount \in Nat /\ RESERVE_BLOCK_COUNT \in Nat /\ RESERVE_BLOCK_COUNT < EleCount
  /\ SQ_MAX_CONFLICT_TRIES \in Nat /\ MaxMsgs \in Nat /\ MaxDeaths \in Nat
  /\ Needs \subseteq 1..EleCount

ASSUME ProcsAssumption == Writers \cap Readers = {}

VARIABLES
  head_pos, tail_pos, node,  \* the mapped file
  rw_conflict,               \* in a reader's handle
  pc,                        \* what each process does next
  nr_nodes, old_tail, new_tail, idx,  \* mq_put's locals
  old_head, head, new_head,  \* mq_get's locals
  claims,     \* history: the messages in the order in which they got nodes
  published,  \* history: messages whose token has been set
  got,        \* history: what each reader has returned
  outrun,     \* history: who works with a position that others have moved since
  blame, deaths

file == <<head_pos, tail_pos, node>>
putLocals == <<nr_nodes, old_tail, new_tail, idx>>
getLocals == <<rw_conflict, old_head, head, new_head>>
unmoved == <<claims, published, got, blame, deaths>>
history == <<unmoved, outrun>>
vars == <<file, putLocals, getLocals, pc, history>>

Positions == 0..EleCount
Procs == Writers \cup Readers

\* SQ_ADD_POS
Add(p, n) == (p + n) % (EleCount + 1)

\* SQ_EMPTY_NODES2 and SQ_USED_NODES2
EmptyNodes(hd) == (hd + EleCount - tail_pos) % (EleCount + 1)
UsedNodes(hd) == EleCount - EmptyNodes(hd)

\* The positions from one up to, but not including, the other.
Between(from, to) ==
  IF from <= to THEN from..to - 1 ELSE (from..EleCount) \cup (0..to - 1)

\* A node: start_token; the nodes that datalen needs; whose data they are, and
\* which piece.  Beyond its first node a message has data in the token's place.
Unused == [start_token |-> "no_data", need |-> 1, msg |-> 0, piece |-> 1]

Claim(at, n, w) == [at |-> at, n |-> n, by |-> w]
Nodes(m) == claims[m].at..claims[m].at + claims[m].n - 1

\* The message a writer is putting into the queue.
Own(w) == CHOOSE m \in 1..Len(claims) : claims[m].by = w /\ m \notin published

Busy(w) == pc[w] \in {"skip", "fill", "token"}

Go(p, step) == pc' = [pc EXCEPT ![p] = step]

\* The locals of a call that is over.
ForgetPut(w) ==
  /\ nr_nodes' = [nr_nodes EXCEPT ![w] = 0] /\ idx' = [idx EXCEPT ![w] = 0]
  /\ old_tail' = [old_tail EXCEPT ![w] = 0] /\ new_tail' = [new_tail EXCEPT ![w] = 0]

ForgetGet(r) ==
  /\ old_head' = [old_head EXCEPT ![r] = 0] /\ head' = [head EXCEPT ![r] = 0]
  /\ new_head' = [new_head EXCEPT ![r] = 0]

\* What a reader holds: the nodes it has moved head_pos past and not given back.
Held(r) == IF pc[r] \in {"copy", "reset"} THEN Between(old_head[r], new_head[r]) ELSE {}

Init ==
  /\ head_pos = 0 /\ tail_pos = 0
  /\ node = [p \in Positions |-> Unused]
  /\ pc = [p \in Procs |-> "idle"]
  /\ nr_nodes = [w \in Writers |-> 0]
  /\ old_tail = [w \in Writers |-> 0] /\ new_tail = [w \in Writers |-> 0]
  /\ idx = [w \in Writers |-> 0]
  /\ rw_conflict = [r \in Readers |-> 0]
  /\ old_head = [r \in Readers |-> 0] /\ head = [r \in Readers |-> 0]
  /\ new_head = [r \in Readers |-> 0]
  /\ claims = <<>> /\ published = {} /\ got = [r \in Readers |-> <<>>]
  /\ outrun = {} /\ blame = {} /\ deaths = 0

-----------------------------------------------------------------------------
(* mq_put *)

Wraps(n) == Add(tail_pos, n) < tail_pos

HasRoom_AnyWrap(n) == EmptyNodes(head_pos) >= n + RESERVE_BLOCK_COUNT

HasRoom(n) ==
  /\ EmptyNodes(head_pos) >= n + RESERVE_BLOCK_COUNT
  /\ Wraps(n) => head_pos - 1 >= n

\* Bounds: the number of messages, and no new ones after the first accident.
MayPut == Len(claims) < MaxMsgs /\ blame = {}

\* The call, or the next round after a compare-and-swap that failed.
Look(w, n) ==
  /\ \/ pc[w] = "idle"
     \/ pc[w] = "again" /\ n = nr_nodes[w]
  /\ IF HasRoom(n) /\ MayPut
     THEN /\ Go(w, "claim")
          /\ nr_nodes' = [nr_nodes EXCEPT ![w] = n]
          /\ old_tail' = [old_tail EXCEPT ![w] = tail_pos]
          /\ idx' = [idx EXCEPT ![w] = IF Wraps(n) THEN 0 ELSE tail_pos]
          /\ new_tail' = [new_tail EXCEPT ![w] = IF Wraps(n) THEN n ELSE Add(tail_pos, n)]
     ELSE Go(w, "idle") /\ ForgetPut(w)
  /\ outrun' = outrun \ {w}
  /\ UNCHANGED <<file, getLocals, claims, published, got, blame, deaths>>

CasTail_Plain(w) == TRUE
CasTail(w) == tail_pos = old_tail[w]

ClaimNodes(w) ==
  /\ pc[w] = "claim"
  /\ IF CasTail(w)
     THEN LET taken == Between(old_tail[w], new_tail[w])
          IN /\ MayPut
             /\ tail_pos' = new_tail[w]
             /\ Go(w, IF idx[w] = 0 /\ old_tail[w] # 0 THEN "skip" ELSE "fill")
             /\ outrun' = (outrun \cup {v \in Writers : pc[v] = "claim"}) \ {w}
             /\ claims' = Append(claims, Claim(idx[w], nr_nodes[w], w))
             /\ blame' = blame
                  \cup (IF \E r \in Readers : taken \cap Held(r) # {} THEN {"reused"} ELSE {})
                  \cup (IF w \in outrun /\ tail_pos = old_tail[w] THEN {"lapped"} ELSE {})
     ELSE Go(w, "again") /\ UNCHANGED <<tail_pos, claims, outrun, blame>>
  /\ UNCHANGED <<head_pos, node, putLocals, getLocals, published, got, deaths>>

\* The nodes up to the end of the ring are too few for the message.
MarkSkipped(w) ==
  /\ pc[w] = "skip"
  /\ node' = [node EXCEPT ![old_tail[w]].start_token = "skipped"]
  /\ old_tail' = [old_tail EXCEPT ![w] = Add(@, 1)]
  /\ IF Add(old_tail[w], 1) = 0 THEN Go(w, "fill") ELSE UNCHANGED pc
  /\ UNCHANGED <<head_pos, tail_pos, nr_nodes, new_tail, idx, getLocals, history>>

\* datalen and the data: nobody looks at either before the token.
Fill(w) ==
  /\ pc[w] = "fill"
  /\ node' = [p \in Positions |->
       IF p \notin idx[w]..idx[w] + nr_nodes[w] - 1 THEN node[p]
       ELSE [start_token |-> IF p = idx[w] THEN node[p].start_token ELSE "payload",
             need |-> IF p = idx[w] THEN nr_nodes[w] ELSE node[p].need, msg |-> Own(w), piece |-> p - idx[w] + 1]]
  /\ Go(w, "token")
  /\ UNCHANGED <<head_pos, tail_pos, putLocals, getLocals, history>>

SetToken(w) ==
  /\ pc[w] = "token"
  /\ node' = [node EXCEPT ![idx[w]].start_token = "has_data"]
  /\ published' = published \cup {Own(w)}
  /\ Go(w, "idle") /\ ForgetPut(w)
  /\ UNCHANGED <<head_pos, tail_pos, getLocals, claims, got, outrun, blame, deaths>>

\* The process is killed between its claim and the token.
Die(w) ==
  /\ Busy(w) /\ deaths < MaxDeaths
  /\ deaths' = deaths + 1
  /\ Go(w, "dead") /\ ForgetPut(w)
  /\ UNCHANGED <<file, getLocals, claims, published, got, outrun, blame>>

-----------------------------------------------------------------------------
(* mq_get *)

StartAt(r, p) ==
  /\ old_head' = [old_head EXCEPT ![r] = p]
  /\ head' = [head EXCEPT ![r] = p]
  /\ outrun' = outrun \ {r}
  /\ Go(r, "look")

\* A compare-and-swap of head_pos that succeeds.
MoveHead(r, p) ==
  /\ head_pos' = p
  /\ outrun' = (outrun \cup {q \in Readers : pc[q] \notin {"idle", "copy", "reset"}}) \ {r}
  /\ blame' = IF r \in outrun /\ head_pos = old_head[r] THEN blame \cup {"lapped"} ELSE blame

Return(r) ==
  /\ Go(r, "idle") /\ ForgetGet(r)
  /\ rw_conflict' = [rw_conflict EXCEPT ![r] = 0]

Get(r) ==
  /\ pc[r] = "idle"
  /\ StartAt(r, head_pos)
  /\ UNCHANGED <<file, putLocals, rw_conflict, new_head, unmoved>>

\* Behind the last node: give up the nodes that were skipped, or return.
AtTail(r) ==
  /\ pc[r] = "look" /\ head[r] = tail_pos
  /\ IF head[r] # old_head[r] /\ head_pos = old_head[r]
     THEN /\ MoveHead(r, head[r])
          /\ new_head' = [new_head EXCEPT ![r] = head[r]]
          /\ Go(r, "reset")
          /\ UNCHANGED <<old_head, head, rw_conflict>>
     ELSE Return(r) /\ UNCHANGED <<head_pos, outrun, blame>>
  /\ UNCHANGED <<tail_pos, node, putLocals, claims, published, got, deaths>>

\* A reader that finds a node unused waits for the writer a few calls long.
Patient(r) == rw_conflict[r] < SQ_MAX_CONFLICT_TRIES

Tried_Forgotten(c) == c
Tried(c) == c + 1

Token(r) == node[head[r]].start_token

AtNode(r) ==
  /\ pc[r] = "look" /\ head[r] # tail_pos
  /\ CASE Token(r) = "has_data" ->
            Go(r, "need") /\ UNCHANGED <<getLocals, outrun>>
       [] Token(r) = "no_data" /\ Patient(r) /\ old_head[r] # head_pos ->
            StartAt(r, head_pos) /\ UNCHANGED <<rw_conflict, new_head>>
       [] Token(r) = "no_data" /\ Patient(r) /\ old_head[r] = head_pos ->
            /\ rw_conflict' = [rw_conflict EXCEPT ![r] = Tried(@)]
            /\ Go(r, "idle") /\ ForgetGet(r) /\ UNCHANGED outrun
       [] OTHER ->
            Go(r, "recheck") /\ UNCHANGED <<getLocals, outrun>>
  /\ UNCHANGED <<file, putLocals, unmoved>>

Skip(r) ==
  /\ head' = [head EXCEPT ![r] = Add(@, 1)]
  /\ Go(r, "look")
  /\ blame' = IF \E w \in Writers : Busy(w) /\ head[r] \in Nodes(Own(w))
              THEN blame \cup {"impatient"} ELSE blame

Finished(r) == Token(r) = "has_data"

\* The writer may have finished meanwhile.
Recheck(r) ==
  /\ pc[r] = "recheck"
  /\ IF Finished(r)
     THEN Go(r, "need") /\ UNCHANGED <<head, blame>>
     ELSE Skip(r)
  /\ UNCHANGED <<file, putLocals, rw_conflict, old_head, new_head,
                 claims, published, got, outrun, deaths>>

ReadNeed(r) ==
  /\ pc[r] = "need"
  /\ LET n == node[head[r]].need
     IN IF UsedNodes(head[r]) < n
        THEN Skip(r) /\ UNCHANGED new_head
        ELSE /\ new_head' = [new_head EXCEPT ![r] = Add(head[r], n)]
             /\ Go(r, "take")
             /\ UNCHANGED <<head, blame>>
  /\ UNCHANGED <<file, putLocals, rw_conflict, old_head, claims, published, got, outrun, deaths>>

CasHead(r) == head_pos = old_head[r]

Take(r) ==
  /\ pc[r] = "take"
  /\ IF CasHead(r)
     THEN MoveHead(r, new_head[r]) /\ Go(r, "copy") /\ UNCHANGED <<old_head, head>>
     ELSE StartAt(r, head_pos) /\ UNCHANGED <<head_pos, blame>>
  /\ UNCHANGED <<tail_pos, node, putLocals, rw_conflict, new_head,
                 claims, published, got, deaths>>

\* The message is what the nodes contain by now.  The history ends with the
\* first accident.
Copy(r) ==
  /\ pc[r] = "copy"
  /\ LET n == (new_head[r] + EleCount + 1 - head[r]) % (EleCount + 1)
         read == [i \in 1..n |-> LET x == node[Add(head[r], i - 1)] IN <<x.msg, x.piece>>]
     IN got' = IF blame = {} THEN [got EXCEPT ![r] = Append(@, read)] ELSE got
  /\ Go(r, "reset")
  /\ UNCHANGED <<file, putLocals, getLocals, claims, published, outrun, blame, deaths>>

Cleared_Kept(x) == x
Cleared(x) == [x EXCEPT !.start_token = "no_data"]

ResetToken(r) ==
  /\ pc[r] = "reset"
  /\ node' = [node EXCEPT ![old_head[r]] = Cleared(@)]
  /\ IF Add(old_head[r], 1) = new_head[r]
     THEN Return(r)
     ELSE /\ old_head' = [old_head EXCEPT ![r] = Add(@, 1)]
          /\ UNCHANGED <<pc, rw_conflict, head, new_head>>
  /\ UNCHANGED <<head_pos, tail_pos, putLocals, history>>

-----------------------------------------------------------------------------

Put(w) ==
  \/ \E n \in Needs : Look(w, n)
  \/ ClaimNodes(w) \/ MarkSkipped(w) \/ Fill(w) \/ SetToken(w)

Read(r) ==
  \/ Get(r) \/ AtTail(r) \/ AtNode(r) \/ Recheck(r) \/ ReadNeed(r)
  \/ Take(r) \/ Copy(r) \/ ResetToken(r)

Next ==
  \/ \E w \in Writers : Put(w) \/ Die(w)
  \/ \E r \in Readers : Read(r)

Spec == Init /\ [][Next]_vars

\* The agent reads again and again, and a writer finishes the call it is in.
FairSpec ==
  /\ Spec
  /\ \A r \in Readers : WF_vars(Read(r))
  /\ \A w \in Writers : WF_vars(pc[w] # "idle" /\ Put(w))

-----------------------------------------------------------------------------
(* Properties. *)

TypeOK ==
  /\ head_pos \in Positions /\ tail_pos \in Positions
  /\ node \in [Positions -> [start_token : {"no_data", "has_data", "skipped", "payload"},
                             need : 1..EleCount, msg : 0..MaxMsgs, piece : 1..EleCount]]
  /\ pc \in [Procs -> {"idle", "again", "claim", "skip", "fill", "token", "dead",
                       "look", "recheck", "need", "take", "copy", "reset"}]
  /\ nr_nodes \in [Writers -> 0..EleCount]
  /\ old_tail \in [Writers -> Positions] /\ new_tail \in [Writers -> Positions]
  /\ idx \in [Writers -> Positions]
  /\ rw_conflict \in [Readers -> 0..SQ_MAX_CONFLICT_TRIES]
  /\ old_head \in [Readers -> Positions] /\ head \in [Readers -> Positions]
  /\ new_head \in [Readers -> Positions]
  /\ claims \in Seq([at : Positions, n : 1..EleCount, by : Writers])
  /\ published \subseteq 1..MaxMsgs /\ Len(claims) <= MaxMsgs
  /\ outrun \subseteq Procs
  /\ blame \subseteq {"impatient", "reused", "lapped"} /\ deaths \in 0..MaxDeaths

Sane == blame = {}

\* What mq_get returns for a message that is whole.
Bytes(m) == [i \in 1..claims[m].n |-> <<m, i>>]

Returned(r) == {got[r][i][1][1] : i \in 1..Len(got[r])}

\* What mq_get returns is all of one message that was put into the queue with
\* its own length: never a piece of two, never one that is not finished.
Whole ==
  \A r \in Readers : \A i \in 1..Len(got[r]) : \E m \in published : got[r][i] = Bytes(m)

\* Messages come once, to one reader, and to each reader in the order in which
\* the writers got their nodes.
InOrder ==
  \A r \in Readers :
    /\ \A i, j \in 1..Len(got[r]) : i < j => got[r][i][1][1] < got[r][j][1][1]
    /\ \A q \in Readers \ {r} : Returned(r) \cap Returned(q) = {}

\* A message that was put into the queue has been returned, is being copied, or
\* still is where mq_get will look for it, with its token and its data.
Kept ==
  Sane => \A m \in published :
    \/ \E r \in Readers :
         \/ m \in Returned(r)
         \/ pc[r] = "copy" /\ head[r] = claims[m].at
    \/ /\ Nodes(m) \subseteq Between(head_pos, tail_pos)
       /\ node[claims[m].at].start_token = "has_data"
       /\ node[claims[m].at].need = claims[m].n
       /\ \A p \in Nodes(m) : node[p].msg = m

\* Outside the part of the ring that is in use, and outside what a reader still
\* cleans up, no token is left that a later mq_get could take for a message.
NoStaleToken ==
  Sane => \A p \in Positions \ Between(head_pos, tail_pos) :
    node[p].start_token = "has_data" => \E r \in Readers : p \in Held(r)

\* Nodes that are being written are in use, by one writer, and not being read.
Exclusive ==
  Sane => \A w \in Writers : Busy(w) =>
    /\ Nodes(Own(w)) \subseteq Between(head_pos, tail_pos)
    /\ \A v \in Writers \ {w} : Busy(v) => Nodes(Own(w)) \cap Nodes(Own(v)) = {}
    /\ \A r \in Readers : Nodes(Own(w)) \cap Held(r) = {}

\* The tokens in the ring are those of the messages that wait there, whose nodes
\* nobody else has: none is lost, and none is found that was read before.
RingHolds == Kept /\ NoStaleToken /\ Exclusive

\* What was put into the queue is read in the end (the messages are finitely many),
\* also behind the nodes of a writer that was killed.
Arrives ==
  <>[](Sane => published \subseteq UNION {Returned(r) : r \in Readers})

\* Whatever happened before, once no more is written the agent gets to the end of
\* the queue.
Emptied == <>[](head_pos = tail_pos)

Drains == Arrives /\ Emptied
=============================================================================
