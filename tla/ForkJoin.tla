------------------------------ MODULE ForkJoin ------------------------------
(* What micro threads promise to the application: tasks that take turns on one
   processor in the order in which they became ready, may suspend themselves,
   and may fork tasks and wait for all of them. *)
EXTENDS Sequences

CONSTANTS Tasks, Main

VARIABLES stage,    \* free, ready, running, waiting or joining
          children, \* the tasks a task has forked and that have not ended
          queue     \* the ready tasks, the next to run first

vars == <<stage, children, queue>>

Stages == {"free", "ready", "running", "waiting", "joining"}

Init ==
    /\ stage = [t \in Tasks |-> IF t = Main THEN "running" ELSE "free"]
    /\ children = [t \in Tasks |-> {}]
    /\ queue = <<>>

(* A running task starts an independent one. *)
Start(t, new) ==
    /\ stage[t] = "running" /\ stage[new] = "free"
    /\ stage' = [stage EXCEPT ![new] = "ready"]
    /\ queue' = Append(queue, new)
    /\ UNCHANGED children

(* A running task forks one it will wait for. *)
Fork(t, new) ==
    /\ stage[t] = "running" /\ stage[new] = "free"
    /\ stage' = [stage EXCEPT ![new] = "ready"]
    /\ children' = [children EXCEPT ![t] = @ \cup {new}]
    /\ queue' = Append(queue, new)

Suspend(t) ==
    /\ stage[t] = "running"
    /\ children[t] = {}
    /\ stage' = [stage EXCEPT ![t] = "waiting"]
    /\ UNCHANGED <<children, queue>>

Wake(t) ==
    /\ stage[t] = "waiting"
    /\ stage' = [stage EXCEPT ![t] = "ready"]
    /\ queue' = Append(queue, t)
    /\ UNCHANGED children

Join(t) ==
    /\ stage[t] = "running"
    /\ children[t] # {}
    /\ stage' = [stage EXCEPT ![t] = "joining"]
    /\ UNCHANGED <<children, queue>>

(* A task without children ends. *)
End(t) ==
    /\ stage[t] = "running"
    /\ t # Main
    /\ children[t] = {}
    /\ \A p \in Tasks : t \notin children[p]
    /\ stage' = [stage EXCEPT ![t] = "free"]
    /\ UNCHANGED <<children, queue>>

(* A forked task ends; the last one of its parent makes the parent ready. *)
EndChild(t, p) ==
    /\ stage[t] = "running"
    /\ children[t] = {}
    /\ stage[p] = "joining"
    /\ t \in children[p]
    /\ children' = [children EXCEPT ![p] = @ \ {t}]
    /\ IF children[p] = {t}
       THEN /\ stage' = [stage EXCEPT ![t] = "free", ![p] = "ready"]
            /\ queue' = Append(queue, p)
       ELSE /\ stage' = [stage EXCEPT ![t] = "free"]
            /\ UNCHANGED queue

Dispatch ==
    /\ \A t \in Tasks : stage[t] # "running"
    /\ queue # <<>>
    /\ stage' = [stage EXCEPT ![Head(queue)] = "running"]
    /\ queue' = Tail(queue)
    /\ UNCHANGED children

Next ==
    \/ \E t, u \in Tasks : Start(t, u) \/ Fork(t, u) \/ EndChild(t, u)
    \/ \E t \in Tasks : Suspend(t) \/ Wake(t) \/ Join(t) \/ End(t)
    \/ Dispatch

Spec == Init /\ [][Next]_vars
=============================================================================
