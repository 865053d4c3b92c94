-------------------------------- MODULE Heap --------------------------------
(* The timer heap (HeapList in sync_frame/micro_thread/heap.h): threads that
   sleep and idle connections are kept by the time at which they expire.

   An entry may leave from the middle (HeapDelete), so each entry carries its
   position in _index, 0 while it is outside.  The time of an entry is set
   before it is pushed and is not read while it is outside: value is 0 there. *)
EXTENDS Integers, Sequences

CONSTANTS Entries,
          Max,   \* _max
          Times  \* bound: the times entries expire at

ASSUME HeapAssumption == Max \in Nat \ {0} /\ Times \subseteq Nat \ {0}

VARIABLES list,  \* _list[1 .. _count]
          index, \* HeapEntry::_index
          value  \* HeapValue

vars == <<list, index, value>>

Elems(s) == {s[i] : i \in DOMAIN s}

-----------------------------------------------------------------------------
(* The algorithms work on a record of the array and the positions.  An operator
   named Op_Slip is Op with a slip the code could have; none is used. *)
Heaps == [list : Seq(Entries), index : [Entries -> Nat]]

PutAt(h, e, pos) == [list |-> [h.list EXCEPT ![pos] = e],
                     index |-> [h.index EXCEPT ![e] = pos]]

Exchange_IndexStale(h, i, j) ==
    [h EXCEPT !.list = [@ EXCEPT ![i] = h.list[j], ![j] = h.list[i]],
              !.index[h.list[j]] = i]
Exchange(h, i, j) == PutAt(PutAt(h, h.list[j], i), h.list[i], j)

(* Where a loop over the positions is. *)
Places == [at : Nat \ {0}, heap : Heaps]
MoveTo(s, pos) == [at |-> pos, heap |-> Exchange(s.heap, s.at, pos)]

(* v is HeapValue.  The loop stops at the first parent that is not later. *)
Climbs(v, s) ==
    s.at \div 2 >= 1 /\ v[s.heap.list[s.at]] < v[s.heap.list[s.at \div 2]]

HeapUp(v, heap) ==
    LET up[s \in {p \in Places : p.at <= Len(p.heap.list)}] ==
            IF Climbs(v, s) THEN up[MoveTo(s, s.at \div 2)] ELSE s.heap
    IN  up[[at |-> Len(heap.list), heap |-> heap]]

MinSon(v, s) ==
    LET l == s.heap.list
        son == 2 * s.at
    IN  IF son < Len(l) /\ v[l[son + 1]] < v[l[son]] THEN son + 1 ELSE son
Sinks(v, s) ==
    2 * s.at <= Len(s.heap.list)
      /\ v[s.heap.list[s.at]] > v[s.heap.list[MinSon(v, s)]]

HeapDown(v, heap, from) ==
    LET down[s \in Places] ==
            IF Sinks(v, s) THEN down[MoveTo(s, MinSon(v, s))] ELSE s.heap
    IN  down[[at |-> from, heap |-> heap]]

(* Overwrite position pos by the last entry and shorten the array. *)
MoveLastTo_Dropped(pos) == [list |-> SubSeq(list, 1, Len(list) - 1), index |-> index]
MoveLastTo(pos) ==
    LET h == PutAt([list |-> list, index |-> index], list[Len(list)], pos)
    IN  [h EXCEPT !.list = SubSeq(@, 1, Len(@) - 1)]

HeapFull == Len(list) >= Max

Becomes(h) == list' = h.list /\ index' = h.index

-----------------------------------------------------------------------------
Init ==
    /\ list = <<>>
    /\ index = [e \in Entries |-> 0]
    /\ value = [e \in Entries |-> 0]

(* HeapPush; a full heap and an entry that is inside already are refused. *)
HeapPush(e, time) ==
    /\ ~HeapFull
    /\ index[e] = 0
    /\ value' = [value EXCEPT ![e] = time]
    /\ Becomes(HeapUp(value', [list |-> Append(list, e),
                               index |-> [index EXCEPT ![e] = Len(list) + 1]]))

(* Remove the entry at pos, then sift down from there. *)
RemoveAt_NoSift(pos) ==
    /\ Becomes([MoveLastTo(pos) EXCEPT !.index[list[pos]] = 0])
    /\ value' = [value EXCEPT ![list[pos]] = 0]
RemoveAt(pos) ==
    /\ Becomes([HeapDown(value, MoveLastTo(pos), pos) EXCEPT !.index[list[pos]] = 0])
    /\ value' = [value EXCEPT ![list[pos]] = 0]

HeapPop == list # <<>> /\ RemoveAt(1)

(* HeapDelete; an index outside 1 .. _count is refused. *)
HeapDelete(e) == index[e] \in 1 .. Len(list) /\ RemoveAt(index[e])

Next ==
    \/ \E e \in Entries : HeapDelete(e) \/ \E time \in Times : HeapPush(e, time)
    \/ HeapPop

Spec == Init /\ [][Next]_vars

-----------------------------------------------------------------------------
TypeOK ==
    /\ list \in Seq(Entries) /\ Len(list) <= Max
    /\ index \in [Entries -> 0 .. Max]
    /\ value \in [Entries -> Times \cup {0}]

(* Every entry knows where it is, and none is there twice: HeapDelete finds the
   entry it is called for. *)
IndexCorrect ==
    /\ \A i \in DOMAIN list : index[list[i]] = i
    /\ \A e \in Entries : index[e] = 0 <=> e \notin Elems(list)

(* HeapTop is an entry with the earliest time: the daemon sleeps no longer than
   until then, and looks at no other entry when it wakes expired ones up. *)
TopMinimal ==
    list # <<>> => \A e \in Elems(list) : value[list[1]] <= value[e]

(* An operation adds or removes the entry it is about and keeps the others,
   with their times. *)
KeepsOthers ==
    [][\E e \in Entries :
          /\ e \in Elems(list) <=> e \notin Elems(list')
          /\ \A f \in Entries \ {e} : /\ f \in Elems(list) <=> f \in Elems(list')
                                      /\ value'[f] = value[f]]_vars
=============================================================================
