----------------------------- MODULE BoundedFifo ------------------------------
(***************************************************************************)
(* What a channel promises its users: items come out once each, in the     *)
(* order in which they went in, there are never more than capacity of them *)
(* inside, and a task that has to wait puts or gets exactly what it asked  *)
(* for when it finally does.                                               *)
(***************************************************************************)
EXTENDS Naturals, Sequences

CONSTANTS Thread, Item, NULL, capacity

VARIABLES
    queue,     \* the items inside, first to come out first
    request,   \* what each task waits for
    result     \* what each task got last

vars == <<queue, request, result>>

None == [kind |-> "none"]
Put(v) == [kind |-> "put", data |-> v]
Get == [kind |-> "get"]

Init ==
    /\ queue = <<>>
    /\ request = [t \in Thread |-> None]
    /\ result = [t \in Thread |-> NULL]

Enqueue(v) == Len(queue) < capacity /\ queue' = Append(queue, v)
Dequeue == queue # <<>> /\ queue' = Tail(queue)
Ask(t, r) == request[t] = None /\ request' = [request EXCEPT ![t] = r]
Answered(t) == request' = [request EXCEPT ![t] = None]

(* A non-blocking call, or one that does not have to wait. *)
PutAtOnce == \E v \in Item : Enqueue(v) /\ UNCHANGED <<request, result>>
Drop == Dequeue /\ UNCHANGED <<request, result>>

GetAtOnce(t) ==
    /\ request[t] = None
    /\ Dequeue
    /\ result' = [result EXCEPT ![t] = Head(queue)]
    /\ UNCHANGED request

(* It has to wait only when the channel is full, or empty. *)
PutLater(t) ==
    /\ Len(queue) = capacity
    /\ \E v \in Item : Ask(t, Put(v))
    /\ UNCHANGED <<queue, result>>

GetLater(t) ==
    /\ queue = <<>>
    /\ Ask(t, Get)
    /\ UNCHANGED <<queue, result>>

PutNow(t) ==
    /\ request[t].kind = "put"
    /\ Enqueue(request[t].data)
    /\ Answered(t)
    /\ UNCHANGED result

GetNow(t) ==
    /\ request[t].kind = "get"
    /\ Dequeue
    /\ result' = [result EXCEPT ![t] = Head(queue)]
    /\ Answered(t)

Next ==
    \/ PutAtOnce
    \/ Drop
    \/ \E t \in Thread : \/ GetAtOnce(t) \/ PutLater(t) \/ GetLater(t)
                         \/ PutNow(t) \/ GetNow(t)

Spec == Init /\ [][Next]_vars
=============================================================================
