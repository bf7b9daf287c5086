---------------------------- MODULE ZdcRefinement -----------------------------
(* The refinement of BoundedFifo by the queues of ZdcRuntime, and instances *)
(* of it for TLC.                                                           *)
EXTENDS ZdcRuntime

CONSTANTS producer, consumer, third, q1, q2, k1, h1

ASSUME QueuesAssumption == q1 \in Queues /\ q2 \in Queues

-----------------------------------------------------------------------------
(* The refinement.                                                          *)

(* The items inside a queue, and the waits of the coroutines for it. *)
Contents(q) ==
    [i \in 1 .. queue[q].count |-> queue[q].buf[(queue[q].head + i - 1) % Depth]]

Request(q) ==
    [c \in Coros |->
        IF ~co[c].resumed \/ Here(c).op \notin {"put", "get"} \/ Here(c).q # q
        THEN [kind |-> "none"]
        ELSE IF Here(c).op = "get" THEN [kind |-> "get"]
        ELSE [kind |-> "put", data |-> <<c, co[c].pc>>]]

(* A coroutine puts the place of its operation: all items differ.           *)
Items == Coros \X UNION {UNION {DOMAIN prog[c] : c \in Coros} : prog \in Programs}

FifoOne == INSTANCE BoundedFifo WITH
    Thread <- Coros, Item <- Items, capacity <- Depth,
    queue <- Contents(q1), request <- Request(q1), result <- [c \in Coros |-> got[c][q1]]

FifoTwo == INSTANCE BoundedFifo WITH
    Thread <- Coros, Item <- Items, capacity <- Depth,
    queue <- Contents(q2), request <- Request(q2), result <- [c \in Coros |-> got[c][q2]]

(* Each queue, used by one putter and one getter, is a bounded FIFO queue. *)
ImplementsFifo == FifoOne!Spec /\ FifoTwo!Spec

-----------------------------------------------------------------------------
(* Programs.                                                                *)

Coros3 == {producer, consumer, third}
TwoQueues == {q1, q2}
OneCompletion == {k1}
OneHandle == {h1}

put(q) == [op |-> "put", q |-> q]
get(q) == [op |-> "get", q |-> q]
set(k) == [op |-> "set", k |-> k]
await(k) == [op |-> "await", k |-> k]
spawn(h, c) == [op |-> "spawn", h |-> h, coro |-> c]
join(h) == [op |-> "join", h |-> h]
select(qs) == [op |-> "select", qs |-> qs]

UpTo(S, n) == UNION {[1 .. m -> S] : m \in 0 .. n}
Times(w, o) == Cardinality({i \in DOMAIN w : w[i] = o})

Programs3(wp, wg, ws) ==
    [c \in Coros3 |-> CASE c = producer -> wp [] c = consumer -> wg [] c = third -> ws]

Before(w, a, b) == \A i, j \in DOMAIN w : w[i] = a /\ w[j] = b => i < j

(* Each queue has one coroutine that puts and one that gets, and the token  *)
(* is awaited once.  The third runs by itself, or the producer spawns it,   *)
(* and perhaps joins it if it does not suspend.                             *)
WorkOfP ==
    {w \in UpTo({put(q1), await(k1), spawn(h1, third), join(h1)}, 5) :
        /\ Times(w, spawn(h1, third)) \in {0, 1} /\ Times(w, await(k1)) \in {0, 1}
        /\ Times(w, join(h1)) <= Times(w, spawn(h1, third))
        /\ Before(w, spawn(h1, third), join(h1))}

WorkOfG ==
    {<<get(q1), get(q1), get(q1)>>, <<get(q1), get(q1), set(k1), set(k1)>>,
     <<get(q2), get(q1), get(q1)>>, <<get(q1), set(k1), get(q2), get(q1)>>}

WorkOfS == {<<put(q2)>>, <<set(k1), put(q2)>>}

(* A select that waits is used once, and one item is put in all.            *)
SelectOnce ==
    {Programs3(<<put(q1)>>, wg, <<>>) :
        wg \in {<<select(<<q1, q2>>)>>, <<select(<<q2, q1>>), get(q1)>>}}

SinglePrograms ==
    {Programs3(wp, wg, ws) : wp \in WorkOfP, wg \in WorkOfG, ws \in WorkOfS}
        \cup SelectOnce

(* Two coroutines put into one queue. *)
SharedPrograms ==
    {[c \in Coros3 |-> CASE c = producer -> <<put(q1), put(q1)>>
                         [] c = consumer -> <<get(q1), get(q1), get(q1)>>
                         [] c = third -> <<put(q1)>>]}
=============================================================================
