-------------------------- MODULE ZdcRuntime_proofs --------------------------
(***************************************************************************)
(* For any number of coroutines, queues, tokens and handles, and queues of *)
(* any depth.  First the types and the completions, for all programs; then *)
(* programs in which every queue has one putter and one getter, every      *)
(* token one awaiter and every handle one spawn: there a resumed coroutine *)
(* finds what it waited for.  Last the queues as bounded FIFO queues,      *)
(* which they are wherever this holds.                                     *)
(***************************************************************************)
EXTENDS ZdcRefinement, TLAPS, FiniteSetTheorems, SequenceTheorems,
        WellFoundedInduction

-----------------------------------------------------------------------------
(* Types. *)

CoroState == [pc : Nat \ {0}, resumed : BOOLEAN, ready_idx : Int]

ZdcTypeOK ==
    /\ program \in [Coros -> Seq(Op)]
    /\ queue \in [Queues -> QueueState]
    /\ cpl \in [Completions -> CompletionState]
    /\ handle \in [Handles -> HandleState]
    /\ co \in [Coros -> CoroState]
    /\ ready \in [Coros -> Nat]
    /\ running \in Coros \cup {NULL}

(* An operation has the parameters of its kind. *)
LEMMA Operands ==
    ASSUME NEW o \in Op
    PROVE  /\ o.op \in {"put", "get"} => o.q \in Queues
           /\ o.op \in {"set", "await"} => o.k \in Completions
           /\ o.op = "spawn" => o.h \in Handles /\ o.coro \in Coros
           /\ o.op = "join" => o.h \in Handles
           /\ o.op = "select" => o.qs \in Seq(Queues)
BY DEF Op

(* The next index stays within the ring. *)
LEMMA NextIndex ==
    ASSUME NEW i \in 0 .. Depth - 1
    PROVE  (i + 1) % Depth \in 0 .. Depth - 1
<1>1. Depth \in Nat \ {0}
  BY ZdcAssumption
<1> QED
  BY <1>1

(* Assigning a field of a queue a value of its type leaves the others.     *)
LEMMA QueueFields ==
    ASSUME NEW q \in QueueState
    PROVE  /\ q.buf \in [0 .. Depth - 1 -> Item]
           /\ q.head \in 0 .. Depth - 1 /\ q.tail \in 0 .. Depth - 1
           /\ q.count \in Int
           /\ q.putWaiters \in Seq(Coros) /\ q.getWaiters \in Seq(Coros)
BY DEF QueueState

(* The same, one lemma for each field. *)
LEMMA QueueBuf ==
    ASSUME NEW q \in QueueState, NEW x \in [0 .. Depth - 1 -> Item]
    PROVE  LET r == [q EXCEPT !.buf = x] IN
           /\ r \in QueueState /\ r.buf = x /\ r.head = q.head
           /\ r.tail = q.tail /\ r.count = q.count
           /\ r.putWaiters = q.putWaiters /\ r.getWaiters = q.getWaiters
BY DEF QueueState

(* Moving the head leaves the rest of a queue alone.                       *)
LEMMA QueueHead ==
    ASSUME NEW q \in QueueState, NEW x \in 0 .. Depth - 1
    PROVE  LET r == [q EXCEPT !.head = x] IN
           /\ r \in QueueState /\ r.buf = q.buf /\ r.head = x
           /\ r.tail = q.tail /\ r.count = q.count
           /\ r.putWaiters = q.putWaiters /\ r.getWaiters = q.getWaiters
BY DEF QueueState

(* Moving the tail, too.                                                   *)
LEMMA QueueTail ==
    ASSUME NEW q \in QueueState, NEW x \in 0 .. Depth - 1
    PROVE  LET r == [q EXCEPT !.tail = x] IN
           /\ r \in QueueState /\ r.buf = q.buf /\ r.head = q.head
           /\ r.tail = x /\ r.count = q.count
           /\ r.putWaiters = q.putWaiters /\ r.getWaiters = q.getWaiters
BY DEF QueueState

(* Setting the count leaves the waiters alone.                             *)
LEMMA QueueCount ==
    ASSUME NEW q \in QueueState, NEW x \in Int
    PROVE  LET r == [q EXCEPT !.count = x] IN
           /\ r \in QueueState /\ r.buf = q.buf /\ r.head = q.head
           /\ r.tail = q.tail /\ r.count = x
           /\ r.putWaiters = q.putWaiters /\ r.getWaiters = q.getWaiters
BY DEF QueueState

(* The items of two queues are the same, and where they are. *)
SameRing(q, r) ==
    r.buf = q.buf /\ r.head = q.head /\ r.tail = q.tail /\ r.count = q.count

(* Setting one array of waiters leaves the rest alone.                     *)
LEMMA QueueWaiters ==
    ASSUME NEW q \in QueueState, NEW x \in Seq(Coros)
    PROVE  /\ LET r == [q EXCEPT !.putWaiters = x] IN
               /\ r \in QueueState /\ SameRing(q, r)
               /\ r.putWaiters = x /\ r.getWaiters = q.getWaiters
           /\ LET r == [q EXCEPT !.getWaiters = x] IN
               /\ r \in QueueState /\ SameRing(q, r)
               /\ r.putWaiters = q.putWaiters /\ r.getWaiters = x
BY DEF QueueState, SameRing

(* What is left of a list of waiters is one. *)
LEMMA RestType ==
    ASSUME NEW w \in Seq(Coros)
    PROVE  Rest(w) \in Seq(Coros)
BY DEF Rest

(* Putting and getting, field by field; both keep the type of a queue.     *)
LEMMA PutFields ==
    ASSUME NEW q \in QueueState, NEW item \in Item
    PROVE  LET r == zdc_queue_put_nowait(q, item) IN
           /\ r \in QueueState /\ r.buf = [q.buf EXCEPT ![q.tail] = item]
           /\ r.head = q.head /\ r.tail = (q.tail + 1) % Depth /\ r.count = q.count + 1
           /\ r.putWaiters = q.putWaiters /\ r.getWaiters = Rest(q.getWaiters)
<1> DEFINE a == [q EXCEPT !.buf = [q.buf EXCEPT ![q.tail] = item]]
           b == [a EXCEPT !.tail = (q.tail + 1) % Depth]
           c == [b EXCEPT !.count = q.count + 1]
           d == [c EXCEPT !.getWaiters = Rest(q.getWaiters)]
<1>1. /\ (q.tail + 1) % Depth \in 0 .. Depth - 1
      /\ Rest(q.getWaiters) \in Seq(Coros)
      /\ [q.buf EXCEPT ![q.tail] = item] \in [0 .. Depth - 1 -> Item]
      /\ q.count + 1 \in Int
  BY QueueFields, NextIndex, RestType
<1> DEFINE buf == [q.buf EXCEPT ![q.tail] = item]
           tail == (q.tail + 1) % Depth
<1>2. /\ a \in QueueState /\ a.putWaiters = q.putWaiters
      /\ a.buf = buf /\ a.head = q.head
  BY <1>1, QueueBuf
<1> HIDE DEF a
<1>3. /\ b \in QueueState /\ b.putWaiters = q.putWaiters
      /\ b.buf = buf /\ b.head = q.head /\ b.tail = tail
  BY <1>1, <1>2, QueueTail
<1> HIDE DEF b
<1>4. /\ c \in QueueState /\ c.count = q.count + 1 /\ c.putWaiters = q.putWaiters
      /\ c.buf = buf /\ c.head = q.head /\ c.tail = tail
  BY <1>1, <1>3, QueueCount
<1> HIDE DEF c
<1>5. /\ d \in QueueState /\ d.count = q.count + 1 /\ d.putWaiters = q.putWaiters
      /\ d.getWaiters = Rest(q.getWaiters)
      /\ d.buf = buf /\ d.head = q.head /\ d.tail = tail
  BY <1>1, <1>4, QueueWaiters DEF SameRing
<1>6. zdc_queue_put_nowait(q, item) = d
  BY Zenon DEF zdc_queue_put_nowait, a, b, c
<1> HIDE DEF d
<1> QED
  BY <1>5, <1>6

(* A get takes one item and keeps the getters that wait.                   *)
LEMMA GetFields ==
    ASSUME NEW q \in QueueState
    PROVE  LET r == zdc_queue_get_nowait(q) IN
           /\ r \in QueueState /\ r.buf = q.buf
           /\ r.head = (q.head + 1) % Depth /\ r.tail = q.tail /\ r.count = q.count - 1
           /\ r.putWaiters = Rest(q.putWaiters) /\ r.getWaiters = q.getWaiters
<1> DEFINE a == [q EXCEPT !.head = (q.head + 1) % Depth]
           b == [a EXCEPT !.count = q.count - 1]
           c == [b EXCEPT !.putWaiters = Rest(q.putWaiters)]
<1>1. /\ (q.head + 1) % Depth \in 0 .. Depth - 1
      /\ Rest(q.putWaiters) \in Seq(Coros)
      /\ q.count - 1 \in Int
  BY QueueFields, NextIndex, RestType
<1> DEFINE head == (q.head + 1) % Depth
<1>2. /\ a \in QueueState /\ a.getWaiters = q.getWaiters
      /\ a.buf = q.buf /\ a.head = head /\ a.tail = q.tail
  BY <1>1, QueueHead
<1> HIDE DEF a
<1>3. /\ b \in QueueState /\ b.count = q.count - 1 /\ b.getWaiters = q.getWaiters
      /\ b.buf = q.buf /\ b.head = head /\ b.tail = q.tail
  BY <1>1, <1>2, QueueCount
<1> HIDE DEF b
<1>4. /\ c \in QueueState /\ c.count = q.count - 1 /\ c.getWaiters = q.getWaiters
      /\ c.putWaiters = Rest(q.putWaiters)
      /\ c.buf = q.buf /\ c.head = head /\ c.tail = q.tail
  BY <1>1, <1>3, QueueWaiters DEF SameRing
<1>5. zdc_queue_get_nowait(q) = c
  BY Zenon DEF zdc_queue_get_nowait, a, b
<1> HIDE DEF c
<1> QED
  BY <1>4, <1>5

(* The completion keeps its type, and its value once it is set.            *)
LEMMA SetFields ==
    ASSUME NEW k \in CompletionState, NEW value \in Item
    PROVE  /\ zdc_completion_set(k, value) \in CompletionState
           /\ zdc_completion_set(k, value).set
           /\ k.set => zdc_completion_set(k, value) = k
           /\ ~k.set => zdc_completion_set(k, value).waiter = NULL
BY DEF zdc_completion_set, CompletionState

(* Every set of naturals that is not empty has a least element. *)
LEMMA LeastOf ==
    ASSUME NEW S \in SUBSET Nat, S # {}
    PROVE  (CHOOSE i \in S : \A j \in S : i <= j) \in S
<1>1. PICK j \in S : TRUE
  OBVIOUS
<1>2. PICK m \in S : \A i \in S : <<i, m>> \notin OpToRel(<, Nat)
  BY <1>1, NatLessThanWellFounded, WFMin
<1>3. \A i \in S : ~(i < m)
  BY <1>2 DEF OpToRel
<1>4. \A i \in S : m <= i
  BY <1>3
<1> QED
  BY <1>4

(* The operation a running coroutine is at. *)
LEMMA HereIsOp ==
    ASSUME ZdcTypeOK, NEW c \in Coros, NEW op, At(c, op)
    PROVE  Here(c) \in Op /\ Here(c).op = op /\ <<c, co[c].pc>> \in Item
<1>1. program[c] \in Seq(Op) /\ co[c].pc \in Nat \ {0} /\ co[c].pc <= Len(program[c])
  BY DEF ZdcTypeOK, CoroState, At
<1> QED
  BY <1>1 DEF At, Here, Item

(* Scheduling, or scheduling nobody, keeps the counts of turns. *)
LEMMA ScheduleType ==
    ASSUME NEW rdy \in [Coros -> Nat], NEW c \in Coros \cup {NULL}
    PROVE  zdc_coro_schedule(rdy, c) \in [Coros -> Nat]
BY DEF zdc_coro_schedule

(* The first waiter is a coroutine, or there is none. *)
LEMMA FirstType ==
    ASSUME NEW w \in Seq(Coros)
    PROVE  First(w) \in Coros \cup {NULL}
BY DEF First

(* The epilogue of a spawned coroutine schedules joiners a finite number of times. *)
LEMMA WrapperTypes ==
    ASSUME ZdcTypeOK, NEW c \in Coros, NEW hs \in [Handles -> HandleState],
           _spawn_wrapper(c, hs)
    PROVE  handle' \in [Handles -> HandleState] /\ ready' \in [Coros -> Nat]
<1>1. \A h \in Handles : spawn_done(hs[h]) \in HandleState
  BY DEF spawn_done, HandleState
<1>2. \A d : Cardinality({h \in HandlesOf(c, hs) : hs[h].joiner = d}) \in Nat
  <2> TAKE d
  <2> DEFINE H == {h \in HandlesOf(c, hs) : hs[h].joiner = d}
  <2>1. H \subseteq Handles
    BY DEF HandlesOf
  <2>2. IsFiniteSet(Handles)
    BY ZdcAssumption
  <2> HIDE DEF H
  <2>3. IsFiniteSet(H)
    BY <2>1, <2>2, FS_Subset
  <2>4. Cardinality(H) \in Nat
    BY <2>3, FS_CardinalityType
  <2> QED
    BY <2>4 DEF H
<1>3. \A d \in Coros : ready[d] + Cardinality({h \in HandlesOf(c, hs) : hs[h].joiner = d}) \in Nat
  <2> TAKE d \in Coros
  <2> DEFINE n == Cardinality({h \in HandlesOf(c, hs) : hs[h].joiner = d})
  <2>1. ready[d] \in Nat
    BY DEF ZdcTypeOK
  <2>2. n \in Nat
    BY <1>2
  <2> HIDE DEF n
  <2>3. ready[d] + n \in Nat
    BY <2>1, <2>2
  <2> QED
    BY <2>3 DEF n
<1>4. ready' \in [Coros -> Nat]
  BY <1>3, Zenon DEF _spawn_wrapper
<1>5. handle' \in [Handles -> HandleState]
  BY <1>1 DEF _spawn_wrapper
<1> QED
  BY <1>4, <1>5

(* Each way of going on keeps the types. *)
LEMMA SuspendTypes ==
    ASSUME ZdcTypeOK, NEW c \in Coros, NEW hs \in [Handles -> HandleState], Suspend(c, hs)
    PROVE  /\ handle' \in [Handles -> HandleState] /\ ready' \in [Coros -> Nat]
           /\ co' \in [Coros -> CoroState] /\ running' = NULL
<1>1. co' \in [Coros -> CoroState] /\ running' = NULL
  BY DEF Suspend, ZdcTypeOK, CoroState
<1> QED
  BY <1>1, WrapperTypes DEF Suspend

(* Going on moves one coroutine to its next operation, and no other. *)
LEMMA GoOnTypes ==
    ASSUME ZdcTypeOK, NEW c \in Coros, GoOn(c)
    PROVE  /\ co' \in [Coros -> CoroState] /\ running' = running
           /\ co'[c].pc = co[c].pc + 1 /\ ~co'[c].resumed
           /\ \A d \in Coros : d # c => co'[d] = co[d]
<1> DEFINE f == [co EXCEPT ![c].pc = co[c].pc + 1]
           g == [f EXCEPT ![c].resumed = FALSE]
<1>1. co \in [Coros -> CoroState] /\ co[c].pc + 1 \in Nat \ {0}
  BY DEF ZdcTypeOK, CoroState
<1>2. /\ f \in [Coros -> CoroState] /\ f[c].pc = co[c].pc + 1
      /\ \A d \in Coros : d # c => f[d] = co[d]
  BY <1>1 DEF CoroState
<1> HIDE DEF f
<1>3. /\ g \in [Coros -> CoroState] /\ g[c].pc = co[c].pc + 1 /\ ~g[c].resumed
      /\ \A d \in Coros : d # c => g[d] = co[d]
  BY <1>2 DEF CoroState
<1>4. co' = g
  BY <1>1, Zenon DEF GoOn, f
<1> HIDE DEF g
<1> QED
  BY <1>3, <1>4 DEF GoOn

(* The initial values have their types. *)
LEMMA InitTypes == Init => ZdcTypeOK
<1> SUFFICES ASSUME Init PROVE ZdcTypeOK
  OBVIOUS
<1>1. program \in [Coros -> Seq(Op)]
  BY ZdcAssumption DEF Init
<1>2. ZDC_QUEUE_INIT \in QueueState
  BY ZdcAssumption DEF ZDC_QUEUE_INIT, QueueState, Item
<1>3. zdc_completion_init \in CompletionState /\ NoHandle \in HandleState
  BY DEF zdc_completion_init, NoHandle, CompletionState, HandleState, Item
<1> QED
  BY <1>1, <1>2, <1>3 DEF Init, ZdcTypeOK, CoroState

(* The types, action by action. *)
LEMMA PutTypes ==
    ASSUME ZdcTypeOK, NEW c \in Coros, ZDC_QUEUE_PUT(c)
    PROVE  ZdcTypeOK'
<1>1. Here(c) \in Op /\ Here(c).op = "put" /\ <<c, co[c].pc>> \in Item
  BY HereIsOp DEF ZDC_QUEUE_PUT
<1> DEFINE q == Here(c).q
<1>2. q \in Queues /\ queue[q] \in QueueState
  BY <1>1, Operands DEF ZdcTypeOK
<1> HIDE DEF q
<1>3. CASE PutWaits(c, q)
  <2>1. Append(queue[q].putWaiters, c) \in Seq(Coros)
    BY <1>2, QueueFields
  <2>2. [queue[q] EXCEPT !.putWaiters = Append(@, c)] \in QueueState
    BY <1>2, <2>1, QueueWaiters
  <2>3. queue' \in [Queues -> QueueState]
    BY <1>2, <1>3, <2>2, Zenon DEF PutWaits, ZdcTypeOK
  <2> QED
    BY <1>3, <2>3, SuspendTypes DEF PutWaits, ZDC_QUEUE_PUT, ZdcTypeOK
<1>4. CASE PutGoesOn(c, q)
  <2>1. zdc_queue_put_nowait(queue[q], <<c, co[c].pc>>) \in QueueState
    BY <1>1, <1>2, PutFields
  <2>2. queue' \in [Queues -> QueueState]
    BY <1>2, <1>4, <2>1, Zenon DEF PutGoesOn, ZdcTypeOK
  <2>3. ready' \in [Coros -> Nat]
    BY <1>2, <1>4, QueueFields, FirstType, ScheduleType DEF PutGoesOn, ZdcTypeOK
  <2> QED
    BY <1>4, <2>2, <2>3, GoOnTypes DEF PutGoesOn, ZDC_QUEUE_PUT, ZdcTypeOK
<1> QED
  BY <1>3, <1>4 DEF ZDC_QUEUE_PUT, q

(* A get keeps the types.                                                  *)
LEMMA GetTypes ==
    ASSUME ZdcTypeOK, NEW c \in Coros, ZDC_QUEUE_GET(c)
    PROVE  ZdcTypeOK'
<1>1. Here(c) \in Op /\ Here(c).op = "get"
  BY HereIsOp DEF ZDC_QUEUE_GET
<1> DEFINE q == Here(c).q
<1>2. q \in Queues /\ queue[q] \in QueueState
  BY <1>1, Operands DEF ZdcTypeOK
<1> HIDE DEF q
<1>3. CASE GetWaits(c, q)
  <2>1. Append(queue[q].getWaiters, c) \in Seq(Coros)
    BY <1>2, QueueFields
  <2>2. [queue[q] EXCEPT !.getWaiters = Append(@, c)] \in QueueState
    BY <1>2, <2>1, QueueWaiters
  <2>3. queue' \in [Queues -> QueueState]
    BY <1>2, <1>3, <2>2, Zenon DEF GetWaits, ZdcTypeOK
  <2> QED
    BY <1>3, <2>3, SuspendTypes DEF GetWaits, ZDC_QUEUE_GET, ZdcTypeOK
<1>4. CASE GetGoesOn(c, q)
  <2>1. zdc_queue_get_nowait(queue[q]) \in QueueState
    BY <1>2, GetFields
  <2>2. queue' \in [Queues -> QueueState]
    BY <1>2, <1>4, <2>1, Zenon DEF GetGoesOn, ZdcTypeOK
  <2>3. ready' \in [Coros -> Nat]
    BY <1>2, <1>4, QueueFields, FirstType, ScheduleType DEF GetGoesOn, ZdcTypeOK
  <2> QED
    BY <1>4, <2>2, <2>3, GoOnTypes DEF GetGoesOn, ZDC_QUEUE_GET, ZdcTypeOK
<1> QED
  BY <1>3, <1>4 DEF ZDC_QUEUE_GET, q

(* Setting a completion keeps the types.                                   *)
LEMMA SetTypes ==
    ASSUME ZdcTypeOK, NEW c \in Coros, SetCompletion(c)
    PROVE  ZdcTypeOK'
<1>1. Here(c) \in Op /\ Here(c).op = "set" /\ <<c, co[c].pc>> \in Item
  BY HereIsOp DEF SetCompletion
<1> DEFINE k == Here(c).k
           w == IF cpl[k].set THEN NULL ELSE cpl[k].waiter
<1>2. k \in Completions /\ cpl[k] \in CompletionState
  BY <1>1, Operands DEF ZdcTypeOK
<1>3. w \in Coros \cup {NULL}
  BY <1>2 DEF CompletionState
<1>4. cpl' = [cpl EXCEPT ![k] = zdc_completion_set(@, <<c, co[c].pc>>)]
      /\ ready' = zdc_coro_schedule(ready, w)
  BY Zenon DEF SetCompletion
<1> HIDE DEF k, w
<1>5. cpl' \in [Completions -> CompletionState]
  <2>1. zdc_completion_set(cpl[k], <<c, co[c].pc>>) \in CompletionState
    BY <1>1, <1>2, SetFields
  <2> QED
    BY <1>2, <1>4, <2>1, Zenon DEF ZdcTypeOK
<1>6. ready' \in [Coros -> Nat]
  BY <1>3, <1>4, ScheduleType DEF ZdcTypeOK
<1> QED
  BY <1>5, <1>6, GoOnTypes DEF SetCompletion, ZdcTypeOK

(* Awaiting a completion keeps the types.                                  *)
LEMMA AwaitTypes ==
    ASSUME ZdcTypeOK, NEW c \in Coros, ZDC_COMPLETION_AWAIT(c)
    PROVE  ZdcTypeOK'
<1>1. Here(c) \in Op /\ Here(c).op = "await"
  BY HereIsOp DEF ZDC_COMPLETION_AWAIT
<1> DEFINE k == Here(c).k
<1>2. k \in Completions /\ cpl[k] \in CompletionState
  BY <1>1, Operands DEF ZdcTypeOK
<1> HIDE DEF k
<1>3. CASE AwaitWaits(c, k)
  <2>1. [cpl[k] EXCEPT !.waiter = c] \in CompletionState
    BY <1>2 DEF CompletionState
  <2>2. cpl' \in [Completions -> CompletionState]
    BY <1>2, <1>3, <2>1, Zenon DEF AwaitWaits, ZdcTypeOK
  <2> QED
    BY <1>3, <2>2, SuspendTypes DEF AwaitWaits, ZDC_COMPLETION_AWAIT, ZdcTypeOK
<1>4. CASE AwaitGoesOn(c, k)
  BY <1>4, GoOnTypes DEF AwaitGoesOn, ZDC_COMPLETION_AWAIT, ZdcTypeOK
<1> QED
  BY <1>3, <1>4 DEF ZDC_COMPLETION_AWAIT, k

(* A spawn keeps the types.                                                *)
LEMMA SpawnTypes ==
    ASSUME ZdcTypeOK, NEW c \in Coros, zdc_spawn(c)
    PROVE  ZdcTypeOK'
<1>1. Here(c) \in Op /\ Here(c).op = "spawn"
  BY HereIsOp DEF zdc_spawn
<1>2. Here(c).h \in Handles /\ Here(c).coro \in Coros
  BY <1>1, Operands
<1>3. [coro |-> Here(c).coro, done |-> FALSE, joiner |-> NULL] \in HandleState
  BY <1>2 DEF HandleState
<1>4. handle' \in [Handles -> HandleState]
  BY <1>2, <1>3, Zenon DEF zdc_spawn, ZdcTypeOK
<1>5. ready' \in [Coros -> Nat]
  BY <1>2, ScheduleType DEF zdc_spawn, ZdcTypeOK
<1> QED
  BY <1>4, <1>5, GoOnTypes DEF zdc_spawn, ZdcTypeOK

(* A join keeps the types.                                                 *)
LEMMA JoinTypes ==
    ASSUME ZdcTypeOK, NEW c \in Coros, ZDC_SPAWN_JOIN(c)
    PROVE  ZdcTypeOK'
<1>1. Here(c) \in Op /\ Here(c).op = "join"
  BY HereIsOp DEF ZDC_SPAWN_JOIN
<1> DEFINE h == Here(c).h
           hs == [handle EXCEPT ![h].joiner = c]
<1>2. h \in Handles
  BY <1>1, Operands
<1>3. CASE JoinWaits(c, h)
  <2>1. hs \in [Handles -> HandleState]
    BY <1>2 DEF ZdcTypeOK, HandleState
  <2>2. Suspend(c, hs)
    BY <1>3, Zenon DEF JoinWaits
  <2> HIDE DEF h, hs
  <2> QED
    BY <2>1, <2>2, SuspendTypes DEF ZDC_SPAWN_JOIN, ZdcTypeOK
<1>4. CASE JoinGoesOn(c, h)
  BY <1>4, GoOnTypes DEF JoinGoesOn, ZDC_SPAWN_JOIN, ZdcTypeOK
<1> QED
  BY <1>3, <1>4 DEF ZDC_SPAWN_JOIN

(* A select finds a queue of its list, or -1. *)
LEMMA ReadyIdxType ==
    ASSUME NEW qs \in Seq(Queues)
    PROVE  ReadyIdx(qs) \in Int
<1> DEFINE full == {i \in DOMAIN qs : ~zdc_queue_empty(queue[qs[i]])}
<1>1. full \in SUBSET Nat
  OBVIOUS
<1> HIDE DEF full
<1>2. full # {} => (CHOOSE i \in full : \A j \in full : i <= j) \in Nat
  BY <1>1, LeastOf
<1>3. ReadyIdx(qs) = IF full = {} THEN -1 ELSE CHOOSE i \in full : \A j \in full : i <= j
  BY Zenon DEF ReadyIdx, full
<1> QED
  BY <1>2, <1>3

(* A select keeps the types.                                               *)
LEMMA SelectTypes ==
    ASSUME ZdcTypeOK, NEW c \in Coros, ZDC_SELECT_WAIT(c)
    PROVE  ZdcTypeOK'
<1>1. Here(c) \in Op /\ Here(c).op = "select"
  BY HereIsOp DEF ZDC_SELECT_WAIT
<1> DEFINE qs == Here(c).qs
<1>2. qs \in Seq(Queues)
  BY <1>1, Operands
<1> HIDE DEF qs
<1>3. CASE SelectWaits(c, qs)
  <2>1. \A q \in Queues : [queue[q] EXCEPT !.getWaiters = Append(@, c)] \in QueueState
    <3> TAKE q \in Queues
    <3>1. queue[q] \in QueueState
      BY DEF ZdcTypeOK
    <3>2. Append(queue[q].getWaiters, c) \in Seq(Coros)
      BY <3>1, QueueFields
    <3> QED
      BY <3>1, <3>2, QueueWaiters
  <2>2. queue' \in [Queues -> QueueState]
    BY <1>3, <2>1 DEF SelectWaits, zdc_select_register_waiter, ZdcTypeOK
  <2> QED
    BY <1>3, <2>2, SuspendTypes DEF SelectWaits, ZDC_SELECT_WAIT, ZdcTypeOK
<1>4. CASE SelectGoesOn(c, qs)
  <2> DEFINE i == IF co[c].resumed THEN -1 ELSE ReadyIdx(qs)
             f == [co EXCEPT ![c].pc = co[c].pc + 1]
             g == [f EXCEPT ![c].resumed = FALSE]
             e == [g EXCEPT ![c].ready_idx = i]
  <2>1. i \in Int
    BY <1>2, ReadyIdxType
  <2>2. co \in [Coros -> CoroState] /\ co[c].pc + 1 \in Nat \ {0}
    BY DEF ZdcTypeOK, CoroState
  <2> HIDE DEF i
  <2>3. f \in [Coros -> CoroState]
    BY <2>2 DEF CoroState
  <2> HIDE DEF f
  <2>4. g \in [Coros -> CoroState]
    BY <2>3 DEF CoroState
  <2> HIDE DEF g
  <2>5. e \in [Coros -> CoroState]
    BY <2>1, <2>4 DEF CoroState
  <2>6. co' = e
    BY <1>4, <2>2, Zenon DEF SelectGoesOn, f, g, i
  <2> HIDE DEF e
  <2> QED
    BY <1>4, <2>5, <2>6 DEF SelectGoesOn, ZDC_SELECT_WAIT, ZdcTypeOK
<1> QED
  BY <1>3, <1>4 DEF ZDC_SELECT_WAIT, qs

(* Every step keeps the types. *)
LEMMA TypeNext == ZdcTypeOK /\ [Next]_vars => ZdcTypeOK'
<1> SUFFICES ASSUME ZdcTypeOK, [Next]_vars PROVE ZdcTypeOK'
  OBVIOUS
<1>1. CASE UNCHANGED vars
  BY <1>1 DEF vars, ZdcTypeOK
<1>2. ASSUME NEW c \in Coros, Dispatch(c) PROVE ZdcTypeOK'
  <2>1. ready[c] \in Nat /\ ready[c] - 1 \in Nat
    BY <1>2 DEF Dispatch, ZdcTypeOK
  <2>2. ready' \in [Coros -> Nat]
    BY <1>2, <2>1, Zenon DEF Dispatch, ZdcTypeOK
  <2> QED
    BY <1>2, <2>2 DEF Dispatch, ZdcTypeOK
<1>3. ASSUME NEW c \in Coros, Finish(c) PROVE ZdcTypeOK'
  BY <1>3, WrapperTypes DEF Finish, ZdcTypeOK
<1> QED
  BY <1>1, <1>2, <1>3, PutTypes, GetTypes, SetTypes, AwaitTypes, SpawnTypes,
     JoinTypes, SelectTypes DEF Next

(* Every variable keeps its type, whatever the coroutines do: the indices  *)
(* of the ring stay within it and a waiter is always a coroutine.          *)
THEOREM ZdcTypesHold == Spec => []ZdcTypeOK
BY InitTypes, TypeNext, PTL DEF Spec

-----------------------------------------------------------------------------
(* Completions. *)

(* What one step does to the completions. *)
LEMMA CompletionStep ==
    ASSUME ZdcTypeOK, [Next]_vars, NEW k \in Completions, cpl[k].set
    PROVE  cpl'[k] = cpl[k]
<1>1. ASSUME NEW c \in Coros, SetCompletion(c) PROVE cpl'[k] = cpl[k]
  <2> DEFINE j == Here(c).k
  <2>1. Here(c) \in Op /\ Here(c).op = "set" /\ <<c, co[c].pc>> \in Item
    BY <1>1, HereIsOp DEF SetCompletion
  <2>2. cpl[k] \in CompletionState /\ cpl \in [Completions -> CompletionState]
    BY DEF ZdcTypeOK
  <2>3. zdc_completion_set(cpl[k], <<c, co[c].pc>>) = cpl[k]
    BY <2>1, <2>2, SetFields
  <2>4. cpl' = [cpl EXCEPT ![j] = zdc_completion_set(@, <<c, co[c].pc>>)]
    BY <1>1, Zenon DEF SetCompletion
  <2> HIDE DEF j
  <2> QED
    BY <2>2, <2>3, <2>4, Zenon
<1>2. ASSUME NEW c \in Coros, ZDC_COMPLETION_AWAIT(c) PROVE cpl'[k] = cpl[k]
  <2> DEFINE j == Here(c).k
  <2>1. CASE AwaitWaits(c, j)
    <3>1. ~cpl[j].set /\ cpl' = [cpl EXCEPT ![j].waiter = c]
      BY <2>1, Zenon DEF AwaitWaits
    <3>2. j # k
      BY <3>1
    <3> HIDE DEF j
    <3> QED
      BY <3>1, <3>2 DEF ZdcTypeOK
  <2>2. CASE AwaitGoesOn(c, j)
    BY <2>2 DEF AwaitGoesOn
  <2> QED
    BY <1>2, <2>1, <2>2 DEF ZDC_COMPLETION_AWAIT
<1>3. CASE UNCHANGED vars
  BY <1>3 DEF vars
<1> QED
  BY <1>1, <1>2, <1>3 DEF Next, Dispatch, Finish, ZDC_QUEUE_PUT, ZDC_QUEUE_GET,
     zdc_spawn, ZDC_SPAWN_JOIN, ZDC_SELECT_WAIT

(* The result of a completion is the one it was set to first, however many *)
(* coroutines set it, wait for it or read it.                              *)
THEOREM CompletionKeepsResultHolds == Spec => CompletionKeepsResult
<1>1. ZdcTypeOK /\ [Next]_vars => [\A k \in Completions : cpl[k].set => cpl'[k] = cpl[k]]_vars
  BY CompletionStep
<1> QED
  BY <1>1, ZdcTypesHold, PTL DEF Spec, CompletionKeepsResult

-----------------------------------------------------------------------------
(* Sole users. *)

(* A coroutine that does not suspend. *)
Brief(p, d) == \A i \in DOMAIN p[d] : p[d][i].op \in {"set", "spawn"}

(* Operations that would share a list of waiters, a handle or a coroutine. *)
SameUse(o, p) ==
    /\ o.op = p.op
    /\ \/ o.op \in {"put", "get"} /\ o.q = p.q
       \/ o.op = "await" /\ o.k = p.k

SameSpawn(o, p) ==
    /\ o.op = "spawn" /\ p.op = "spawn"
    /\ o.h = p.h \/ o.coro = p.coro

(* The programs the waits are proved for.  Each queue has one coroutine    *)
(* that puts and one that gets, each token has one that awaits it; any     *)
(* coroutine may set any token.  A coroutine is spawned once, a handle is  *)
(* used once, and joined behind its spawn if what is spawned is Brief (one *)
(* that suspends marks its handle done).  There is no select.              *)
SoleUsers(p) ==
    /\ \A c \in Coros : \A i \in DOMAIN p[c] :
        p[c][i].op \in {"put", "get", "set", "await", "spawn", "join"}
    /\ \A c, d \in Coros : \A i \in DOMAIN p[c] : \A j \in DOMAIN p[d] :
        SameUse(p[c][i], p[d][j]) => c = d
    /\ \A c, d \in Coros : \A i \in DOMAIN p[c] : \A j \in DOMAIN p[d] :
        SameSpawn(p[c][i], p[d][j]) => c = d /\ i = j
    /\ \A c \in Coros : \A i \in DOMAIN p[c] : p[c][i].op = "join" =>
        \E k \in DOMAIN p[c] :
            /\ k < i /\ p[c][k].op = "spawn" /\ p[c][k].h = p[c][i].h
            /\ Brief(p, p[c][k].coro)

(* A coroutine has a turn when it is scheduled and while it runs. *)
Turns(c) == ready[c] + IF running = c THEN 1 ELSE 0

WaitsAt(c, op) == co[c].resumed /\ co[c].pc <= Len(program[c]) /\ Here(c).op = op

(* What ends the wait of a coroutine, as the code tests it. *)
WaitOver(c) ==
    LET o == Here(c) IN
    CASE o.op = "put"   -> ~(queue[o.q].count >= Depth)
      [] o.op = "get"   -> queue[o.q].count # 0
      [] o.op = "await" -> cpl[o.k].set
      [] o.op = "join"  -> handle[o.h].done

(* The lists of waiters hold who waits, and only while the wait goes on. *)
PutterListed(q) ==
    queue[q].putWaiters # <<>> =>
        \E c \in Coros : /\ queue[q].putWaiters = <<c>>
                        /\ WaitsAt(c, "put") /\ Here(c).q = q
                        /\ queue[q].count = Depth

GetterListed(q) ==
    queue[q].getWaiters # <<>> =>
        \E c \in Coros : /\ queue[q].getWaiters = <<c>>
                        /\ WaitsAt(c, "get") /\ Here(c).q = q
                        /\ queue[q].count = 0

AwaiterListed(k) ==
    cpl[k].waiter # NULL =>
        WaitsAt(cpl[k].waiter, "await") /\ Here(cpl[k].waiter).k = k /\ ~cpl[k].set

(* A handle knows the coroutine that was spawned with it until that one    *)
(* returns, and until then who waits for it.  One that does not suspend    *)
(* has its turn until it ends.                                             *)
HandleOK(h) ==
    /\ handle[h].coro # NULL => ~handle[h].done /\ WasSpawned(h, handle[h].coro)
    /\ handle[h].joiner # NULL =>
          /\ handle[h].coro # NULL
          /\ WaitsAt(handle[h].joiner, "join") /\ Here(handle[h].joiner).h = h
    /\ \A d \in Coros : WasSpawned(h, d) /\ Brief(program, d) =>
          IF handle[h].done THEN HasEnded(d) ELSE handle[h].coro = d /\ Turns(d) = 1

(* A coroutine does nothing before it is spawned. *)
NotBefore(d) ==
    IsSpawned(program, d) /\ (\A h \in Handles : ~WasSpawned(h, d)) =>
        Turns(d) = 0 /\ ~co[d].resumed

IsListed(c) ==
    \/ WaitsAt(c, "put") /\ queue[Here(c).q].putWaiters = <<c>>
    \/ WaitsAt(c, "get") /\ queue[Here(c).q].getWaiters = <<c>>
    \/ WaitsAt(c, "await") /\ cpl[Here(c).k].waiter = c
    \/ WaitsAt(c, "join") /\ handle[Here(c).h].joiner = c

(* A coroutine has one turn, or it is on a list. *)
TurnOrListed(c) ==
    /\ Turns(c) <= 1
    /\ co[c].resumed => /\ \/ WaitsAt(c, "put") \/ WaitsAt(c, "get")
                           \/ WaitsAt(c, "await") \/ WaitsAt(c, "join")
                        /\ Turns(c) = IF WaitOver(c) THEN 1 ELSE 0
                        /\ ~WaitOver(c) => IsListed(c)

SpawnsInv == (\A h \in Handles : HandleOK(h)) /\ (\A d \in Coros : NotBefore(d))

SoleUseInv ==
    /\ SpawnsInv
    /\ \A q \in Queues : queue[q].count \in 0 .. Depth /\ PutterListed(q) /\ GetterListed(q)
    /\ \A k \in Completions : AwaiterListed(k)
    /\ \A c \in Coros : TurnOrListed(c)

(* Before a join there is the spawn of what is joined. *)
LEMMA SpawnBefore ==
    ASSUME SoleUsers(program), NEW c \in Coros, co[c].pc \in DOMAIN program[c],
           Here(c).op = "join"
    PROVE  \E k \in DOMAIN program[c] :
              /\ k < co[c].pc /\ program[c][k].op = "spawn" /\ program[c][k].h = Here(c).h
              /\ Brief(program, program[c][k].coro)
BY Zenon DEF SoleUsers, Here

(* The operation a coroutine is at, and who else may be at such a one.     *)
LEMMA SoleOp ==
    ASSUME ZdcTypeOK, SoleUsers(program), NEW c \in Coros, co[c].pc <= Len(program[c])
    PROVE  /\ Here(c) \in Op
           /\ Here(c).op \in {"put", "get", "set", "await", "spawn", "join"}
           /\ Brief(program, c) => Here(c).op \in {"set", "spawn"}
           /\ \A d \in Coros :
                /\ co[d].pc <= Len(program[d]) /\ Here(d).op = Here(c).op
                /\ \/ Here(c).op \in {"put", "get"} /\ Here(d).q = Here(c).q
                   \/ Here(c).op = "await" /\ Here(d).k = Here(c).k
                   \/ Here(c).op = "join" /\ Here(d).h = Here(c).h
                => d = c
<1>1. \A d \in Coros : co[d].pc <= Len(program[d]) =>
                        co[d].pc \in DOMAIN program[d] /\ program[d] \in Seq(Op)
  BY DEF ZdcTypeOK, CoroState
<1>2. Here(c) \in Op /\ Here(c).op \in {"put", "get", "set", "await", "spawn", "join"}
  BY <1>1 DEF SoleUsers, Here
<1>3. Brief(program, c) => Here(c).op \in {"set", "spawn"}
  BY <1>1 DEF Brief, Here
<1>4. ASSUME NEW d \in Coros, co[d].pc <= Len(program[d]), Here(d).op = Here(c).op,
             \/ Here(c).op \in {"put", "get"} /\ Here(d).q = Here(c).q
             \/ Here(c).op = "await" /\ Here(d).k = Here(c).k
      PROVE  d = c
  <2>1. SameUse(Here(c), Here(d))
    BY <1>4 DEF SameUse
  <2>2. SameUse(program[c][co[c].pc], program[d][co[d].pc])
    BY <2>1 DEF Here
  <2>3. co[c].pc \in DOMAIN program[c] /\ co[d].pc \in DOMAIN program[d]
    BY <1>1, <1>4
  <2> QED
    BY <2>2, <2>3 DEF SoleUsers
<1>5. ASSUME NEW d \in Coros, co[d].pc <= Len(program[d]), Here(d).op = "join",
             Here(c).op = "join", Here(d).h = Here(c).h
      PROVE  d = c
  <2>1. PICK k \in DOMAIN program[c] :
            program[c][k].op = "spawn" /\ program[c][k].h = Here(c).h
    BY <1>1, <1>5, SpawnBefore
  <2>2. PICK l \in DOMAIN program[d] :
            program[d][l].op = "spawn" /\ program[d][l].h = Here(d).h
    BY <1>1, <1>5, SpawnBefore
  <2>3. SameSpawn(program[c][k], program[d][l])
    BY <1>5, <2>1, <2>2 DEF SameSpawn
  <2> QED
    BY <2>3, Zenon DEF SoleUsers
<1> QED
  BY <1>2, <1>3, <1>4, <1>5, Zenon

(* What is joined was spawned before, and does not suspend. *)
LEMMA JoinOf ==
    ASSUME ZdcTypeOK, SoleUsers(program), NEW c \in Coros,
           co[c].pc <= Len(program[c]), Here(c).op = "join"
    PROVE  /\ Here(c).h \in Handles
           /\ \E d \in Coros : WasSpawned(Here(c).h, d) /\ Brief(program, d)
<1>1. co[c].pc \in DOMAIN program[c] /\ program[c] \in Seq(Op) /\ Here(c) = program[c][co[c].pc]
      /\ Here(c).op = "join" /\ co[c].pc <= Len(program[c])
  BY DEF ZdcTypeOK, CoroState, Here
<1>2. PICK k \in DOMAIN program[c] :
          /\ k < co[c].pc /\ program[c][k].op = "spawn" /\ program[c][k].h = Here(c).h
          /\ Brief(program, program[c][k].coro)
  BY <1>1, SpawnBefore
<1>3. program[c][k] \in Op
  BY <1>1
<1>4. program[c][k].coro \in Coros
  BY <1>2, <1>3, Operands
<1>5. WasSpawned(Here(c).h, program[c][k].coro)
  BY <1>2, Zenon DEF WasSpawned
<1>6. Here(c).h \in Handles
  BY <1>1, SoleOp, Operands
<1> QED
  BY <1>2, <1>4, <1>5, <1>6

(* A coroutine is spawned once, with one handle. *)
LEMMA SpawnedOnce ==
    ASSUME SoleUsers(program), NEW g, NEW h, NEW c, NEW d,
           WasSpawned(g, c), WasSpawned(h, d), g = h \/ c = d
    PROVE  g = h /\ c = d
<1> DEFINE Spawns(o, h0, c0) == o.op = "spawn" /\ o.h = h0 /\ o.coro = c0
<1>1. PICK e \in Coros : \E i \in DOMAIN program[e] : Spawns(program[e][i], g, c)
  BY Zenon DEF WasSpawned
<1>2. PICK f \in Coros : \E j \in DOMAIN program[f] : Spawns(program[f][j], h, d)
  BY Zenon DEF WasSpawned
<1> PICK i \in DOMAIN program[e] : Spawns(program[e][i], g, c)
  BY <1>1
<1> PICK j \in DOMAIN program[f] : Spawns(program[f][j], h, d)
  BY <1>2
<1> HIDE DEF Spawns
<1>3. SameSpawn(program[e][i], program[f][j])
  BY DEF Spawns, SameSpawn
<1>4. e = f /\ i = j
  BY <1>3 DEF SoleUsers
<1> QED
  BY <1>4 DEF Spawns

(* Only a spawn spawns. *)
LEMMA SpawnsStay ==
    ASSUME ZdcTypeOK, NEW c \in Coros, program' = program,
           \A d \in Coros : d # c => co'[d].pc = co[d].pc,
           \/ co'[c].pc = co[c].pc
           \/ co'[c].pc = co[c].pc + 1 /\ Here(c).op # "spawn"
    PROVE  \A h, d : WasSpawned(h, d)' = WasSpawned(h, d)
<1>1. ASSUME NEW e \in Coros, NEW i \in DOMAIN program[e], program[e][i].op = "spawn"
      PROVE  i < co'[e].pc <=> i < co[e].pc
  <2>1. i \in Nat /\ co[e].pc \in Nat
    BY DEF ZdcTypeOK, CoroState
  <2>2. e = c => i # co[c].pc \/ co'[c].pc = co[c].pc
    BY <1>1 DEF Here
  <2> QED
    BY <2>1, <2>2
<1> QED
  BY <1>1, Zenon DEF WasSpawned

(* What the operation of a coroutine needs, in this state and in the next. *)
LEMMA NeedsOf ==
    ASSUME NEW c
    PROVE  /\ Here(c).op = "put" => (WaitOver(c) <=> ~(queue[Here(c).q].count >= Depth))
           /\ Here(c).op = "get" => (WaitOver(c) <=> queue[Here(c).q].count # 0)
           /\ Here(c).op = "await" => (WaitOver(c) <=> cpl[Here(c).k].set)
           /\ Here(c).op = "join" => (WaitOver(c) <=> handle[Here(c).h].done)
BY DEF WaitOver

(* The same after a step.                                                  *)
LEMMA NeedsOfNext ==
    ASSUME NEW c
    PROVE  /\ Here(c)'.op = "put" => (WaitOver(c)' <=> ~(queue'[Here(c)'.q].count >= Depth))
           /\ Here(c)'.op = "get" => (WaitOver(c)' <=> queue'[Here(c)'.q].count # 0)
           /\ Here(c)'.op = "await" => (WaitOver(c)' <=> cpl'[Here(c)'.k].set)
           /\ Here(c)'.op = "join" => (WaitOver(c)' <=> handle'[Here(c)'.h].done)
BY DEF WaitOver

(* Where a coroutine that a step leaves alone is, it was before.           *)
LEMMA StaysThere ==
    ASSUME NEW d, program' = program, co'[d] = co[d]
    PROVE  Here(d)' = Here(d) /\ \A op : WaitsAt(d, op)' = WaitsAt(d, op)
BY DEF Here, WaitsAt

(* A coroutine that runs has its turn, so its wait is over.                *)
LEMMA RunsReady ==
    ASSUME ZdcTypeOK, SoleUseInv, NEW c \in Coros, running = c
    PROVE  ready[c] = 0 /\ (co[c].resumed => WaitOver(c))
<1>1. TurnOrListed(c) /\ ready[c] \in Nat
  BY DEF SoleUseInv, ZdcTypeOK
<1> QED
  BY <1>1 DEF TurnOrListed, Turns

(* The same for what the properties call the end of a wait, but for joins. *)
LEMMA MayGoOnIs ==
    ASSUME NEW c
    PROVE  /\ Here(c).op = "put" => (MayGoOn(c) <=> ~(queue[Here(c).q].count >= Depth))
           /\ Here(c).op = "get" => (MayGoOn(c) <=> queue[Here(c).q].count # 0)
           /\ Here(c).op = "await" => (MayGoOn(c) <=> cpl[Here(c).k].set)
BY DEF MayGoOn, zdc_queue_full, zdc_queue_empty

(* The wait for a coroutine that was spawned is over when it has ended.    *)
LEMMA WaitOverIs ==
    ASSUME ZdcTypeOK, SoleUsers(program), SoleUseInv, NEW c \in Coros, co[c].resumed
    PROVE  MayGoOn(c) <=> WaitOver(c)
<1>1. /\ co[c].pc <= Len(program[c])
      /\ Here(c).op \in {"put", "get", "await", "join"}
  BY DEF SoleUseInv, TurnOrListed, WaitsAt
<1>2. CASE Here(c).op # "join"
  BY <1>1, <1>2, NeedsOf, MayGoOnIs
<1>3. CASE Here(c).op = "join"
  <2> DEFINE h == Here(c).h
  <2>1. PICK d \in Coros : WasSpawned(h, d) /\ Brief(program, d)
    BY <1>1, <1>3, JoinOf
  <2>2. h \in Handles
    BY <1>1, <1>3, JoinOf
  <2>3. MayGoOn(c) <=> \E e \in Coros : WasSpawned(h, e) /\ HasEnded(e)
    BY <1>3 DEF MayGoOn
  <2>4. WaitOver(c) <=> handle[h].done
    BY <1>3, NeedsOf
  <2> HIDE DEF h
  <2>5. \A e \in Coros : WasSpawned(h, e) => e = d
    BY <2>1, SpawnedOnce
  <2>6. MayGoOn(c) <=> HasEnded(d)
    BY <2>1, <2>3, <2>5
  <2>7. IF handle[h].done THEN HasEnded(d) ELSE Turns(d) = 1
    BY <2>1, <2>2 DEF SoleUseInv, SpawnsInv, HandleOK
  <2>8. Turns(d) = 1 => ~HasEnded(d)
    BY DEF Turns, HasEnded
  <2> QED
    BY <2>4, <2>6, <2>7, <2>8
<1> QED
  BY <1>2, <1>3

(* Nobody waits for a coroutine that is at a wait. *)
LEMMA NotJoined ==
    ASSUME ZdcTypeOK, SoleUsers(program), SoleUseInv, NEW c \in Coros,
           co[c].pc <= Len(program[c]), Here(c).op \notin {"set", "spawn"},
           NEW h \in Handles, handle[h].coro = c
    PROVE  /\ handle[h].joiner = NULL
           /\ \A d \in Coros :
                 co[d].pc <= Len(program[d]) /\ Here(d).op = "join" => Here(d).h # h
<1>1. HandleOK(h) /\ NULL \notin Coros /\ handle[h].joiner \in Coros \cup {NULL}
  BY ZdcAssumption DEF SoleUseInv, SpawnsInv, ZdcTypeOK, HandleState
<1>2. WasSpawned(h, c) /\ ~Brief(program, c)
  BY <1>1, SoleOp DEF HandleOK
<1>3. ASSUME NEW d \in Coros, co[d].pc <= Len(program[d]), Here(d).op = "join"
      PROVE  Here(d).h # h
  <2>1. PICK e \in Coros : WasSpawned(Here(d).h, e) /\ Brief(program, e)
    BY <1>3, JoinOf
  <2> QED
    BY <1>2, <2>1, SpawnedOnce
<1>4. handle[h].joiner = NULL
  BY <1>1, <1>3 DEF HandleOK, WaitsAt
<1> QED
  BY <1>3, <1>4

(* Returning to the scheduler at a wait schedules nobody; at a join, it is *)
(* written into the handle before.                                         *)
LEMMA ReturnsQuietly ==
    ASSUME ZdcTypeOK, SoleUsers(program), SoleUseInv, NEW c \in Coros,
           co[c].pc <= Len(program[c]), Here(c).op \notin {"set", "spawn"},
           NEW hs \in [Handles -> HandleState], _spawn_wrapper(c, hs),
           \A h \in Handles : \/ hs[h] = handle[h]
                              \/ Here(c).op = "join" /\ h = Here(c).h /\ hs[h].coro = handle[h].coro
    PROVE  /\ ready' = ready
           /\ \A h \in Handles :
                 IF handle[h].coro = c THEN handle'[h] = spawn_done(handle[h])
                                       ELSE handle'[h] = hs[h]
<1>1. NULL \notin Coros
  BY ZdcAssumption
<1>2. ASSUME NEW h \in Handles, hs[h].coro = c
      PROVE  hs[h].joiner = NULL
  <2>1. handle[h].coro = c
    BY <1>2
  <2> QED
    BY <2>1, NotJoined
<1>3. \A h \in Handles : hs[h].coro = handle[h].coro
  OBVIOUS
<1>4. \A d \in Coros : {h \in HandlesOf(c, hs) : hs[h].joiner = d} = {}
  BY <1>1, <1>2 DEF HandlesOf
<1>5. ready' = [d \in Coros |-> ready[d] + 0]
  BY <1>4, FS_EmptySet, Zenon DEF _spawn_wrapper
<1>6. ready' = ready
  BY <1>5 DEF ZdcTypeOK
<1>7. handle' = [h \in Handles |-> IF h \in HandlesOf(c, hs) THEN spawn_done(hs[h]) ELSE hs[h]]
  BY Zenon DEF _spawn_wrapper
<1>8. \A h \in Handles : h \in HandlesOf(c, hs) <=> handle[h].coro = c
  BY <1>3 DEF HandlesOf
<1>9. \A h \in Handles : handle'[h] = IF handle[h].coro = c THEN spawn_done(hs[h]) ELSE hs[h]
  BY <1>7, <1>8
<1> QED
  BY <1>6, <1>9 DEF spawn_done

(* Suspending takes the turn of one coroutine and leaves all others theirs. *)
LEMMA SuspendTurns ==
    ASSUME ZdcTypeOK, SoleUseInv, NEW c \in Coros, running = c, ready' = ready,
           NEW hs, Suspend(c, hs)
    PROVE  /\ running' = NULL
           /\ Turns(c)' = 0
           /\ co'[c].pc = co[c].pc /\ co'[c].resumed
           /\ \A d \in Coros : d # c => co'[d] = co[d] /\ Turns(d)' = Turns(d)
<1>1. running' = NULL
  BY DEF Suspend
<1>2. co'[c].pc = co[c].pc /\ co'[c].resumed /\ \A d \in Coros : d # c => co'[d] = co[d]
  BY DEF Suspend, ZdcTypeOK, CoroState
<1>3. NULL \notin Coros /\ ready[c] = 0
  BY ZdcAssumption, RunsReady
<1> QED
  BY <1>1, <1>2, <1>3 DEF Turns

(* What was spawned stays so, while c waits: its own handle is done.       *)
LEMMA SpawnsWhileWaiting ==
    ASSUME ZdcTypeOK, SoleUsers(program), SoleUseInv, NEW c \in Coros, running = c,
           co[c].pc <= Len(program[c]), Here(c).op \notin {"set", "spawn"}, ~co[c].resumed,
           program' = program, running' = NULL, ready' = ready, Turns(c)' = 0,
           co'[c].pc = co[c].pc /\ co'[c].resumed,
           \A d \in Coros : d # c => co'[d] = co[d] /\ Turns(d)' = Turns(d),
           \A h \in Handles : \/ handle'[h] = handle[h] /\ handle[h].coro # c
                              \/ handle'[h] = spawn_done(handle[h]) /\ handle[h].coro = c
                              \/ /\ Here(c).op = "join" /\ h = Here(c).h /\ handle[h].coro # c
                                 /\ ~handle[h].done /\ ~handle'[h].done
                                 /\ handle'[h].coro = handle[h].coro /\ handle'[h].joiner = c
    PROVE  SpawnsInv'
<1>1. \A h, d : WasSpawned(h, d)' = WasSpawned(h, d)
  BY SpawnsStay
<1>2. \A d \in Coros : Brief(program, d)' = Brief(program, d)
  BY DEF Brief
<1>3. ~Brief(program, c) /\ NULL \notin Coros
  BY SoleOp, ZdcAssumption
<1>4. \A d \in Coros : d # c => HasEnded(d)' = HasEnded(d)
  BY <1>3 DEF HasEnded
<1>5. \A d \in Coros : d # c => Here(d)' = Here(d) /\ \A op : WaitsAt(d, op)' = WaitsAt(d, op)
  BY StaysThere
<1>6. Here(c)' = Here(c) /\ WaitsAt(c, Here(c).op)' /\ \A op : ~WaitsAt(c, op)
  BY DEF Here, WaitsAt
<1>7. ASSUME NEW h \in Handles PROVE HandleOK(h)'
  <2>1. HandleOK(h) /\ handle[h].joiner \in Coros \cup {NULL}
    BY DEF SoleUseInv, SpawnsInv, ZdcTypeOK, HandleState
  <2>2. CASE handle'[h] = handle[h] /\ handle[h].coro # c
    <3>1. handle[h].joiner # c
      BY <1>3, <1>6, <2>1 DEF HandleOK
    <3> QED
      BY <1>1, <1>2, <1>3, <1>4, <1>5, <2>1, <2>2, <3>1 DEF HandleOK
  <2>3. CASE handle'[h] = spawn_done(handle[h]) /\ handle[h].coro = c
    <3>1. WasSpawned(h, c)
      BY <1>3, <2>1, <2>3 DEF HandleOK
    <3>2. \A d \in Coros : WasSpawned(h, d) => d = c
      BY <3>1, SpawnedOnce
    <3> QED
      BY <1>1, <1>2, <1>3, <2>3, <3>2 DEF HandleOK, spawn_done
  <2>4. CASE /\ Here(c).op = "join" /\ h = Here(c).h /\ handle[h].coro # c
             /\ ~handle[h].done /\ ~handle'[h].done
             /\ handle'[h].coro = handle[h].coro /\ handle'[h].joiner = c
    <3>1. PICK d \in Coros : WasSpawned(h, d) /\ Brief(program, d)
      BY <2>4, JoinOf
    <3>2. handle[h].coro = d
      BY <2>1, <2>4, <3>1 DEF HandleOK
    <3> QED
      BY <1>1, <1>2, <1>3, <1>6, <2>1, <2>4, <3>2 DEF HandleOK
  <2> QED
    BY <2>2, <2>3, <2>4
<1>8. ASSUME NEW d \in Coros PROVE NotBefore(d)'
  <2>1. NotBefore(d) /\ IsSpawned(program, d)' = IsSpawned(program, d)
    BY DEF SoleUseInv, SpawnsInv, IsSpawned
  <2>2. CASE d = c
    <3>1. Turns(c) # 0
      BY DEF Turns, ZdcTypeOK
    <3> QED
      BY <1>1, <2>1, <2>2, <3>1 DEF NotBefore
  <2>3. CASE d # c
    BY <1>1, <2>1, <2>3 DEF NotBefore
  <2> QED
    BY <2>2, <2>3
<1> QED
  BY <1>7, <1>8 DEF SpawnsInv

(* Suspending at a put, a get or an await. *)
LEMMA SuspendSole ==
    ASSUME ZdcTypeOK, SoleUsers(program), SoleUseInv, NEW c \in Coros, running = c,
           co[c].pc <= Len(program[c]), Here(c).op \in {"put", "get", "await"},
           ~co[c].resumed, Suspend(c, handle), program' = program
    PROVE  /\ SpawnsInv'
           /\ Turns(c)' = 0
           /\ co'[c].pc = co[c].pc /\ co'[c].resumed
           /\ \A d \in Coros : d # c => co'[d] = co[d] /\ Turns(d)' = Turns(d)
           /\ \A d \in Coros : WaitsAt(d, "join") => handle'[Here(d).h] = handle[Here(d).h]
<1>1. handle \in [Handles -> HandleState] /\ _spawn_wrapper(c, handle)
  BY DEF ZdcTypeOK, Suspend
<1>2. /\ ready' = ready
      /\ \A h \in Handles :
            IF handle[h].coro = c THEN handle'[h] = spawn_done(handle[h])
                                  ELSE handle'[h] = handle[h]
  BY <1>1, ReturnsQuietly
<1>3. /\ running' = NULL /\ Turns(c)' = 0 /\ co'[c].pc = co[c].pc /\ co'[c].resumed
      /\ \A d \in Coros : d # c => co'[d] = co[d] /\ Turns(d)' = Turns(d)
  BY <1>2, SuspendTurns
<1>4. SpawnsInv'
  BY <1>2, <1>3, SpawnsWhileWaiting
<1>5. ASSUME NEW d \in Coros, WaitsAt(d, "join") PROVE handle'[Here(d).h] = handle[Here(d).h]
  <2>1. Here(d).h \in Handles /\ handle[Here(d).h].coro # c
    BY <1>5, JoinOf, NotJoined DEF WaitsAt
  <2> QED
    BY <1>2, <2>1
<1> QED
  BY <1>3, <1>4, <1>5

(* A wait stays as it is when its end does not come and it stays listed.   *)
LEMMA KeepsTurn ==
    ASSUME NEW d, program' = program, co'[d] = co[d], Turns(d)' = Turns(d), TurnOrListed(d),
           co[d].resumed => (WaitOver(d)' <=> WaitOver(d)),
           IsListed(d) => IsListed(d)'
    PROVE  TurnOrListed(d)'
BY StaysThere DEF TurnOrListed

(* The invariant, action by action: a put finds the queue full and is listed. *)
LEMMA SolePutWaits ==
    ASSUME ZdcTypeOK, SoleUsers(program), SoleUseInv, NEW c \in Coros,
           At(c, "put"), PutWaits(c, Here(c).q), UNCHANGED <<program, cpl>>
    PROVE  SoleUseInv'
<1> DEFINE q == Here(c).q
<1>1. /\ running = c /\ co[c].pc <= Len(program[c]) /\ Here(c).op = "put"
      /\ ~co[c].resumed /\ queue[q].count >= Depth
  BY DEF At, PutWaits, zdc_queue_full
<1>2. q \in Queues
  BY <1>1, SoleOp, Operands
<1>3. queue[q].putWaiters = <<>>
  BY <1>1, <1>2, SoleOp DEF SoleUseInv, PutterListed, WaitsAt
<1>4. /\ queue'[q].putWaiters = <<c>> /\ queue'[q].count = queue[q].count
      /\ queue'[q].getWaiters = queue[q].getWaiters
      /\ \A r \in Queues : r # q => queue'[r] = queue[r]
  <2>1. Append(queue[q].putWaiters, c) = <<c>>
    BY <1>3
  <2>2. [queue[q] EXCEPT !.putWaiters = <<c>>].putWaiters = <<c>>
        /\ [queue[q] EXCEPT !.putWaiters = <<c>>].count = queue[q].count
        /\ [queue[q] EXCEPT !.putWaiters = <<c>>].getWaiters = queue[q].getWaiters
    BY <1>2, QueueWaiters DEF ZdcTypeOK
  <2>3. queue' = [queue EXCEPT ![q] = [queue[q] EXCEPT !.putWaiters = <<c>>]]
    BY <1>2, <2>1, Zenon DEF PutWaits, ZdcTypeOK
  <2> QED
    BY <1>2, <2>2, <2>3, Zenon DEF ZdcTypeOK
<1>5. /\ SpawnsInv' /\ co'[c].pc = co[c].pc /\ co'[c].resumed /\ Turns(c)' = 0
      /\ \A d \in Coros : d # c => co'[d] = co[d] /\ Turns(d)' = Turns(d)
      /\ \A d \in Coros : WaitsAt(d, "join") => handle'[Here(d).h] = handle[Here(d).h]
  BY <1>1, SuspendSole DEF PutWaits
<1>6. Here(c)' = Here(c) /\ WaitsAt(c, "put")'
  BY <1>1, <1>5 DEF Here, WaitsAt
<1>7. \A d \in Coros : d # c => Here(d)' = Here(d) /\ \A op : WaitsAt(d, op)' = WaitsAt(d, op)
  BY <1>5, StaysThere
<1>8. \A op : ~WaitsAt(c, op)
  BY <1>1 DEF WaitsAt
<1> HIDE DEF q
<1>9. ASSUME NEW r \in Queues
      PROVE  queue'[r].count \in 0 .. Depth /\ PutterListed(r)' /\ GetterListed(r)'
  <2>1. queue[r].count \in 0 .. Depth /\ PutterListed(r) /\ GetterListed(r)
    BY DEF SoleUseInv
  <2>2. queue'[r].count \in 0 .. Depth /\ Depth \in Nat
    BY <1>4, <2>1, ZdcAssumption
  <2>3. PutterListed(r)'
    BY <1>1, <1>4, <1>6, <1>7, <1>8, <2>1, <2>2 DEF PutterListed, q
  <2>4. GetterListed(r)'
    BY <1>1, <1>4, <1>6, <1>7, <1>8, <2>1 DEF GetterListed
  <2> QED
    BY <2>2, <2>3, <2>4
<1>10. ASSUME NEW k \in Completions PROVE AwaiterListed(k)'
  BY <1>7, <1>8 DEF SoleUseInv, AwaiterListed, ZdcTypeOK, CompletionState
<1>11. ASSUME NEW d \in Coros PROVE TurnOrListed(d)'
  <2>1. CASE d = c
    BY <2>1, <1>1, <1>4, <1>5, <1>6, NeedsOfNext DEF TurnOrListed, IsListed, q
  <2>2. CASE d # c
    <3>1. /\ TurnOrListed(d) /\ co'[d] = co[d] /\ Turns(d)' = Turns(d) /\ Here(d)' = Here(d)
          /\ \A op : WaitsAt(d, op)' = WaitsAt(d, op)
          /\ WaitsAt(d, "join") => handle'[Here(d).h] = handle[Here(d).h]
      BY <2>2, <1>5, <1>7 DEF SoleUseInv
    <3>2. /\ WaitsAt(d, "put") => Here(d).q \in Queues /\ Here(d).q # q
          /\ WaitsAt(d, "get") => Here(d).q \in Queues
      BY <2>2, <1>1, SoleOp, Operands DEF WaitsAt, q
    <3>3. IsListed(d) => IsListed(d)'
      BY <1>4, <3>1, <3>2 DEF IsListed
    <3>4. co[d].resumed => (WaitOver(d)' <=> WaitOver(d))
      BY <1>4, <3>1, <3>2, NeedsOf, NeedsOfNext DEF TurnOrListed, WaitsAt
    <3> QED
      BY <3>1, <3>3, <3>4, KeepsTurn
  <2> QED
    BY <2>1, <2>2
<1> QED
  BY <1>5, <1>9, <1>10, <1>11 DEF SoleUseInv

(* A get finds the queue empty and is listed. *)
LEMMA SoleGetWaits ==
    ASSUME ZdcTypeOK, SoleUsers(program), SoleUseInv, NEW c \in Coros,
           At(c, "get"), GetWaits(c, Here(c).q), UNCHANGED <<program, cpl>>
    PROVE  SoleUseInv'
<1> DEFINE q == Here(c).q
<1>1. /\ running = c /\ co[c].pc <= Len(program[c]) /\ Here(c).op = "get"
      /\ ~co[c].resumed /\ queue[q].count = 0
  BY DEF At, GetWaits, zdc_queue_empty
<1>2. q \in Queues
  BY <1>1, SoleOp, Operands
<1>3. queue[q].getWaiters = <<>>
  BY <1>1, <1>2, SoleOp DEF SoleUseInv, GetterListed, WaitsAt
<1>4. /\ queue'[q].getWaiters = <<c>> /\ queue'[q].count = queue[q].count
      /\ queue'[q].putWaiters = queue[q].putWaiters
      /\ \A r \in Queues : r # q => queue'[r] = queue[r]
  <2>1. Append(queue[q].getWaiters, c) = <<c>>
    BY <1>3
  <2>2. [queue[q] EXCEPT !.getWaiters = <<c>>].getWaiters = <<c>>
        /\ [queue[q] EXCEPT !.getWaiters = <<c>>].count = queue[q].count
        /\ [queue[q] EXCEPT !.getWaiters = <<c>>].putWaiters = queue[q].putWaiters
    BY <1>2, QueueWaiters DEF ZdcTypeOK
  <2>3. queue' = [queue EXCEPT ![q] = [queue[q] EXCEPT !.getWaiters = <<c>>]]
    BY <1>2, <2>1, Zenon DEF GetWaits, ZdcTypeOK
  <2> QED
    BY <1>2, <2>2, <2>3, Zenon DEF ZdcTypeOK
<1>5. /\ SpawnsInv' /\ co'[c].pc = co[c].pc /\ co'[c].resumed /\ Turns(c)' = 0
      /\ \A d \in Coros : d # c => co'[d] = co[d] /\ Turns(d)' = Turns(d)
      /\ \A d \in Coros : WaitsAt(d, "join") => handle'[Here(d).h] = handle[Here(d).h]
  BY <1>1, SuspendSole DEF GetWaits
<1>6. Here(c)' = Here(c) /\ WaitsAt(c, "get")'
  BY <1>1, <1>5 DEF Here, WaitsAt
<1>7. \A d \in Coros : d # c => Here(d)' = Here(d) /\ \A op : WaitsAt(d, op)' = WaitsAt(d, op)
  BY <1>5, StaysThere
<1>8. \A op : ~WaitsAt(c, op)
  BY <1>1 DEF WaitsAt
<1> HIDE DEF q
<1>9. ASSUME NEW r \in Queues
      PROVE  queue'[r].count \in 0 .. Depth /\ PutterListed(r)' /\ GetterListed(r)'
  <2>1. queue[r].count \in 0 .. Depth /\ PutterListed(r) /\ GetterListed(r)
    BY DEF SoleUseInv
  <2>2. queue'[r].count \in 0 .. Depth
    BY <1>4, <2>1
  <2>3. PutterListed(r)'
    BY <1>4, <1>7, <1>8, <2>1 DEF PutterListed
  <2>4. GetterListed(r)'
    BY <1>1, <1>4, <1>6, <1>7, <1>8, <2>1 DEF GetterListed, q
  <2> QED
    BY <2>2, <2>3, <2>4
<1>10. ASSUME NEW k \in Completions PROVE AwaiterListed(k)'
  BY <1>7, <1>8 DEF SoleUseInv, AwaiterListed, ZdcTypeOK, CompletionState
<1>11. ASSUME NEW d \in Coros PROVE TurnOrListed(d)'
  <2>1. CASE d = c
    BY <2>1, <1>1, <1>4, <1>5, <1>6, NeedsOfNext DEF TurnOrListed, IsListed, q
  <2>2. CASE d # c
    <3>1. /\ TurnOrListed(d) /\ co'[d] = co[d] /\ Turns(d)' = Turns(d) /\ Here(d)' = Here(d)
          /\ \A op : WaitsAt(d, op)' = WaitsAt(d, op)
          /\ WaitsAt(d, "join") => handle'[Here(d).h] = handle[Here(d).h]
      BY <2>2, <1>5, <1>7 DEF SoleUseInv
    <3>2. /\ WaitsAt(d, "get") => Here(d).q \in Queues /\ Here(d).q # q
          /\ WaitsAt(d, "put") => Here(d).q \in Queues
      BY <2>2, <1>1, SoleOp, Operands DEF WaitsAt, q
    <3>3. IsListed(d) => IsListed(d)'
      BY <1>4, <3>1, <3>2 DEF IsListed
    <3>4. co[d].resumed => (WaitOver(d)' <=> WaitOver(d))
      BY <1>4, <3>1, <3>2, NeedsOf, NeedsOfNext DEF TurnOrListed, WaitsAt
    <3> QED
      BY <3>1, <3>3, <3>4, KeepsTurn
  <2> QED
    BY <2>1, <2>2
<1> QED
  BY <1>5, <1>9, <1>10, <1>11 DEF SoleUseInv

(* An await finds no result and becomes the waiter. *)
LEMMA SoleAwaitWaits ==
    ASSUME ZdcTypeOK, SoleUsers(program), SoleUseInv, NEW c \in Coros,
           At(c, "await"), AwaitWaits(c, Here(c).k), UNCHANGED <<program, queue>>
    PROVE  SoleUseInv'
<1> DEFINE k == Here(c).k
<1>1. /\ running = c /\ co[c].pc <= Len(program[c]) /\ Here(c).op = "await"
      /\ ~co[c].resumed /\ ~cpl[k].set
  BY DEF At, AwaitWaits
<1>2. k \in Completions
  BY <1>1, SoleOp, Operands
<1>3. cpl[k].waiter = NULL
  <2>1. cpl[k].waiter \in Coros \cup {NULL} /\ AwaiterListed(k)
    BY <1>2 DEF SoleUseInv, ZdcTypeOK, CompletionState
  <2> QED
    BY <1>1, <2>1, SoleOp DEF AwaiterListed, WaitsAt
<1>4. /\ cpl'[k].waiter = c /\ cpl'[k].set = cpl[k].set
      /\ \A j \in Completions : j # k => cpl'[j] = cpl[j]
  BY <1>2 DEF AwaitWaits, ZdcTypeOK, CompletionState
<1>5. /\ SpawnsInv' /\ co'[c].pc = co[c].pc /\ co'[c].resumed /\ Turns(c)' = 0
      /\ \A d \in Coros : d # c => co'[d] = co[d] /\ Turns(d)' = Turns(d)
      /\ \A d \in Coros : WaitsAt(d, "join") => handle'[Here(d).h] = handle[Here(d).h]
  BY <1>1, SuspendSole DEF AwaitWaits
<1>6. Here(c)' = Here(c) /\ WaitsAt(c, "await")'
  BY <1>1, <1>5 DEF Here, WaitsAt
<1>7. \A d \in Coros : d # c => Here(d)' = Here(d) /\ \A op : WaitsAt(d, op)' = WaitsAt(d, op)
  BY <1>5, StaysThere
<1>8. \A op : ~WaitsAt(c, op)
  BY <1>1 DEF WaitsAt
<1> HIDE DEF k
<1>9. ASSUME NEW r \in Queues
      PROVE  queue'[r].count \in 0 .. Depth /\ PutterListed(r)' /\ GetterListed(r)'
  BY <1>7, <1>8 DEF SoleUseInv, PutterListed, GetterListed
<1>10. ASSUME NEW j \in Completions PROVE AwaiterListed(j)'
  <2>1. CASE j = k
    BY <2>1, <1>1, <1>4, <1>6 DEF AwaiterListed, k
  <2>2. CASE j # k
    <3>1. cpl[j].waiter \in Coros \cup {NULL} /\ AwaiterListed(j) /\ cpl'[j] = cpl[j]
      BY <2>2, <1>4 DEF SoleUseInv, ZdcTypeOK, CompletionState
    <3> QED
      BY <3>1, <1>7, <1>8 DEF AwaiterListed
  <2> QED
    BY <2>1, <2>2
<1>11. ASSUME NEW d \in Coros PROVE TurnOrListed(d)'
  <2>1. CASE d = c
    BY <2>1, <1>1, <1>4, <1>5, <1>6, NeedsOfNext DEF TurnOrListed, IsListed, k
  <2>2. CASE d # c
    <3>1. /\ TurnOrListed(d) /\ co'[d] = co[d] /\ Turns(d)' = Turns(d) /\ Here(d)' = Here(d)
          /\ \A op : WaitsAt(d, op)' = WaitsAt(d, op)
          /\ WaitsAt(d, "join") => handle'[Here(d).h] = handle[Here(d).h]
      BY <2>2, <1>5, <1>7 DEF SoleUseInv
    <3>2. WaitsAt(d, "await") => Here(d).k \in Completions /\ Here(d).k # k
      BY <2>2, <1>1, SoleOp, Operands DEF WaitsAt, k
    <3>3. IsListed(d) => IsListed(d)'
      BY <1>4, <3>1, <3>2 DEF IsListed
    <3>4. co[d].resumed => (WaitOver(d)' <=> WaitOver(d))
      BY <1>4, <3>1, <3>2, NeedsOf, NeedsOfNext DEF TurnOrListed, WaitsAt
    <3> QED
      BY <3>1, <3>3, <3>4, KeepsTurn
  <2> QED
    BY <2>1, <2>2
<1> QED
  BY <1>5, <1>9, <1>10, <1>11 DEF SoleUseInv

(* A waiter that is taken off its list gets one turn. *)
LEMMA ScheduleTurns ==
    ASSUME ZdcTypeOK, NEW w \in Coros \cup {NULL},
           ready' = zdc_coro_schedule(ready, w), running' = running
    PROVE  /\ w \in Coros /\ Turns(w) = 0 => Turns(w)' = 1
           /\ \A d \in Coros : d # w => Turns(d)' = Turns(d)
<1>1. NULL \notin Coros /\ ready \in [Coros -> Nat]
  BY ZdcAssumption DEF ZdcTypeOK
<1> QED
  BY <1>1 DEF Turns, zdc_coro_schedule

(* The end of its wait and a turn reach a listed coroutine in one step.    *)
LEMMA IsWoken ==
    ASSUME NEW d, program' = program, co'[d] = co[d], Turns(d) = 0 => Turns(d)' = 1,
           TurnOrListed(d), co[d].resumed, ~WaitOver(d), WaitOver(d)'
    PROVE  TurnOrListed(d)'
BY StaysThere DEF TurnOrListed

(* What was spawned stays so, while c goes on and wakes w from its wait.   *)
LEMMA SpawnsOnGoing ==
    ASSUME ZdcTypeOK, SoleUsers(program), SoleUseInv, NEW c \in Coros, running = c,
           co[c].pc <= Len(program[c]), Here(c).op # "spawn",
           NEW w \in Coros \cup {NULL}, w \in Coros => co[w].resumed /\ ~WaitOver(w),
           program' = program, handle' = handle, running' = running,
           ready' = zdc_coro_schedule(ready, w),
           co'[c].pc = co[c].pc + 1, \A d \in Coros : d # c => co'[d] = co[d]
    PROVE  SpawnsInv'
<1>1. \A h, d : WasSpawned(h, d)' = WasSpawned(h, d)
  BY SpawnsStay
<1>2. \A d \in Coros : Brief(program, d)' = Brief(program, d)
  BY DEF Brief
<1>3. NULL \notin Coros /\ (co[c].resumed => WaitOver(c)) /\ Turns(c) # 0 /\ w # c
  BY RunsReady, ZdcAssumption DEF Turns, ZdcTypeOK
<1>4. w \in Coros => ~Brief(program, w) /\ co[w].pc <= Len(program[w])
  BY SoleOp DEF SoleUseInv, TurnOrListed, WaitsAt
<1>5. \A d \in Coros : d # w => Turns(d)' = Turns(d) /\ ready'[d] = ready[d]
  BY DEF Turns, zdc_coro_schedule, ZdcTypeOK
<1>6. \A d \in Coros : d # c => Here(d)' = Here(d) /\ \A op : WaitsAt(d, op)' = WaitsAt(d, op)
  BY StaysThere
<1>7. \A d \in Coros : HasEnded(d) /\ d # w => HasEnded(d)'
  BY <1>5 DEF HasEnded
<1>8. ASSUME NEW h \in Handles PROVE HandleOK(h)'
  <2>1. HandleOK(h) /\ handle[h].joiner \in Coros \cup {NULL}
    BY DEF SoleUseInv, SpawnsInv, ZdcTypeOK, HandleState
  <2>2. handle[h].joiner # c
    BY <1>3, <2>1, NeedsOf DEF HandleOK, WaitsAt
  <2> QED
    BY <1>1, <1>2, <1>4, <1>5, <1>6, <1>7, <2>1, <2>2 DEF HandleOK
<1>9. ASSUME NEW d \in Coros PROVE NotBefore(d)'
  <2>1. NotBefore(d) /\ IsSpawned(program, d)' = IsSpawned(program, d)
    BY DEF SoleUseInv, SpawnsInv, IsSpawned
  <2> QED
    BY <1>1, <1>3, <1>5, <2>1 DEF NotBefore
<1> QED
  BY <1>8, <1>9 DEF SpawnsInv

(* A put wakes the getter, whose wait it ends, and nobody else waits to get. *)
LEMMA SolePutGoesOn ==
    ASSUME ZdcTypeOK, SoleUsers(program), SoleUseInv, NEW c \in Coros,
           At(c, "put"), PutGoesOn(c, Here(c).q), UNCHANGED <<program, cpl>>
    PROVE  SoleUseInv'
<1> DEFINE q == Here(c).q
<1>1. /\ running = c /\ co[c].pc <= Len(program[c]) /\ Here(c).op = "put"
      /\ <<c, co[c].pc>> \in Item
  BY HereIsOp DEF At
<1>2. q \in Queues /\ queue[q] \in QueueState /\ Depth \in Nat
  BY <1>1, SoleOp, Operands, ZdcAssumption DEF ZdcTypeOK
<1>3. queue[q].count \in 0 .. Depth /\ queue[q].count < Depth
  <2>1. ~(queue[q].count >= Depth)
    BY <1>1, RunsReady, NeedsOf DEF PutGoesOn, zdc_queue_full
  <2>2. queue[q].count \in 0 .. Depth
    BY <1>2 DEF SoleUseInv
  <2> QED
    BY <1>2, <2>1, <2>2
<1>4. queue[q].putWaiters = <<>>
  BY <1>2, <1>3 DEF SoleUseInv, PutterListed
<1> PICK w \in Coros \cup {NULL} : w = First(queue[q].getWaiters)
  BY <1>2, QueueFields, FirstType
<1>5. /\ w = First(queue[q].getWaiters) /\ Rest(queue[q].getWaiters) = <<>>
      /\ w \in Coros => WaitsAt(w, "get") /\ Here(w).q = q /\ queue[q].count = 0
      /\ w \notin Coros => queue[q].getWaiters = <<>>
  <2>1. GetterListed(q) /\ NULL \notin Coros
    BY <1>2, ZdcAssumption DEF SoleUseInv
  <2>2. CASE queue[q].getWaiters = <<>>
    BY <2>1, <2>2 DEF First, Rest
  <2>3. CASE queue[q].getWaiters # <<>>
    <3>1. PICK e \in Coros : queue[q].getWaiters = <<e>> /\ WaitsAt(e, "get")
                            /\ Here(e).q = q /\ queue[q].count = 0
      BY <2>1, <2>3 DEF GetterListed
    <3>2. Head(<<e>>) = e /\ Tail(<<e>>) = <<>>
      OBVIOUS
    <3>3. w = e /\ Rest(queue[q].getWaiters) = <<>>
      BY <2>3, <3>1, <3>2 DEF First, Rest
    <3> QED
      BY <3>1, <3>3
  <2> QED
    BY <2>2, <2>3
<1>6. /\ queue'[q].count = queue[q].count + 1
      /\ queue'[q].putWaiters = <<>> /\ queue'[q].getWaiters = <<>>
      /\ \A r \in Queues : r # q => queue'[r] = queue[r]
  <2>1. queue' = [queue EXCEPT ![q] = zdc_queue_put_nowait(queue[q], <<c, co[c].pc>>)]
    BY <1>2, Zenon DEF PutGoesOn, ZdcTypeOK
  <2>2. LET r == zdc_queue_put_nowait(queue[q], <<c, co[c].pc>>) IN
        r.count = queue[q].count + 1 /\ r.putWaiters = <<>> /\ r.getWaiters = <<>>
    BY <1>1, <1>2, <1>4, <1>5, PutFields
  <2> QED
    BY <1>2, <2>1, <2>2, Zenon DEF ZdcTypeOK
<1>7. /\ ~co'[c].resumed /\ running' = running /\ handle' = handle
      /\ \A d \in Coros : d # c => co'[d] = co[d]
  BY GoOnTypes DEF PutGoesOn
<1>8. ready' = zdc_coro_schedule(ready, w)
  BY <1>5 DEF PutGoesOn
<1>9. /\ \A d \in Coros : d # c => Here(d)' = Here(d) /\ \A op : WaitsAt(d, op)' = WaitsAt(d, op)
      /\ \A op : WaitsAt(c, op) => op = "put"
  BY <1>1, <1>7, StaysThere DEF WaitsAt
<1>10. /\ w \in Coros /\ Turns(w) = 0 => Turns(w)' = 1
       /\ \A d \in Coros : d # w => Turns(d)' = Turns(d)
  BY <1>7, <1>8, ScheduleTurns
<1>11. w # c
  BY <1>5, <1>9
<1>12. ASSUME NEW r \in Queues
       PROVE  queue'[r].count \in 0 .. Depth /\ PutterListed(r)' /\ GetterListed(r)'
  <2>1. CASE r = q
    BY <2>1, <1>2, <1>3, <1>6 DEF PutterListed, GetterListed
  <2>2. CASE r # q
    BY <2>2, <1>6, <1>9 DEF SoleUseInv, PutterListed, GetterListed
  <2> QED
    BY <2>1, <2>2
<1>13. ASSUME NEW k \in Completions PROVE AwaiterListed(k)'
  BY <1>9 DEF SoleUseInv, AwaiterListed, ZdcTypeOK, CompletionState
<1>14. ASSUME NEW d \in Coros PROVE TurnOrListed(d)'
  <2>1. TurnOrListed(d)
    BY DEF SoleUseInv
  <2>2. CASE d = c
    BY <2>1, <2>2, <1>7, <1>10, <1>11 DEF TurnOrListed
  <2>3. CASE d = w
    <3>1. /\ co[w].resumed /\ Here(w).op = "get" /\ co'[w] = co[w] /\ Here(w)' = Here(w)
          /\ TurnOrListed(w)
      BY <2>1, <2>3, <1>5, <1>7, <1>9, <1>11 DEF WaitsAt
    <3>2. ~WaitOver(w) /\ WaitOver(w)'
      BY <2>3, <3>1, <1>5, <1>6, NeedsOf, NeedsOfNext
    <3>3. TurnOrListed(w)'
      BY <2>3, <3>1, <3>2, <1>10, IsWoken
    <3> QED
      BY <2>3, <3>3
  <2>4. CASE d # c /\ d # w
    <3>1. /\ co'[d] = co[d] /\ Turns(d)' = Turns(d) /\ Here(d)' = Here(d)
          /\ (\A op : WaitsAt(d, op)' = WaitsAt(d, op)) /\ handle' = handle
      BY <2>4, <1>7, <1>9, <1>10
    <3>2. /\ WaitsAt(d, "put") => Here(d).q \in Queues /\ Here(d).q # q
          /\ WaitsAt(d, "get") => Here(d).q \in Queues
      BY <2>4, <1>1, SoleOp, Operands DEF WaitsAt
    <3>3. WaitsAt(d, "get") /\ Here(d).q = q => queue[q].getWaiters # <<d>>
      <4>1. SUFFICES ASSUME queue[q].getWaiters = <<d>> PROVE w = d
        BY <2>4
      <4>2. Head(<<d>>) = d /\ <<d>> # <<>>
        OBVIOUS
      <4> QED
        BY <1>5, <4>1, <4>2 DEF First
    <3> HIDE DEF q
    <3>4. IsListed(d) => IsListed(d)'
      BY <1>6, <3>1, <3>2, <3>3 DEF IsListed
    <3>5. WaitsAt(d, "get") /\ Here(d).q = q => queue[q].count # 0 /\ queue'[q].count # 0
      <4>1. SUFFICES ASSUME WaitsAt(d, "get"), Here(d).q = q PROVE queue[q].count # 0
        BY <1>3, <1>6
      <4>2. Here(d).op = "get" /\ co[d].resumed
        BY <4>1 DEF WaitsAt
      <4>3. WaitOver(d)
        BY <2>1, <3>3, <4>1, <4>2 DEF TurnOrListed, IsListed, WaitsAt
      <4> QED
        BY <4>1, <4>2, <4>3, NeedsOf
    <3>6. co[d].resumed => (WaitOver(d)' <=> WaitOver(d))
      BY <1>6, <2>1, <3>1, <3>2, <3>5, NeedsOf, NeedsOfNext DEF TurnOrListed, WaitsAt
    <3> QED
      BY <2>1, <3>1, <3>4, <3>6, KeepsTurn
  <2> QED
    BY <2>2, <2>3, <2>4
<1>15. SpawnsInv'
  <2>1. w \in Coros => co[w].resumed /\ ~WaitOver(w)
    BY <1>2, <1>5, NeedsOf DEF WaitsAt
  <2>2. co'[c].pc = co[c].pc + 1 /\ Here(c).op # "spawn"
    BY <1>1, GoOnTypes DEF PutGoesOn
  <2> QED
    BY <1>1, <1>7, <1>8, <2>1, <2>2, SpawnsOnGoing
<1> QED
  BY <1>12, <1>13, <1>14, <1>15 DEF SoleUseInv

(* A get wakes the putter, whose wait it ends, and nobody else waits to put. *)
LEMMA SoleGetGoesOn ==
    ASSUME ZdcTypeOK, SoleUsers(program), SoleUseInv, NEW c \in Coros,
           At(c, "get"), GetGoesOn(c, Here(c).q), UNCHANGED <<program, cpl>>
    PROVE  SoleUseInv'
<1> DEFINE q == Here(c).q
<1>1. /\ running = c /\ co[c].pc <= Len(program[c]) /\ Here(c).op = "get"
  BY DEF At
<1>2. q \in Queues /\ queue[q] \in QueueState /\ Depth \in Nat
  BY <1>1, SoleOp, Operands, ZdcAssumption DEF ZdcTypeOK
<1>3. queue[q].count \in 0 .. Depth /\ queue[q].count # 0
  <2>1. queue[q].count # 0
    BY <1>1, RunsReady, NeedsOf DEF GetGoesOn, zdc_queue_empty
  <2> QED
    BY <1>2, <2>1 DEF SoleUseInv
<1>4. queue[q].getWaiters = <<>>
  BY <1>2, <1>3 DEF SoleUseInv, GetterListed
<1> PICK w \in Coros \cup {NULL} : w = First(queue[q].putWaiters)
  BY <1>2, QueueFields, FirstType
<1>5. /\ w = First(queue[q].putWaiters) /\ Rest(queue[q].putWaiters) = <<>>
      /\ w \in Coros => WaitsAt(w, "put") /\ Here(w).q = q /\ queue[q].count = Depth
      /\ w \notin Coros => queue[q].putWaiters = <<>>
  <2>1. PutterListed(q) /\ NULL \notin Coros
    BY <1>2, ZdcAssumption DEF SoleUseInv
  <2>2. CASE queue[q].putWaiters = <<>>
    BY <2>1, <2>2 DEF First, Rest
  <2>3. CASE queue[q].putWaiters # <<>>
    <3>1. PICK e \in Coros : queue[q].putWaiters = <<e>> /\ WaitsAt(e, "put")
                            /\ Here(e).q = q /\ queue[q].count = Depth
      BY <2>1, <2>3 DEF PutterListed
    <3>2. Head(<<e>>) = e /\ Tail(<<e>>) = <<>>
      OBVIOUS
    <3>3. w = e /\ Rest(queue[q].putWaiters) = <<>>
      BY <2>3, <3>1, <3>2 DEF First, Rest
    <3> QED
      BY <3>1, <3>3
  <2> QED
    BY <2>2, <2>3
<1>6. /\ queue'[q].count = queue[q].count - 1
      /\ queue'[q].getWaiters = <<>> /\ queue'[q].putWaiters = <<>>
      /\ \A r \in Queues : r # q => queue'[r] = queue[r]
  <2>1. queue' = [queue EXCEPT ![q] = zdc_queue_get_nowait(queue[q])]
    BY <1>2, Zenon DEF GetGoesOn, ZdcTypeOK
  <2>2. LET r == zdc_queue_get_nowait(queue[q]) IN
        r.count = queue[q].count - 1 /\ r.getWaiters = <<>> /\ r.putWaiters = <<>>
    BY <1>1, <1>2, <1>4, <1>5, GetFields
  <2> QED
    BY <1>2, <2>1, <2>2, Zenon DEF ZdcTypeOK
<1>7. /\ ~co'[c].resumed /\ running' = running /\ handle' = handle
      /\ \A d \in Coros : d # c => co'[d] = co[d]
  BY GoOnTypes DEF GetGoesOn
<1>8. ready' = zdc_coro_schedule(ready, w)
  BY <1>5 DEF GetGoesOn
<1>9. /\ \A d \in Coros : d # c => Here(d)' = Here(d) /\ \A op : WaitsAt(d, op)' = WaitsAt(d, op)
      /\ \A op : WaitsAt(c, op) => op = "get"
  BY <1>1, <1>7, StaysThere DEF WaitsAt
<1>10. /\ w \in Coros /\ Turns(w) = 0 => Turns(w)' = 1
       /\ \A d \in Coros : d # w => Turns(d)' = Turns(d)
  BY <1>7, <1>8, ScheduleTurns
<1>11. w # c
  BY <1>5, <1>9
<1>12. ASSUME NEW r \in Queues
       PROVE  queue'[r].count \in 0 .. Depth /\ GetterListed(r)' /\ PutterListed(r)'
  <2>1. CASE r = q
    BY <2>1, <1>2, <1>3, <1>6 DEF GetterListed, PutterListed
  <2>2. CASE r # q
    BY <2>2, <1>6, <1>9 DEF SoleUseInv, GetterListed, PutterListed
  <2> QED
    BY <2>1, <2>2
<1>13. ASSUME NEW k \in Completions PROVE AwaiterListed(k)'
  BY <1>9 DEF SoleUseInv, AwaiterListed, ZdcTypeOK, CompletionState
<1>14. ASSUME NEW d \in Coros PROVE TurnOrListed(d)'
  <2>1. TurnOrListed(d)
    BY DEF SoleUseInv
  <2>2. CASE d = c
    BY <2>1, <2>2, <1>7, <1>10, <1>11 DEF TurnOrListed
  <2>3. CASE d = w
    <3>1. /\ co[w].resumed /\ Here(w).op = "put" /\ co'[w] = co[w] /\ Here(w)' = Here(w)
          /\ TurnOrListed(w)
      BY <2>1, <2>3, <1>5, <1>7, <1>9, <1>11 DEF WaitsAt
    <3>2. ~WaitOver(w) /\ WaitOver(w)'
      <4>1. queue[q].count >= Depth /\ ~(queue'[q].count >= Depth)
        BY <2>3, <1>2, <1>5, <1>6
      <4> QED
        BY <2>3, <3>1, <4>1, <1>5, NeedsOf, NeedsOfNext
    <3>3. TurnOrListed(w)'
      BY <2>3, <3>1, <3>2, <1>10, IsWoken
    <3> QED
      BY <2>3, <3>3
  <2>4. CASE d # c /\ d # w
    <3>1. /\ co'[d] = co[d] /\ Turns(d)' = Turns(d) /\ Here(d)' = Here(d)
          /\ (\A op : WaitsAt(d, op)' = WaitsAt(d, op)) /\ handle' = handle
      BY <2>4, <1>7, <1>9, <1>10
    <3>2. /\ WaitsAt(d, "get") => Here(d).q \in Queues /\ Here(d).q # q
          /\ WaitsAt(d, "put") => Here(d).q \in Queues
      BY <2>4, <1>1, SoleOp, Operands DEF WaitsAt
    <3>3. WaitsAt(d, "put") /\ Here(d).q = q => queue[q].putWaiters # <<d>>
      <4>1. SUFFICES ASSUME queue[q].putWaiters = <<d>> PROVE w = d
        BY <2>4
      <4>2. Head(<<d>>) = d /\ <<d>> # <<>>
        OBVIOUS
      <4> QED
        BY <1>5, <4>1, <4>2 DEF First
    <3> HIDE DEF q
    <3>4. IsListed(d) => IsListed(d)'
      BY <1>6, <3>1, <3>2, <3>3 DEF IsListed
    <3>5. WaitsAt(d, "put") /\ Here(d).q = q =>
            ~(queue[q].count >= Depth) /\ ~(queue'[q].count >= Depth)
      <4>1. SUFFICES ASSUME WaitsAt(d, "put"), Here(d).q = q PROVE ~(queue[q].count >= Depth)
        BY <1>2, <1>3, <1>6
      <4>2. Here(d).op = "put" /\ co[d].resumed
        BY <4>1 DEF WaitsAt
      <4>3. WaitOver(d)
        BY <2>1, <3>3, <4>1, <4>2 DEF TurnOrListed, IsListed, WaitsAt
      <4> QED
        BY <4>1, <4>2, <4>3, NeedsOf
    <3>6. co[d].resumed => (WaitOver(d)' <=> WaitOver(d))
      BY <1>6, <2>1, <3>1, <3>2, <3>5, NeedsOf, NeedsOfNext DEF TurnOrListed, WaitsAt
    <3> QED
      BY <2>1, <3>1, <3>4, <3>6, KeepsTurn
  <2> QED
    BY <2>2, <2>3, <2>4
<1>15. SpawnsInv'
  <2>1. w \in Coros => co[w].resumed /\ ~WaitOver(w)
    BY <1>2, <1>5, NeedsOf DEF WaitsAt
  <2>2. co'[c].pc = co[c].pc + 1 /\ Here(c).op # "spawn"
    BY <1>1, GoOnTypes DEF GetGoesOn
  <2> QED
    BY <1>1, <1>7, <1>8, <2>1, <2>2, SpawnsOnGoing
<1> QED
  BY <1>12, <1>13, <1>14, <1>15 DEF SoleUseInv

(* Setting a completion wakes its awaiter; setting it again wakes nobody. *)
LEMMA SoleSet ==
    ASSUME ZdcTypeOK, SoleUsers(program), SoleUseInv, NEW c \in Coros, SetCompletion(c)
    PROVE  SoleUseInv'
<1> DEFINE k == Here(c).k
<1>1. /\ running = c /\ co[c].pc <= Len(program[c]) /\ Here(c).op = "set"
      /\ <<c, co[c].pc>> \in Item
  BY HereIsOp DEF SetCompletion, At
<1>2. k \in Completions /\ cpl[k] \in CompletionState /\ AwaiterListed(k)
  BY <1>1, SoleOp, Operands DEF ZdcTypeOK, SoleUseInv
<1> PICK w \in Coros \cup {NULL} : w = IF cpl[k].set THEN NULL ELSE cpl[k].waiter
  BY <1>2 DEF CompletionState
<1>3. /\ w = IF cpl[k].set THEN NULL ELSE cpl[k].waiter
      /\ w \in Coros => WaitsAt(w, "await") /\ Here(w).k = k /\ ~cpl[k].set
      /\ w \notin Coros /\ ~cpl[k].set => cpl[k].waiter = NULL
      /\ NULL \notin Coros
  BY <1>2, ZdcAssumption DEF AwaiterListed
<1>4. cpl'[k].set /\ cpl'[k].waiter = NULL /\ \A j \in Completions : j # k => cpl'[j] = cpl[j]
  <2> DEFINE s == zdc_completion_set(cpl[k], <<c, co[c].pc>>)
  <2>1. s.set /\ (cpl[k].set => s = cpl[k]) /\ (~cpl[k].set => s.waiter = NULL)
    BY <1>1, <1>2, SetFields
  <2>2. cpl' = [cpl EXCEPT ![k] = s]
    BY Zenon DEF SetCompletion
  <2> HIDE DEF s
  <2>3. cpl'[k] = s /\ \A j \in Completions : j # k => cpl'[j] = cpl[j]
    BY <1>2, <2>2, Zenon DEF ZdcTypeOK
  <2>4. s.waiter = NULL
    BY <1>2, <2>1 DEF AwaiterListed
  <2> QED
    BY <2>1, <2>3, <2>4
<1>5. /\ ~co'[c].resumed /\ running' = running /\ handle' = handle
      /\ queue' = queue /\ program' = program
      /\ \A d \in Coros : d # c => co'[d] = co[d]
  BY GoOnTypes DEF SetCompletion
<1>6. ready' = zdc_coro_schedule(ready, w)
  BY <1>3, Zenon DEF SetCompletion
<1>7. /\ \A d \in Coros : d # c => Here(d)' = Here(d) /\ \A op : WaitsAt(d, op)' = WaitsAt(d, op)
      /\ \A op : WaitsAt(c, op) => op = "set"
  BY <1>1, <1>5, StaysThere DEF WaitsAt
<1>8. /\ w \in Coros /\ Turns(w) = 0 => Turns(w)' = 1
      /\ \A d \in Coros : d # w => Turns(d)' = Turns(d)
  BY <1>5, <1>6, ScheduleTurns
<1>9. w # c
  BY <1>3, <1>7
<1> HIDE DEF k
<1>10. ASSUME NEW r \in Queues
       PROVE  queue'[r].count \in 0 .. Depth /\ PutterListed(r)' /\ GetterListed(r)'
  BY <1>5, <1>7 DEF SoleUseInv, PutterListed, GetterListed
<1>11. ASSUME NEW j \in Completions PROVE AwaiterListed(j)'
  <2>1. CASE j = k
    BY <2>1, <1>4 DEF AwaiterListed
  <2>2. CASE j # k
    <3>1. cpl[j].waiter \in Coros \cup {NULL} /\ AwaiterListed(j) /\ cpl'[j] = cpl[j]
      BY <2>2, <1>4 DEF SoleUseInv, ZdcTypeOK, CompletionState
    <3> QED
      BY <3>1, <1>7 DEF AwaiterListed
  <2> QED
    BY <2>1, <2>2
<1>12. ASSUME NEW d \in Coros PROVE TurnOrListed(d)'
  <2>1. TurnOrListed(d)
    BY DEF SoleUseInv
  <2>2. CASE d = c
    BY <2>1, <2>2, <1>5, <1>8, <1>9 DEF TurnOrListed
  <2>3. CASE d = w
    <3>1. /\ co[w].resumed /\ Here(w).op = "await" /\ co'[w] = co[w] /\ Here(w)' = Here(w)
          /\ TurnOrListed(w)
      BY <2>1, <2>3, <1>3, <1>5, <1>7, <1>9 DEF WaitsAt
    <3>2. ~WaitOver(w) /\ WaitOver(w)'
      BY <2>3, <3>1, <1>3, <1>4, NeedsOf, NeedsOfNext
    <3>3. TurnOrListed(w)'
      BY <2>3, <3>1, <3>2, <1>5, <1>8, IsWoken
    <3> QED
      BY <2>3, <3>3
  <2>4. CASE d # c /\ d # w
    <3>1. /\ co'[d] = co[d] /\ Turns(d)' = Turns(d) /\ Here(d)' = Here(d)
          /\ (\A op : WaitsAt(d, op)' = WaitsAt(d, op)) /\ handle' = handle
      BY <2>4, <1>5, <1>7, <1>8
    <3>2. WaitsAt(d, "await") => Here(d).k \in Completions
      BY SoleOp, Operands DEF WaitsAt
    <3>3. WaitsAt(d, "await") /\ Here(d).k = k => cpl[k].set \/ cpl[k].waiter # d
      BY <2>4, <1>3
    <3>4. WaitsAt(d, "await") /\ Here(d).k = k => cpl[k].set
      <4>1. SUFFICES ASSUME WaitsAt(d, "await"), Here(d).k = k, ~cpl[k].set PROVE FALSE
        OBVIOUS
      <4>2. Here(d).op = "await" /\ co[d].resumed
        BY <4>1 DEF WaitsAt
      <4>3. ~WaitOver(d)
        BY <4>1, <4>2, NeedsOf
      <4> QED
        BY <2>1, <3>3, <4>1, <4>2, <4>3 DEF TurnOrListed, IsListed, WaitsAt
    <3>5. co[d].resumed => (WaitOver(d)' <=> WaitOver(d))
      BY <1>4, <1>5, <2>1, <3>1, <3>2, <3>4, NeedsOf, NeedsOfNext DEF TurnOrListed, WaitsAt
    <3>6. CASE co[d].resumed /\ ~WaitOver(d)
      <4>1. ~WaitsAt(d, "await") \/ Here(d).k # k
        BY <3>4, <3>6, NeedsOf DEF WaitsAt
      <4>2. IsListed(d) => IsListed(d)'
        BY <1>4, <1>5, <3>1, <3>2, <4>1 DEF IsListed
      <4> QED
        BY <1>5, <2>1, <3>1, <3>5, <4>2, KeepsTurn
    <3>7. CASE ~co[d].resumed \/ WaitOver(d)
      BY <2>1, <3>1, <3>5, <3>7 DEF TurnOrListed
    <3> QED
      BY <3>6, <3>7
  <2> QED
    BY <2>2, <2>3, <2>4
<1>13. SpawnsInv'
  <2>1. w \in Coros => co[w].resumed /\ ~WaitOver(w)
    BY <1>3, NeedsOf DEF WaitsAt, k
  <2>2. co'[c].pc = co[c].pc + 1 /\ Here(c).op # "spawn"
    BY <1>1, GoOnTypes DEF SetCompletion
  <2> QED
    BY <1>1, <1>5, <1>6, <2>1, <2>2, SpawnsOnGoing
<1> QED
  BY <1>10, <1>11, <1>12, <1>13 DEF SoleUseInv

(* The lists of waiters stay as they are when the coroutine that runs, which *)
(* is on none of them, changes neither queues nor completions.             *)
LEMMA SoleKept ==
    ASSUME ZdcTypeOK, SoleUseInv, NEW c \in Coros, running = c,
           UNCHANGED <<program, queue, cpl>>,
           \A d \in Coros : d # c => co'[d] = co[d],
           SpawnsInv', \A d \in Coros : TurnOrListed(d)'
    PROVE  SoleUseInv'
<1>1. \A d \in Coros : d # c => Here(d)' = Here(d) /\ \A op : WaitsAt(d, op)' = WaitsAt(d, op)
  BY StaysThere
<1>2. /\ WaitsAt(c, "put") => ~(queue[Here(c).q].count >= Depth)
      /\ WaitsAt(c, "get") => queue[Here(c).q].count # 0
      /\ WaitsAt(c, "await") => cpl[Here(c).k].set
  BY NeedsOf, RunsReady DEF WaitsAt
<1>3. ASSUME NEW r \in Queues
      PROVE  queue'[r].count \in 0 .. Depth /\ PutterListed(r)' /\ GetterListed(r)'
  <2>1. queue[r].count \in 0 .. Depth /\ PutterListed(r) /\ GetterListed(r)
    BY DEF SoleUseInv
  <2>2. PutterListed(r)'
    BY <1>1, <1>2, <2>1 DEF PutterListed
  <2>3. GetterListed(r)'
    BY <1>1, <1>2, <2>1 DEF GetterListed
  <2> QED
    BY <2>1, <2>2, <2>3
<1>4. ASSUME NEW j \in Completions PROVE AwaiterListed(j)'
  <2>1. cpl[j].waiter \in Coros \cup {NULL} /\ AwaiterListed(j)
    BY DEF SoleUseInv, ZdcTypeOK, CompletionState
  <2> QED
    BY <1>1, <1>2, <2>1 DEF AwaiterListed
<1> QED
  BY <1>3, <1>4 DEF SoleUseInv

(* What such a step does not reach keeps its turn, or its place in a list. *)
LEMMA TurnKept ==
    ASSUME SoleUseInv, NEW d \in Coros, UNCHANGED <<program, queue, cpl>>,
           co'[d] = co[d], Turns(d)' = Turns(d),
           WaitsAt(d, "join") => handle'[Here(d).h] = handle[Here(d).h]
    PROVE  TurnOrListed(d)'
<1>1. TurnOrListed(d) /\ Here(d)' = Here(d) /\ \A op : WaitsAt(d, op)' = WaitsAt(d, op)
  BY StaysThere DEF SoleUseInv
<1>2. IsListed(d) => IsListed(d)'
  BY <1>1 DEF IsListed
<1>3. co[d].resumed => (WaitOver(d)' <=> WaitOver(d))
  BY <1>1, NeedsOf, NeedsOfNext DEF TurnOrListed, WaitsAt
<1> QED
  BY <1>1, <1>2, <1>3, KeepsTurn

(* An await or a join that goes on was not listed: its wait is over. *)
LEMMA SoleGoesOnAlone ==
    ASSUME ZdcTypeOK, SoleUsers(program), SoleUseInv, NEW c \in Coros, running = c,
           co[c].pc <= Len(program[c]), Here(c).op # "spawn", GoOn(c),
           UNCHANGED <<program, queue, cpl, ready, handle>>
    PROVE  SoleUseInv'
<1>1. /\ co'[c].pc = co[c].pc + 1 /\ ~co'[c].resumed /\ running' = running
      /\ \A d \in Coros : d # c => co'[d] = co[d]
  BY GoOnTypes
<1>2. \A d \in Coros : Turns(d)' = Turns(d)
  BY <1>1 DEF Turns
<1>3. SpawnsInv'
  <2>1. NULL \notin Coros /\ ready' = zdc_coro_schedule(ready, NULL)
    BY ZdcAssumption DEF zdc_coro_schedule
  <2> QED
    BY <1>1, <2>1, SpawnsOnGoing
<1>4. ASSUME NEW d \in Coros PROVE TurnOrListed(d)'
  <2>1. CASE d = c
    BY <1>1, <1>2, <2>1 DEF SoleUseInv, TurnOrListed
  <2>2. CASE d # c
    BY <1>1, <1>2, <2>2, TurnKept
  <2> QED
    BY <2>1, <2>2
<1> QED
  BY <1>1, <1>3, <1>4, SoleKept

(* An await goes on. *)
LEMMA SoleAwaitGoesOn ==
    ASSUME ZdcTypeOK, SoleUsers(program), SoleUseInv, NEW c \in Coros,
           At(c, "await"), AwaitGoesOn(c, Here(c).k), UNCHANGED <<program, queue>>
    PROVE  SoleUseInv'
BY SoleGoesOnAlone DEF At, AwaitGoesOn

(* A join goes on. *)
LEMMA SoleJoinGoesOn ==
    ASSUME ZdcTypeOK, SoleUsers(program), SoleUseInv, NEW c \in Coros,
           At(c, "join"), JoinGoesOn(c, Here(c).h), UNCHANGED <<program, queue, cpl>>
    PROVE  SoleUseInv'
BY SoleGoesOnAlone DEF At, JoinGoesOn

(* A join finds that the coroutine has not ended and becomes its joiner.   *)
LEMMA SoleJoinWaits ==
    ASSUME ZdcTypeOK, SoleUsers(program), SoleUseInv, NEW c \in Coros,
           At(c, "join"), JoinWaits(c, Here(c).h), UNCHANGED <<program, queue, cpl>>
    PROVE  SoleUseInv'
<1> DEFINE h == Here(c).h
           hs == [handle EXCEPT ![h].joiner = c]
<1>1. /\ running = c /\ co[c].pc <= Len(program[c]) /\ Here(c).op = "join"
      /\ ~co[c].resumed /\ ~handle[h].done /\ Suspend(c, hs)
  BY DEF At, JoinWaits
<1>2. h \in Handles /\ handle[h].coro # c
  BY <1>1, JoinOf, NotJoined
<1> HIDE DEF h
<1>3. /\ hs \in [Handles -> HandleState]
      /\ hs[h].coro = handle[h].coro /\ hs[h].done = handle[h].done /\ hs[h].joiner = c
      /\ \A g \in Handles : g # h => hs[g] = handle[g]
  BY <1>2 DEF ZdcTypeOK, HandleState
<1> HIDE DEF hs
<1>4. /\ ready' = ready
      /\ \A g \in Handles :
            IF handle[g].coro = c THEN handle'[g] = spawn_done(handle[g])
                                  ELSE handle'[g] = hs[g]
  BY <1>1, <1>3, ReturnsQuietly DEF Suspend, h
<1>5. /\ running' = NULL /\ Turns(c)' = 0 /\ co'[c].pc = co[c].pc /\ co'[c].resumed
      /\ \A d \in Coros : d # c => co'[d] = co[d] /\ Turns(d)' = Turns(d)
  BY <1>1, <1>4, SuspendTurns
<1>6. \A g \in Handles : \/ handle'[g] = handle[g] /\ handle[g].coro # c
                         \/ handle'[g] = spawn_done(handle[g]) /\ handle[g].coro = c
                         \/ /\ Here(c).op = "join" /\ g = Here(c).h /\ handle[g].coro # c
                            /\ ~handle[g].done /\ ~handle'[g].done
                            /\ handle'[g].coro = handle[g].coro /\ handle'[g].joiner = c
  BY <1>1, <1>2, <1>3, <1>4 DEF h
<1>7. SpawnsInv'
  BY <1>1, <1>4, <1>5, <1>6, SpawnsWhileWaiting
<1>8. ASSUME NEW d \in Coros PROVE TurnOrListed(d)'
  <2>1. CASE d = c
    <3>1. Here(c)' = Here(c) /\ WaitsAt(c, "join")'
      BY <1>1, <1>5 DEF Here, WaitsAt
    <3>2. ~handle'[h].done /\ handle'[h].joiner = c
      BY <1>1, <1>2, <1>3, <1>4
    <3> QED
      BY <1>1, <1>5, <2>1, <3>1, <3>2, NeedsOfNext DEF TurnOrListed, IsListed, h
  <2>2. CASE d # c
    <3>1. ASSUME WaitsAt(d, "join") PROVE handle'[Here(d).h] = handle[Here(d).h]
      <4>1. Here(d).h \in Handles /\ handle[Here(d).h].coro # c
        BY <1>1, <3>1, JoinOf, NotJoined DEF WaitsAt
      <4>2. Here(d).h # h
        BY <1>1, <2>2, <3>1, SoleOp DEF WaitsAt, h
      <4> QED
        BY <1>3, <1>4, <4>1, <4>2
    <3> QED
      BY <1>5, <2>2, <3>1, TurnKept
  <2> QED
    BY <2>1, <2>2
<1> QED
  BY <1>1, <1>5, <1>7, <1>8, SoleKept

(* What is about to be spawned was not before: it has no turn. *)
LEMMA NotYetSpawned ==
    ASSUME ZdcTypeOK, SoleUsers(program), SoleUseInv, NEW c \in Coros,
           co[c].pc <= Len(program[c]), Here(c).op = "spawn"
    PROVE  /\ Here(c).h \in Handles /\ Here(c).coro \in Coros
           /\ \A g, d : WasSpawned(g, d) => g # Here(c).h /\ d # Here(c).coro
           /\ Turns(Here(c).coro) = 0 /\ ~co[Here(c).coro].resumed
<1>1. co[c].pc \in DOMAIN program[c] /\ Here(c) = program[c][co[c].pc]
  BY DEF ZdcTypeOK, CoroState, Here
<1>2. Here(c).h \in Handles /\ Here(c).coro \in Coros
  BY SoleOp, Operands
<1>3. ASSUME NEW g, NEW d, WasSpawned(g, d)
      PROVE  g # Here(c).h /\ d # Here(c).coro
  <2>1. PICK e \in Coros : \E i \in DOMAIN program[e] :
            /\ i < co[e].pc /\ program[e][i].op = "spawn"
            /\ program[e][i].h = g /\ program[e][i].coro = d
    BY <1>3, Zenon DEF WasSpawned
  <2>2. PICK i \in DOMAIN program[e] :
            /\ i < co[e].pc /\ program[e][i].op = "spawn"
            /\ program[e][i].h = g /\ program[e][i].coro = d
    BY <2>1
  <2>3. i \in Nat /\ co[e].pc \in Nat
    BY DEF ZdcTypeOK, CoroState
  <2>4. ~SameSpawn(program[e][i], program[c][co[c].pc])
    BY <1>1, <2>2, <2>3 DEF SoleUsers
  <2> QED
    BY <1>1, <2>2, <2>4 DEF SameSpawn
<1>4. NotBefore(Here(c).coro) /\ IsSpawned(program, Here(c).coro)
  BY <1>1, <1>2, Zenon DEF SoleUseInv, SpawnsInv, IsSpawned
<1>5. Turns(Here(c).coro) = 0 /\ ~co[Here(c).coro].resumed
  BY <1>3, <1>4 DEF NotBefore
<1> QED
  BY <1>2, <1>3, <1>5

(* A spawn gives a turn to a coroutine that had none and waits for nothing. *)
LEMMA SoleSpawn ==
    ASSUME ZdcTypeOK, SoleUsers(program), SoleUseInv, NEW c \in Coros, zdc_spawn(c)
    PROVE  SoleUseInv'
<1>1. /\ running = c /\ co[c].pc <= Len(program[c]) /\ Here(c).op = "spawn"
      /\ UNCHANGED <<program, queue, cpl>>
  BY DEF zdc_spawn, At
<1> PICK h \in Handles, e \in Coros : h = Here(c).h /\ e = Here(c).coro
  BY <1>1, NotYetSpawned
<1>2. /\ Turns(e) = 0 /\ ~co[e].resumed
      /\ \A g, d : WasSpawned(g, d) => g # h /\ d # e
  BY <1>1, NotYetSpawned
<1>3. /\ co'[c].pc = co[c].pc + 1 /\ ~co'[c].resumed /\ running' = running
      /\ \A d \in Coros : d # c => co'[d] = co[d]
  BY GoOnTypes DEF zdc_spawn
<1>4. /\ handle'[h].coro = e /\ ~handle'[h].done /\ handle'[h].joiner = NULL
      /\ \A g \in Handles : g # h => handle'[g] = handle[g]
  BY <1>2 DEF zdc_spawn, ZdcTypeOK
<1>5. NULL \notin Coros /\ Turns(c) = 1 /\ (co[c].resumed => WaitOver(c)) /\ e # c
  BY <1>1, <1>2, RunsReady, ZdcAssumption DEF Turns
<1>6. /\ Turns(e)' = 1
      /\ \A d \in Coros : d # e => Turns(d)' = Turns(d) /\ ready'[d] = ready[d]
  <2>1. e # NULL /\ ready' = zdc_coro_schedule(ready, e) /\ ready \in [Coros -> Nat]
    BY <1>5 DEF zdc_spawn, ZdcTypeOK
  <2>2. ready'[e] = ready[e] + 1 /\ \A d \in Coros : d # e => ready'[d] = ready[d]
    BY <2>1 DEF zdc_coro_schedule
  <2> QED
    BY <1>2, <1>3, <2>1, <2>2 DEF Turns
<1>7. \A g, d : WasSpawned(g, d)' <=> WasSpawned(g, d) \/ (g = h /\ d = e)
  <2> DEFINE Spawns(o, g, d) == o.op = "spawn" /\ o.h = g /\ o.coro = d
  <2>1. co[c].pc \in DOMAIN program[c] /\ Spawns(program[c][co[c].pc], h, e)
    BY <1>1 DEF ZdcTypeOK, CoroState, Here
  <2>2. ASSUME NEW f \in Coros, NEW i \in DOMAIN program[f]
        PROVE  i < co'[f].pc <=> i < co[f].pc \/ (f = c /\ i = co[c].pc)
    <3>1. i \in Nat /\ co[f].pc \in Nat
      BY DEF ZdcTypeOK, CoroState
    <3> QED
      BY <1>3, <3>1
  <2> TAKE g, d
  <2>3. WasSpawned(g, d) <=> \E f \in Coros : \E i \in DOMAIN program[f] :
                                i < co[f].pc /\ Spawns(program[f][i], g, d)
    BY Zenon DEF WasSpawned
  <2>4. WasSpawned(g, d)' <=> \E f \in Coros : \E i \in DOMAIN program[f] :
                                i < co'[f].pc /\ Spawns(program[f][i], g, d)
    BY <1>1 DEF WasSpawned
  <2>5. Spawns(program[c][co[c].pc], g, d) <=> g = h /\ d = e
    BY <2>1
  <2> HIDE DEF Spawns
  <2> QED
    BY <2>1, <2>2, <2>3, <2>4, <2>5
<1>8. \A d \in Coros : Brief(program, d)' = Brief(program, d)
  BY <1>1 DEF Brief
<1>9. \A d \in Coros : d # c => Here(d)' = Here(d) /\ \A op : WaitsAt(d, op)' = WaitsAt(d, op)
  BY <1>1, <1>3, StaysThere
<1>10. ASSUME NEW g \in Handles PROVE HandleOK(g)'
  <2>1. HandleOK(g) /\ handle[g].joiner \in Coros \cup {NULL}
    BY DEF SoleUseInv, SpawnsInv, ZdcTypeOK, HandleState
  <2>2. CASE g = h
    <3>1. \A d \in Coros : WasSpawned(h, d)' => d = e
      BY <1>2, <1>7
    <3>2. WasSpawned(h, e)'
      BY <1>7
    <3> QED
      BY <1>4, <1>5, <1>6, <2>2, <3>1, <3>2 DEF HandleOK
  <2>3. CASE g # h
    <3>1. handle[g].joiner # c
      BY <1>5, <2>1, NeedsOf DEF HandleOK, WaitsAt
    <3>2. \A d : WasSpawned(g, d)' <=> WasSpawned(g, d)
      BY <1>7, <2>3
    <3>3. \A d \in Coros : d # e /\ HasEnded(d) => HasEnded(d)'
      BY <1>1, <1>3, <1>6 DEF HasEnded
    <3> QED
      BY <1>2, <1>4, <1>6, <1>8, <1>9, <2>1, <2>3, <3>1, <3>2, <3>3 DEF HandleOK
  <2> QED
    BY <2>2, <2>3
<1>11. ASSUME NEW d \in Coros PROVE NotBefore(d)'
  <2>1. NotBefore(d) /\ IsSpawned(program, d)' = IsSpawned(program, d)
    BY <1>1 DEF SoleUseInv, SpawnsInv, IsSpawned
  <2> QED
    BY <1>2, <1>3, <1>5, <1>6, <1>7, <2>1 DEF NotBefore
<1>12. ASSUME NEW d \in Coros PROVE TurnOrListed(d)'
  <2>1. CASE d = c
    BY <1>3, <1>5, <1>6, <2>1 DEF TurnOrListed
  <2>2. CASE d = e
    BY <1>2, <1>3, <1>5, <1>6, <2>2 DEF TurnOrListed
  <2>3. CASE d # c /\ d # e
    <3>1. WaitsAt(d, "join") => Here(d).h \in Handles /\ Here(d).h # h
      BY <1>2, JoinOf DEF WaitsAt
    <3> QED
      BY <1>1, <1>3, <1>4, <1>6, <2>3, <3>1, TurnKept
  <2> QED
    BY <2>1, <2>2, <2>3
<1> QED
  BY <1>1, <1>3, <1>10, <1>11, <1>12, SoleKept DEF SpawnsInv

(* A coroutine that ends has no turn left, its handle is done and whoever  *)
(* joins it, w, is scheduled.                                              *)
LEMMA FinishDoes ==
    ASSUME ZdcTypeOK, SoleUsers(program), SoleUseInv, NEW c \in Coros, Finish(c)
    PROVE  \E w \in Coros \cup {NULL} :
              /\ w \in Coros => /\ WaitsAt(w, "join") /\ handle[Here(w).h].coro = c
                                /\ Here(w).h \in Handles
              /\ \A h \in Handles : IF handle[h].coro = c
                                    THEN handle[h].joiner = w /\ handle'[h] = spawn_done(handle[h])
                                    ELSE handle'[h] = handle[h]
              /\ ready' = zdc_coro_schedule(ready, w)
<1> DEFINE H == HandlesOf(c, handle)
           J(d) == {h \in H : handle[h].joiner = d}
<1>1. NULL \notin Coros /\ ready \in [Coros -> Nat]
  BY ZdcAssumption DEF ZdcTypeOK
<1>2. /\ ready' = [d \in Coros |-> ready[d] + Cardinality(J(d))]
      /\ handle' = [h \in Handles |-> IF h \in H THEN spawn_done(handle[h]) ELSE handle[h]]
  BY Zenon DEF Finish, _spawn_wrapper
<1>3. \A h \in Handles : h \in H <=> handle[h].coro = c
  BY DEF HandlesOf
<1>4. H \subseteq Handles
  BY DEF HandlesOf
<1>5. CASE H = {}
  <2>1. \A d : J(d) = {}
    BY <1>5
  <2>2. ready' = [d \in Coros |-> ready[d] + 0]
    BY <1>2, <2>1, FS_EmptySet, Zenon
  <2>3. ready' = zdc_coro_schedule(ready, NULL)
    BY <1>1, <2>2 DEF zdc_coro_schedule
  <2>4. \A h \in Handles : handle[h].coro # c /\ handle'[h] = handle[h]
    BY <1>2, <1>3, <1>5
  <2> QED
    BY <1>1, <2>3, <2>4
<1>6. CASE H # {}
  <2>1. PICK h \in Handles : h \in H
    BY <1>4, <1>6
  <2> DEFINE w == handle[h].joiner
  <2>2. handle[h].coro = c /\ HandleOK(h) /\ w \in Coros \cup {NULL}
    BY <1>3, <2>1 DEF SoleUseInv, SpawnsInv, ZdcTypeOK, HandleState
  <2>3. WasSpawned(h, c)
    BY <1>1, <2>2 DEF HandleOK
  <2>4. \A g \in Handles : g \in H => g = h
    <3> SUFFICES ASSUME NEW g \in Handles, g \in H PROVE g = h
      OBVIOUS
    <3>1. HandleOK(g) /\ handle[g].coro = c
      BY <1>3 DEF SoleUseInv, SpawnsInv
    <3>2. WasSpawned(g, c)
      BY <1>1, <3>1 DEF HandleOK
    <3> QED
      BY <2>3, <3>2, SpawnedOnce
  <2>5. J(w) = {h} /\ \A d : d # w => J(d) = {}
    BY <1>4, <2>1, <2>4
  <2>6. Cardinality({h}) = 1 /\ Cardinality({}) = 0
    BY FS_Singleton, FS_EmptySet, Zenon
  <2>7. w \in Coros => WaitsAt(w, "join") /\ Here(w).h = h
    BY <1>1, <2>2 DEF HandleOK
  <2>8. \A g \in Handles : IF handle[g].coro = c
                           THEN handle[g].joiner = w /\ handle'[g] = spawn_done(handle[g])
                           ELSE handle'[g] = handle[g]
    BY <1>2, <1>3, <2>4
  <2> HIDE DEF w, H, J
  <2>9. \A d \in Coros : Cardinality(J(d)) = IF d = w THEN 1 ELSE 0
    BY <2>5, <2>6
  <2>10. ready' = [d \in Coros |-> ready[d] + IF d = w THEN 1 ELSE 0]
    BY <1>2, <2>9
  <2>11. ready' = zdc_coro_schedule(ready, w)
    <3>1. CASE w \in Coros
      <4>1. zdc_coro_schedule(ready, w) = [ready EXCEPT ![w] = @ + 1]
        BY <1>1, <3>1 DEF zdc_coro_schedule
      <4>2. \A d \in Coros : ready'[d] = [ready EXCEPT ![w] = @ + 1][d]
        BY <1>1, <2>10, <3>1
      <4> QED
        BY <1>1, <2>10, <4>1, <4>2
    <3>2. CASE w = NULL
      <4>1. \A d \in Coros : ready'[d] = ready[d]
        BY <1>1, <2>10, <3>2
      <4> QED
        BY <1>1, <2>10, <3>2, <4>1 DEF zdc_coro_schedule
    <3> QED
      BY <2>2, <3>1, <3>2
  <2> QED
    BY <2>2, <2>7, <2>8, <2>11
<1> QED
  BY <1>5, <1>6

(* The end of a coroutine is what its joiner waits for. *)
LEMMA SoleFinish ==
    ASSUME ZdcTypeOK, SoleUsers(program), SoleUseInv, NEW c \in Coros, Finish(c)
    PROVE  SoleUseInv'
<1>1. /\ running = c /\ co[c].pc > Len(program[c]) /\ UNCHANGED <<program, queue, cpl, co>>
      /\ running' = NULL /\ NULL \notin Coros
  BY ZdcAssumption DEF Finish
<1>2. ready[c] = 0 /\ ~co[c].resumed /\ Turns(c) = 1
  <2>1. TurnOrListed(c) /\ co[c].pc \in Nat /\ Len(program[c]) \in Nat
    BY DEF SoleUseInv, ZdcTypeOK, CoroState
  <2> QED
    BY <1>1, <2>1, RunsReady DEF TurnOrListed, WaitsAt, Turns
<1>3. PICK w \in Coros \cup {NULL} :
          /\ w \in Coros => /\ WaitsAt(w, "join") /\ handle[Here(w).h].coro = c
                            /\ Here(w).h \in Handles
          /\ \A h \in Handles : IF handle[h].coro = c
                                THEN handle[h].joiner = w /\ handle'[h] = spawn_done(handle[h])
                                ELSE handle'[h] = handle[h]
          /\ ready' = zdc_coro_schedule(ready, w)
  BY FinishDoes
<1>4. w \in Coros => /\ co[w].resumed /\ co[w].pc <= Len(program[w]) /\ w # c
                     /\ TurnOrListed(w) /\ ~WaitOver(w) /\ Turns(w) = 0
  <2> SUFFICES ASSUME w \in Coros
               PROVE  /\ co[w].resumed /\ co[w].pc <= Len(program[w]) /\ w # c
                      /\ TurnOrListed(w) /\ ~WaitOver(w) /\ Turns(w) = 0
    OBVIOUS
  <2>1. /\ co[w].resumed /\ co[w].pc <= Len(program[w]) /\ Here(w).op = "join"
        /\ HandleOK(Here(w).h) /\ TurnOrListed(w)
    BY <1>3 DEF WaitsAt, SoleUseInv, SpawnsInv
  <2>2. ~handle[Here(w).h].done
    BY <1>1, <1>3, <2>1 DEF HandleOK
  <2>3. ~WaitOver(w)
    BY <2>1, <2>2, NeedsOf
  <2> QED
    BY <1>2, <2>1, <2>3 DEF TurnOrListed
<1>5. /\ Turns(c)' = 0 /\ ready'[c] = 0
      /\ w \in Coros => Turns(w)' = 1
      /\ \A d \in Coros : d # c /\ d # w => Turns(d)' = Turns(d) /\ ready'[d] = ready[d]
  BY <1>1, <1>2, <1>3, <1>4 DEF Turns, zdc_coro_schedule, ZdcTypeOK
<1>6. \A d : Here(d)' = Here(d) /\ \A op : WaitsAt(d, op)' = WaitsAt(d, op)
  BY <1>1 DEF Here, WaitsAt
<1>7. \A h, d : WasSpawned(h, d)' = WasSpawned(h, d)
  BY <1>1, SpawnsStay
<1>8. \A d \in Coros : Brief(program, d)' = Brief(program, d)
  BY <1>1 DEF Brief
<1>9. ASSUME NEW h \in Handles PROVE HandleOK(h)'
  <2>1. HandleOK(h)
    BY DEF SoleUseInv, SpawnsInv
  <2>2. CASE handle[h].coro = c
    <3>1. WasSpawned(h, c)
      BY <1>1, <2>1, <2>2 DEF HandleOK
    <3>2. \A d \in Coros : WasSpawned(h, d) => d = c
      BY <3>1, SpawnedOnce
    <3>3. HasEnded(c)'
      BY <1>1, <1>5 DEF HasEnded
    <3>4. handle'[h].coro = NULL /\ handle'[h].done /\ handle'[h].joiner = NULL
      BY <1>3, <2>2 DEF spawn_done
    <3> QED
      BY <1>7, <1>8, <3>2, <3>3, <3>4 DEF HandleOK
  <2>3. CASE handle[h].coro # c
    <3>1. handle'[h] = handle[h]
      BY <1>3, <2>3
    <3>2. ASSUME NEW d \in Coros, HasEnded(d) PROVE HasEnded(d)'
      <4>1. co[d].pc \in Nat /\ Len(program[d]) \in Nat
        BY DEF ZdcTypeOK, CoroState
      <4>2. d # c /\ d # w
        BY <1>1, <1>4, <3>2, <4>1 DEF HasEnded
      <4> QED
        BY <1>1, <1>5, <3>2, <4>2 DEF HasEnded
    <3>3. \A d \in Coros : d # c /\ Turns(d) = 1 => Turns(d)' = 1
      BY <1>5
    <3> QED
      BY <1>6, <1>7, <1>8, <2>1, <2>3, <3>1, <3>2, <3>3 DEF HandleOK
  <2> QED
    BY <2>2, <2>3
<1>10. ASSUME NEW d \in Coros PROVE NotBefore(d)'
  <2>1. NotBefore(d) /\ IsSpawned(program, d)' = IsSpawned(program, d)
    BY <1>1 DEF SoleUseInv, SpawnsInv, IsSpawned
  <2> QED
    BY <1>1, <1>2, <1>4, <1>5, <1>7, <2>1 DEF NotBefore
<1>11. ASSUME NEW d \in Coros PROVE TurnOrListed(d)'
  <2>1. CASE d = c
    BY <1>1, <1>2, <1>5, <2>1 DEF TurnOrListed
  <2>2. CASE d = w
    <3>1. Here(w)' = Here(w) /\ Here(w).op = "join" /\ handle'[Here(w).h].done
      BY <1>3, <1>6, <2>2 DEF spawn_done, WaitsAt
    <3>2. WaitOver(w)'
      BY <3>1, NeedsOfNext
    <3>3. TurnOrListed(w)'
      BY <1>1, <1>4, <1>5, <2>2, <3>2, IsWoken
    <3> QED
      BY <2>2, <3>3
  <2>3. CASE d # c /\ d # w
    <3>1. ASSUME WaitsAt(d, "join") PROVE handle'[Here(d).h] = handle[Here(d).h]
      <4>1. Here(d).op = "join" /\ co[d].resumed /\ co[d].pc <= Len(program[d])
        BY <3>1 DEF WaitsAt
      <4>2. Here(d).h \in Handles
        BY <4>1, JoinOf
      <4>3. HandleOK(Here(d).h) /\ TurnOrListed(d)
        BY <4>2 DEF SoleUseInv, SpawnsInv
      <4>4. handle[Here(d).h].coro # c
        <5>1. SUFFICES ASSUME handle[Here(d).h].coro = c PROVE handle[Here(d).h].joiner = d
          BY <1>3, <2>3, <4>2
        <5>2. ~handle[Here(d).h].done
          BY <1>1, <4>3, <5>1 DEF HandleOK
        <5>3. ~WaitOver(d)
          BY <4>1, <5>2, NeedsOf
        <5> QED
          BY <4>1, <4>3, <5>3 DEF TurnOrListed, IsListed, WaitsAt
      <4> QED
        BY <1>3, <4>2, <4>4
    <3> QED
      BY <1>1, <1>5, <2>3, <3>1, TurnKept
  <2> QED
    BY <2>1, <2>2, <2>3
<1> QED
  BY <1>1, <1>9, <1>10, <1>11, SoleKept DEF SpawnsInv

(* A step that leaves everything as it is but the place of the turns.      *)
LEMMA SoleSame ==
    ASSUME ZdcTypeOK, SoleUseInv, UNCHANGED <<program, queue, cpl, handle, co>>,
           \A d \in Coros : ready'[d] \in Nat /\ Turns(d)' = Turns(d)
    PROVE  SoleUseInv'
<1>1. \A d : Here(d)' = Here(d) /\ (\A op : WaitsAt(d, op)' = WaitsAt(d, op))
  BY DEF Here, WaitsAt
<1>2. ASSUME NEW d \in Coros PROVE TurnOrListed(d)'
  BY TurnKept
<1>3. \A r \in Queues :
        queue'[r].count \in 0 .. Depth /\ PutterListed(r)' /\ GetterListed(r)'
  BY <1>1 DEF SoleUseInv, PutterListed, GetterListed
<1>4. \A k \in Completions : AwaiterListed(k)'
  BY <1>1 DEF SoleUseInv, AwaiterListed
<1>5. /\ \A h, d : WasSpawned(h, d)' = WasSpawned(h, d)
      /\ \A d : Brief(program, d)' = Brief(program, d)
      /\ \A d : IsSpawned(program, d)' = IsSpawned(program, d)
  BY DEF WasSpawned, Brief, IsSpawned
<1>6. \A d \in Coros : HasEnded(d)' = HasEnded(d)
  BY DEF HasEnded, Turns, ZdcTypeOK
<1>7. \A h \in Handles : HandleOK(h)'
  BY <1>1, <1>5, <1>6 DEF SoleUseInv, SpawnsInv, HandleOK
<1>8. \A d \in Coros : NotBefore(d)'
  BY <1>5 DEF SoleUseInv, SpawnsInv, NotBefore
<1> QED
  BY <1>2, <1>3, <1>4, <1>7, <1>8 DEF SoleUseInv, SpawnsInv

(* A turn that is taken is still a turn. *)
LEMMA SoleDispatch ==
    ASSUME ZdcTypeOK, SoleUseInv, NEW c \in Coros, Dispatch(c)
    PROVE  SoleUseInv'
<1>1. /\ running = NULL /\ running' = c /\ NULL \notin Coros
      /\ ready \in [Coros -> Nat] /\ ready[c] > 0
      /\ ready' = [ready EXCEPT ![c] = @ - 1] /\ UNCHANGED <<program, queue, cpl, handle, co>>
  BY ZdcAssumption DEF Dispatch, ZdcTypeOK
<1>2. \A d \in Coros : ready'[d] \in Nat /\ Turns(d)' = Turns(d)
  BY <1>1 DEF Turns
<1> QED
  BY <1>1, <1>2, SoleSame

(* At first nobody waits, and everybody who is not spawned is scheduled once. *)
LEMMA SoleInit == Init /\ SoleUsers(program) => SoleUseInv
<1> SUFFICES ASSUME Init, SoleUsers(program) PROVE SoleUseInv
  OBVIOUS
<1>1. \A c \in Coros : /\ ready[c] \in {0, 1} /\ ~co[c].resumed /\ co[c].pc = 1
                       /\ Turns(c) = ready[c] /\ (IsSpawned(program, c) => ready[c] = 0)
  BY ZdcAssumption DEF Init, Turns
<1>2. \A q \in Queues : queue[q].count = 0 /\ queue[q].putWaiters = <<>>
                      /\ queue[q].getWaiters = <<>>
  BY DEF Init, ZDC_QUEUE_INIT
<1>3. \A k \in Completions : cpl[k].waiter = NULL
  BY DEF Init, zdc_completion_init
<1>4. \A h, d : ~WasSpawned(h, d)
  <2>1. program \in [Coros -> Seq(Op)]
    BY InitTypes DEF ZdcTypeOK
  <2>2. \A e \in Coros : \A i \in DOMAIN program[e] : ~(i < co[e].pc)
    BY <1>1, <2>1
  <2> QED
    BY <2>2, Zenon DEF WasSpawned
<1>5. \A h \in Handles : HandleOK(h)
  BY <1>4 DEF Init, NoHandle, HandleOK
<1>6. \A d \in Coros : NotBefore(d) /\ TurnOrListed(d)
  BY <1>1 DEF NotBefore, TurnOrListed
<1> QED
  BY <1>2, <1>3, <1>5, <1>6, ZdcAssumption
     DEF SoleUseInv, SpawnsInv, PutterListed, GetterListed, AwaiterListed

(* Every step keeps the invariant. *)
LEMMA SoleNext ==
    ASSUME ZdcTypeOK, SoleUsers(program), SoleUseInv, [Next]_vars
    PROVE  SoleUsers(program)' /\ SoleUseInv'
<1>1. program' = program
  BY DEF vars, Next, Dispatch, Finish, ZDC_QUEUE_PUT, ZDC_QUEUE_GET, SetCompletion,
         ZDC_COMPLETION_AWAIT, zdc_spawn, ZDC_SPAWN_JOIN, ZDC_SELECT_WAIT
<1>2. SoleUsers(program)'
  BY <1>1
<1>3. CASE UNCHANGED vars
  BY <1>3, SoleSame DEF vars, Turns, ZdcTypeOK
<1>4. ASSUME NEW c \in Coros, ZDC_QUEUE_PUT(c) PROVE SoleUseInv'
  BY <1>4, SolePutWaits, SolePutGoesOn DEF ZDC_QUEUE_PUT
<1>5. ASSUME NEW c \in Coros, ZDC_QUEUE_GET(c) PROVE SoleUseInv'
  BY <1>5, SoleGetWaits, SoleGetGoesOn DEF ZDC_QUEUE_GET
<1>6. ASSUME NEW c \in Coros, ZDC_COMPLETION_AWAIT(c) PROVE SoleUseInv'
  BY <1>6, SoleAwaitWaits, SoleAwaitGoesOn DEF ZDC_COMPLETION_AWAIT
<1>7. ASSUME NEW c \in Coros, ZDC_SPAWN_JOIN(c) PROVE SoleUseInv'
  BY <1>7, SoleJoinWaits, SoleJoinGoesOn DEF ZDC_SPAWN_JOIN
<1>8. ASSUME NEW c \in Coros, ZDC_SELECT_WAIT(c) PROVE FALSE
  <2>1. co[c].pc <= Len(program[c]) /\ Here(c).op = "select"
    BY <1>8 DEF ZDC_SELECT_WAIT, At
  <2> QED
    BY <2>1, SoleOp
<1> QED
  BY <1>2, <1>3, <1>4, <1>5, <1>6, <1>7, <1>8, SoleDispatch, SoleFinish, SoleSet, SoleSpawn
     DEF Next

(* The invariant holds throughout, for the programs it is about. *)
LEMMA SoleUseHolds == Spec => [](SoleUsers(program) => SoleUseInv)
<1>1. ZdcTypeOK /\ (SoleUsers(program) => SoleUseInv) /\ [Next]_vars
        => (SoleUsers(program) => SoleUseInv)'
  <2>1. [Next]_vars => program' = program
    BY DEF vars, Next, Dispatch, Finish, ZDC_QUEUE_PUT, ZDC_QUEUE_GET, SetCompletion,
           ZDC_COMPLETION_AWAIT, zdc_spawn, ZDC_SPAWN_JOIN, ZDC_SELECT_WAIT
  <2>2. program' = program => SoleUsers(program)' = SoleUsers(program)
    OBVIOUS
  <2> QED
    BY <2>1, <2>2, SoleNext
<1> QED
  BY <1>1, SoleInit, ZdcTypesHold, PTL DEF Spec

(* Where every queue has one putter and one getter, every token one awaiter *)
(* and every handle one spawn, a put that waited finds a free slot, a get  *)
(* an item, an await its result and a join the coroutine ended, although   *)
(* none of the macros looks again.                                         *)
THEOREM SoleUsersFindWhatTheyAwait ==
    Spec => [](SoleUsers(program) => ResumedFindsWhatItAwaited)
<1>1. ZdcTypeOK /\ SoleUsers(program) /\ SoleUseInv => ResumedFindsWhatItAwaited
  BY RunsReady, WaitOverIs DEF ResumedFindsWhatItAwaited
<1> QED
  BY <1>1, SoleUseHolds, ZdcTypesHold, PTL

(* There no wakeup is lost and none comes twice: a suspended coroutine is  *)
(* scheduled once when its wait is over, and not before.                   *)
THEOREM SoleUsersAreScheduledOnce ==
    Spec => [](SoleUsers(program) => ScheduledIffReady)
<1>1. ZdcTypeOK /\ SoleUsers(program) /\ SoleUseInv => ScheduledIffReady
  <2> SUFFICES ASSUME ZdcTypeOK, SoleUsers(program), SoleUseInv,
                      NEW c \in Coros, Suspended(c)
               PROVE  ready[c] = IF MayGoOn(c) THEN 1 ELSE 0
    BY DEF ScheduledIffReady
  <2>1. TurnOrListed(c) /\ co[c].resumed /\ running # c /\ ready[c] \in Nat
    BY DEF SoleUseInv, Suspended, ZdcTypeOK
  <2>2. MayGoOn(c) <=> WaitOver(c)
    BY <2>1, WaitOverIs
  <2> QED
    BY <2>1, <2>2 DEF TurnOrListed, Turns
<1> QED
  BY <1>1, SoleUseHolds, ZdcTypesHold, PTL
-----------------------------------------------------------------------------
(* Queues as FIFO queues.  A step puts into a queue that has space, and    *)
(* gets from one that has items, if resumed coroutines find what they      *)
(* waited for: then it is a step of a FIFO queue.  This is so for all      *)
(* programs.                                                               *)

(* The refinement of ZdcRefinement for any queue. *)
Results(x) == [c \in Coros |-> got[c][x]]

Fifo(x) == INSTANCE BoundedFifo WITH
    Thread <- Coros, Item <- Items, capacity <- Depth,
    queue <- Contents(x), request <- Request(x), result <- Results(x)

(* The tail of a ring is where its items end. *)
Ring(q) == q.count \in 0 .. Depth /\ q.tail = (q.head + q.count) % Depth

ContentsOf(q) == [i \in 1 .. q.count |-> q.buf[(q.head + i - 1) % Depth]]

RingInv ==
    /\ program \in Programs
    /\ \A x \in Queues : Ring(queue[x])
    /\ got \in [Coros -> [Queues \cup Completions -> Item]]

(* Counting up in a ring of n entries. *)
LEMMA RingArithmetic ==
    ASSUME NEW n \in Nat, n > 0, NEW h \in 0 .. n - 1
    PROVE  /\ \A i \in 0 .. n : (h + i) % n \in 0 .. n - 1
           /\ \A i, j \in 0 .. n - 1 : (h + i) % n = (h + j) % n => i = j
           /\ \A i \in 0 .. n - 1 :
                 /\ (((h + i) % n) + 1) % n = (h + (i + 1)) % n
                 /\ (((h + 1) % n) + i) % n = (h + (i + 1)) % n
<1>1. \A a \in 0 .. n - 1 : a % n = a
  OBVIOUS
<1>2. \A a \in n .. 2 * n - 1 : a % n = a - n
  OBVIOUS
<1>3. \A a \in 0 .. n - 1 : \A i \in 0 .. n :
         (a + i) % n = IF a + i < n THEN a + i ELSE a + i - n
  BY <1>1, <1>2
<1>4. ASSUME NEW i \in 0 .. n PROVE (h + i) % n \in 0 .. n - 1
  <2>1. (h + i) % n = IF h + i < n THEN h + i ELSE h + i - n
    BY <1>3
  <2> QED
    BY <2>1
<1>5. ASSUME NEW i \in 0 .. n - 1, NEW j \in 0 .. n - 1, (h + i) % n = (h + j) % n
      PROVE  i = j
  <2>1. /\ (h + i) % n = IF h + i < n THEN h + i ELSE h + i - n
        /\ (h + j) % n = IF h + j < n THEN h + j ELSE h + j - n
    BY <1>3
  <2> QED
    BY <2>1, <1>5
<1>6. ASSUME NEW i \in 0 .. n - 1
      PROVE  /\ (((h + i) % n) + 1) % n = (h + (i + 1)) % n
             /\ (((h + 1) % n) + i) % n = (h + (i + 1)) % n
  <2> DEFINE a == (h + i) % n
             b == (h + 1) % n
  <2>1. a = (IF h + i < n THEN h + i ELSE h + i - n) /\ a \in 0 .. n - 1
    BY <1>3, <1>4
  <2>2. b = (IF h + 1 < n THEN h + 1 ELSE h + 1 - n) /\ b \in 0 .. n - 1
    BY <1>3, <1>4
  <2>3. (h + (i + 1)) % n = IF h + (i + 1) < n THEN h + (i + 1) ELSE h + (i + 1) - n
    BY <1>3
  <2> HIDE DEF a, b
  <2>4. (a + 1) % n = IF a + 1 < n THEN a + 1 ELSE a + 1 - n
    BY <2>1, <1>3
  <2>5. (b + i) % n = IF b + i < n THEN b + i ELSE b + i - n
    BY <2>2, <1>3
  <2>6. (a + 1) % n = (h + (i + 1)) % n
    BY <2>1, <2>3, <2>4
  <2>7. (b + i) % n = (h + (i + 1)) % n
    BY <2>2, <2>3, <2>5
  <2> QED
    BY <2>6, <2>7 DEF a, b
<1> QED
  BY <1>4, <1>5, <1>6

(* The places of the items of a ring. *)
LEMMA PlacesAre ==
    ASSUME NEW q \in QueueState, Ring(q)
    PROVE  /\ \A i \in 0 .. Depth : (q.head + i) % Depth \in 0 .. Depth - 1
           /\ \A i, j \in 0 .. Depth - 1 :
                 (q.head + i) % Depth = (q.head + j) % Depth => i = j
           /\ \A i \in 0 .. Depth - 1 :
                 /\ (((q.head + i) % Depth) + 1) % Depth = (q.head + (i + 1)) % Depth
                 /\ (((q.head + 1) % Depth) + i) % Depth = (q.head + (i + 1)) % Depth
<1>1. Depth \in Nat /\ Depth > 0 /\ q.head \in 0 .. Depth - 1
  BY ZdcAssumption, QueueFields
<1> QED
  BY <1>1, RingArithmetic, Zenon

(* The items of a ring form a sequence. *)
LEMMA ContentsAre ==
    ASSUME NEW q \in QueueState, Ring(q)
    PROVE  /\ ContentsOf(q) \in Seq(Item) /\ Len(ContentsOf(q)) = q.count
           /\ \A i \in 1 .. q.count :
                 ContentsOf(q)[i] = q.buf[(q.head + (i - 1)) % Depth]
<1>1. /\ Depth \in Nat \ {0} /\ q.head \in Int /\ q.count \in Nat /\ q.count <= Depth
      /\ q.buf \in [0 .. Depth - 1 -> Item]
  BY ZdcAssumption, QueueFields DEF Ring
<1>2. \A i \in 1 .. q.count : q.head + i - 1 = q.head + (i - 1) /\ i - 1 \in 0 .. Depth
  BY <1>1
<1>3. \A i \in 1 .. q.count : ContentsOf(q)[i] = q.buf[(q.head + (i - 1)) % Depth]
  BY <1>1, <1>2 DEF ContentsOf
<1>4. \A i \in 1 .. q.count : (q.head + (i - 1)) % Depth \in 0 .. Depth - 1
  BY <1>2, PlacesAre
<1>5. ContentsOf(q) \in [1 .. q.count -> Item]
  <2>1. ContentsOf(q) = [i \in 1 .. q.count |-> ContentsOf(q)[i]]
    BY DEF ContentsOf
  <2>2. \A i \in 1 .. q.count : ContentsOf(q)[i] \in Item
    BY <1>1, <1>3, <1>4
  <2> QED
    BY <2>1, <2>2
<1>6. ContentsOf(q) \in Seq(Item) /\ Len(ContentsOf(q)) = q.count
  BY <1>1, <1>5
<1> QED
  BY <1>3, <1>6

(* What is put into a queue that has space comes after what is inside. *)
LEMMA PutAppends ==
    ASSUME NEW q \in QueueState, Ring(q), q.count < Depth, NEW v \in Item
    PROVE  /\ Ring(zdc_queue_put_nowait(q, v))
           /\ ContentsOf(zdc_queue_put_nowait(q, v)) = Append(ContentsOf(q), v)
<1> PICK r : r = zdc_queue_put_nowait(q, v)
  OBVIOUS
<1>1. /\ Depth \in Nat \ {0} /\ q.count \in 0 .. Depth - 1 /\ q.tail \in 0 .. Depth - 1
      /\ q.tail = (q.head + q.count) % Depth /\ q.buf \in [0 .. Depth - 1 -> Item]
  BY ZdcAssumption, QueueFields DEF Ring
<1>2. /\ r \in QueueState /\ r.buf = [q.buf EXCEPT ![q.tail] = v]
      /\ r.head = q.head /\ r.tail = (q.tail + 1) % Depth /\ r.count = q.count + 1
  BY PutFields
<1>3. Ring(r)
  <2>1. (((q.head + q.count) % Depth) + 1) % Depth = (q.head + (q.count + 1)) % Depth
    BY <1>1, PlacesAre
  <2>2. r.tail = (q.head + (q.count + 1)) % Depth
    BY <1>1, <1>2, <2>1
  <2> QED
    BY <1>1, <1>2, <2>2 DEF Ring
<1> DEFINE s == ContentsOf(q)
           t == ContentsOf(r)
           a == Append(s, v)
<1>4. /\ s \in Seq(Item) /\ Len(s) = q.count
      /\ \A i \in 1 .. q.count : s[i] = q.buf[(q.head + (i - 1)) % Depth]
  BY ContentsAre
<1>5. /\ t \in Seq(Item) /\ Len(t) = q.count + 1
      /\ \A i \in 1 .. q.count + 1 : t[i] = r.buf[(q.head + (i - 1)) % Depth]
  BY <1>2, <1>3, ContentsAre
<1> HIDE DEF s, t
<1>6. /\ a \in Seq(Item) /\ Len(a) = q.count + 1
      /\ \A i \in 1 .. q.count + 1 : a[i] = IF i = q.count + 1 THEN v ELSE s[i]
  BY <1>1, <1>4
<1> HIDE DEF a
<1>7. ASSUME NEW i \in 1 .. q.count + 1 PROVE t[i] = a[i]
  <2>1. CASE i = q.count + 1
    <3>1. (q.head + (i - 1)) % Depth = q.tail
      BY <1>1, <2>1
    <3> QED
      BY <1>1, <1>2, <1>5, <1>6, <2>1, <3>1
  <2>2. CASE i # q.count + 1
    <3>1. i \in 1 .. q.count /\ i - 1 \in 0 .. Depth - 1 /\ i - 1 # q.count /\ i - 1 \in 0 .. Depth
      BY <1>1, <2>2
    <3>2. (q.head + (i - 1)) % Depth \in 0 .. Depth - 1
      BY <3>1, PlacesAre
    <3>3. (q.head + (i - 1)) % Depth # (q.head + q.count) % Depth
      BY <1>1, <3>1, PlacesAre, Zenon
    <3>4. r.buf[(q.head + (i - 1)) % Depth] = q.buf[(q.head + (i - 1)) % Depth]
      BY <1>1, <1>2, <3>2, <3>3
    <3> QED
      BY <1>4, <1>5, <1>6, <2>2, <3>1, <3>4
  <2> QED
    BY <2>1, <2>2
<1>8. t = a
  BY <1>5, <1>6, <1>7, SeqEqual
<1> QED
  BY <1>3, <1>8 DEF s, t, a

(* What is got from a queue that has items came first. *)
LEMMA GetTakesHead ==
    ASSUME NEW q \in QueueState, Ring(q), q.count # 0
    PROVE  /\ Ring(zdc_queue_get_nowait(q))
           /\ ContentsOf(q) # <<>>
           /\ Head(ContentsOf(q)) = q.buf[q.head]
           /\ ContentsOf(zdc_queue_get_nowait(q)) = Tail(ContentsOf(q))
<1> PICK r : r = zdc_queue_get_nowait(q)
  OBVIOUS
<1>1. /\ Depth \in Nat \ {0} /\ q.count \in 1 .. Depth /\ q.head \in 0 .. Depth - 1
      /\ q.count - 1 \in 0 .. Depth - 1 /\ (q.count - 1) + 1 = q.count
      /\ q.tail = (q.head + q.count) % Depth
  BY ZdcAssumption, QueueFields DEF Ring
<1>2. /\ r \in QueueState /\ r.buf = q.buf
      /\ r.head = (q.head + 1) % Depth /\ r.tail = q.tail /\ r.count = q.count - 1
  BY GetFields
<1>3. Ring(r)
  <2>1. (((q.head + 1) % Depth) + (q.count - 1)) % Depth = (q.head + q.count) % Depth
    BY <1>1, PlacesAre
  <2> QED
    BY <1>1, <1>2, <2>1 DEF Ring
<1> DEFINE s == ContentsOf(q)
           t == ContentsOf(r)
           a == Tail(s)
<1>4. /\ s \in Seq(Item) /\ Len(s) = q.count
      /\ \A i \in 1 .. q.count : s[i] = q.buf[(q.head + (i - 1)) % Depth]
  BY ContentsAre
<1>5. /\ t \in Seq(Item) /\ Len(t) = q.count - 1
      /\ \A i \in 1 .. q.count - 1 :
            t[i] = q.buf[(((q.head + 1) % Depth) + (i - 1)) % Depth]
  BY <1>2, <1>3, ContentsAre
<1> HIDE DEF s, t
<1>6. /\ a \in Seq(Item) /\ Len(a) = q.count - 1
      /\ \A i \in 1 .. q.count - 1 : a[i] = s[i + 1]
  BY <1>1, <1>4
<1> HIDE DEF a
<1>7. ASSUME NEW i \in 1 .. q.count - 1 PROVE t[i] = a[i]
  <2>1. i - 1 \in 0 .. Depth - 1 /\ i + 1 \in 1 .. q.count /\ (i - 1) + 1 = (i + 1) - 1
    BY <1>1
  <2>2. (((q.head + 1) % Depth) + (i - 1)) % Depth = (q.head + ((i - 1) + 1)) % Depth
    BY <2>1, PlacesAre
  <2> QED
    BY <1>4, <1>5, <1>6, <2>1, <2>2
<1>8. t = a
  BY <1>5, <1>6, <1>7, SeqEqual
<1>9. s # <<>> /\ Head(s) = q.buf[q.head]
  <2>1. q.head + (1 - 1) = q.head /\ q.head % Depth = q.head /\ 1 \in 1 .. q.count
    BY <1>1
  <2>2. s[1] = q.buf[q.head]
    BY <1>4, <2>1
  <2>3. s # <<>>
    BY <1>1, <1>4
  <2> QED
    BY <1>4, <2>2, <2>3
<1> QED
  BY <1>3, <1>8, <1>9 DEF s, t, a

(* What a coroutine that is stopped, or would stop, asks of a queue. *)
NoRequest == [kind |-> "none"]

Asks(c, x) ==
    IF Here(c).op \notin {"put", "get"} \/ Here(c).q # x THEN NoRequest
    ELSE IF Here(c).op = "get" THEN [kind |-> "get"]
    ELSE [kind |-> "put", data |-> <<c, co[c].pc>>]

(* The request of a coroutine is one of the three. *)
LEMMA RequestIs ==
    ASSUME NEW x, NEW c \in Coros
    PROVE  Request(x)[c] = IF co[c].resumed THEN Asks(c, x) ELSE NoRequest
BY DEF Request, Asks, NoRequest

(* The requests of the coroutines that do not move stay. *)
LEMMA RequestStays ==
    ASSUME NEW x, NEW d \in Coros, program' = program, co'[d] = co[d]
    PROVE  Request(x)'[d] = Request(x)[d]
BY DEF Request, Here

(* The requests after a step that moves one coroutine only. *)
LEMMA RequestsBecome ==
    ASSUME NEW x, NEW c \in Coros, program' = program,
           \A d \in Coros : d # c => co'[d] = co[d],
           NEW r, Request(x)'[c] = r
    PROVE  Request(x)' = [Request(x) EXCEPT ![c] = r]
<1> DEFINE f == Request(x)
           g == Request(x)'
<1>1. f = [d \in Coros |-> f[d]] /\ g = [d \in Coros |-> g[d]]
  BY DEF Request
<1>2. \A d \in Coros : d # c => g[d] = f[d]
  BY RequestStays
<1> HIDE DEF f, g
<1>3. g = [f EXCEPT ![c] = r]
  <2>1. g[c] = r
    BY DEF g
  <2> QED
    BY <1>1, <1>2, <2>1
<1> QED
  BY <1>3 DEF f, g

(* A coroutine that goes on asks for nothing any more. *)
LEMMA GoOnAnswers ==
    ASSUME ZdcTypeOK, NEW c \in Coros, GoOn(c), program' = program, NEW x
    PROVE  Request(x)' = [Request(x) EXCEPT ![c] = NoRequest]
<1>1. ~co'[c].resumed /\ \A d \in Coros : d # c => co'[d] = co[d]
  BY GoOnTypes
<1>2. Request(x)'[c] = NoRequest
  BY <1>1 DEF Request, NoRequest
<1> QED
  BY <1>1, <1>2, RequestsBecome

(* A coroutine that suspends asks for what it stopped at. *)
LEMMA SuspendAsks ==
    ASSUME ZdcTypeOK, NEW c \in Coros, NEW hs, Suspend(c, hs), program' = program, NEW x
    PROVE  Request(x)' = [Request(x) EXCEPT ![c] = Asks(c, x)]
<1>1. /\ co'[c].resumed /\ co'[c].pc = co[c].pc
      /\ \A d \in Coros : d # c => co'[d] = co[d]
  BY DEF Suspend, ZdcTypeOK, CoroState
<1>2. Request(x)'[c] = Asks(c, x)
  <2>1. Here(c)' = Here(c)
    BY <1>1 DEF Here
  <2> QED
    BY <1>1, <2>1 DEF Request, Asks, NoRequest
<1> QED
  BY <1>1, <1>2, RequestsBecome

(* What leaves requests alone: an answer to nobody, and no request. *)
LEMMA SameRequests ==
    ASSUME NEW x, NEW c \in Coros, Request(x)[c] = NoRequest
    PROVE  [Request(x) EXCEPT ![c] = NoRequest] = Request(x)
<1>1. Request(x) = [d \in Coros |-> Request(x)[d]]
  BY DEF Request
<1> QED
  BY <1>1

-----------------------------------------------------------------------------
(* The steps of the coroutines. *)

FifoStep(x) == [Fifo(x)!Next]_(Fifo(x)!vars)

Quiet(x) ==
    /\ SameRing(queue[x], queue'[x])
    /\ Request(x)' = Request(x)
    /\ Results(x)' = Results(x)

(* A step that leaves the items and the requests of a queue alone.         *)
LEMMA QuietStep ==
    ASSUME NEW x \in Queues, Quiet(x)
    PROVE  FifoStep(x) /\ (Ring(queue[x]) => Ring(queue'[x]))
<1>1. Contents(x)' = Contents(x)
  BY DEF Quiet, SameRing, Contents
<1> QED
  BY <1>1 DEF Quiet, SameRing, Ring, FifoStep, Fifo!vars

(* The results that a step leaves alone. *)
LEMMA SameResults ==
    ASSUME NEW x, got' = got PROVE Results(x)' = Results(x)
BY DEF Results

(* What a coroutine puts is one of the items. *)
LEMMA ItemIsListed ==
    ASSUME ZdcTypeOK, RingInv, NEW c \in Coros, NEW op, At(c, op)
    PROVE  <<c, co[c].pc>> \in Items
<1>1. co[c].pc \in DOMAIN program[c] /\ program \in Programs
  BY DEF ZdcTypeOK, CoroState, RingInv, At
<1> QED
  BY <1>1 DEF Items

(* A put that waits. *)
LEMMA PutWaitsStep ==
    ASSUME ZdcTypeOK, RingInv, NEW c \in Coros, At(c, "put"),
           PutWaits(c, Here(c).q), program' = program, NEW x \in Queues
    PROVE  FifoStep(x) /\ Ring(queue'[x])
<1>1. Here(c) \in Op /\ Here(c).op = "put" /\ Here(c).q \in Queues
  BY HereIsOp, Operands
<1> PICK q \in Queues : q = Here(c).q
  BY <1>1
<1>2. /\ ~co[c].resumed /\ queue[q].count >= Depth /\ Suspend(c, handle)
      /\ queue' = [queue EXCEPT ![q].putWaiters = Append(@, c)] /\ got' = got
  BY DEF PutWaits, zdc_queue_full, Suspend
<1>3. SameRing(queue[x], queue'[x])
  BY <1>2 DEF ZdcTypeOK, QueueState, SameRing
<1>4. Request(x)[c] = NoRequest
  BY <1>2, RequestIs
<1>5. Request(x)' = [Request(x) EXCEPT ![c] = Asks(c, x)]
  BY <1>2, SuspendAsks
<1>6. CASE x # q
  BY <1>1, <1>2, <1>3, <1>4, <1>5, <1>6, SameRequests, SameResults, QuietStep
     DEF Asks, Quiet, RingInv
<1>7. CASE x = q
  <2>1. Contents(x)' = Contents(x)
    BY <1>3 DEF SameRing, Contents
  <2>2. Len(Contents(x)) = Depth
    <3>1. Len(Contents(x)) = queue[x].count
      BY ContentsAre DEF Contents, ContentsOf, ZdcTypeOK, RingInv
    <3>2. queue[x].count = Depth
      BY <1>2, <1>7, ZdcAssumption DEF RingInv, Ring
    <3> QED
      BY <3>1, <3>2
  <2>3. <<c, co[c].pc>> \in Items /\ Asks(c, x) = [kind |-> "put", data |-> <<c, co[c].pc>>]
    BY <1>1, <1>7, ItemIsListed DEF Asks
  <2>4. Fifo(x)!PutLater(c)
    BY <1>2, <1>4, <1>5, <2>1, <2>2, <2>3, SameResults
       DEF Fifo!PutLater, Fifo!Ask, Fifo!None, Fifo!Put, NoRequest
  <2> QED
    BY <1>3, <2>4 DEF FifoStep, Fifo!Next, SameRing, RingInv, Ring
<1> QED
  BY <1>6, <1>7

(* A put that goes on, at once or when it is resumed. *)
LEMMA PutGoesOnStep ==
    ASSUME ZdcTypeOK, RingInv, ResumedFindsWhatItAwaited, NEW c \in Coros, At(c, "put"),
           PutGoesOn(c, Here(c).q), program' = program, NEW x \in Queues
    PROVE  FifoStep(x) /\ Ring(queue'[x])
<1>1. /\ Here(c) \in Op /\ Here(c).op = "put" /\ Here(c).q \in Queues
      /\ <<c, co[c].pc>> \in Item /\ <<c, co[c].pc>> \in Items
  BY HereIsOp, Operands, ItemIsListed
<1> PICK q \in Queues : q = Here(c).q
  BY <1>1
<1> PICK v \in Items : v = <<c, co[c].pc>>
  BY <1>1
<1>2. /\ co[c].resumed \/ ~(queue[q].count >= Depth)
      /\ queue' = [queue EXCEPT ![q] = zdc_queue_put_nowait(queue[q], v)]
      /\ GoOn(c) /\ got' = got
  BY DEF PutGoesOn, zdc_queue_full
<1>3. queue[q].count < Depth
  <2>1. co[c].resumed => MayGoOn(c)
    BY DEF ResumedFindsWhatItAwaited, At
  <2>2. ~(queue[q].count >= Depth)
    BY <1>1, <1>2, <2>1, MayGoOnIs
  <2> QED
    BY <2>2, ZdcAssumption DEF RingInv, Ring
<1>4. Request(x)' = [Request(x) EXCEPT ![c] = NoRequest]
  BY <1>2, GoOnAnswers
<1>5. Request(x)[c] = IF co[c].resumed THEN Asks(c, x) ELSE NoRequest
  BY RequestIs
<1>6. CASE x # q
  <2>1. queue'[x] = queue[x]
    BY <1>2, <1>6 DEF ZdcTypeOK
  <2>2. Request(x)[c] = NoRequest
    BY <1>1, <1>5, <1>6 DEF Asks
  <2> QED
    BY <1>2, <1>4, <2>1, <2>2, SameRequests, SameResults, QuietStep DEF Quiet, SameRing, RingInv
<1>7. CASE x = q
  <2>1. queue[q] \in QueueState /\ Ring(queue[q]) /\ v \in Item
        /\ queue'[q] = zdc_queue_put_nowait(queue[q], v)
    BY <1>1, <1>2 DEF ZdcTypeOK, RingInv
  <2>2. /\ Ring(queue'[q])
        /\ ContentsOf(queue'[q]) = Append(ContentsOf(queue[q]), v)
        /\ Len(ContentsOf(queue[q])) < Depth
    BY <1>3, <2>1, PutAppends, ContentsAre
  <2>3. Contents(x) = ContentsOf(queue[q]) /\ Contents(x)' = ContentsOf(queue'[q])
    BY <1>7 DEF Contents, ContentsOf
  <2>4. Fifo(x)!Enqueue(v)
    BY <2>2, <2>3 DEF Fifo!Enqueue
  <2>5. Results(x)' = Results(x)
    BY <1>2, SameResults
  <2>6. CASE co[c].resumed
    <3>1. Request(x)[c] = [kind |-> "put", data |-> v]
      BY <1>1, <1>5, <1>7, <2>6 DEF Asks
    <3>2. Fifo(x)!PutNow(c)
      BY <1>4, <2>4, <2>5, <3>1 DEF Fifo!PutNow, Fifo!Answered, Fifo!None, NoRequest
    <3> QED
      BY <1>7, <2>2, <3>2 DEF FifoStep, Fifo!Next
  <2>7. CASE ~co[c].resumed
    <3>1. Request(x)' = Request(x)
      BY <1>4, <1>5, <2>7, SameRequests
    <3>2. Fifo(x)!PutAtOnce
      BY <2>4, <2>5, <3>1 DEF Fifo!PutAtOnce
    <3> QED
      BY <1>7, <2>2, <3>2 DEF FifoStep, Fifo!Next
  <2> QED
    BY <2>6, <2>7
<1> QED
  BY <1>6, <1>7

(* A get that waits. *)
LEMMA GetWaitsStep ==
    ASSUME ZdcTypeOK, RingInv, NEW c \in Coros, At(c, "get"),
           GetWaits(c, Here(c).q), program' = program, NEW x \in Queues
    PROVE  FifoStep(x) /\ Ring(queue'[x])
<1>1. Here(c) \in Op /\ Here(c).op = "get" /\ Here(c).q \in Queues
  BY HereIsOp, Operands
<1> PICK q \in Queues : q = Here(c).q
  BY <1>1
<1>2. /\ ~co[c].resumed /\ queue[q].count = 0 /\ Suspend(c, handle)
      /\ queue' = [queue EXCEPT ![q].getWaiters = Append(@, c)] /\ got' = got
  BY DEF GetWaits, zdc_queue_empty, Suspend
<1>3. SameRing(queue[x], queue'[x])
  BY <1>2 DEF ZdcTypeOK, QueueState, SameRing
<1>4. Request(x)[c] = NoRequest
  BY <1>2, RequestIs
<1>5. Request(x)' = [Request(x) EXCEPT ![c] = Asks(c, x)]
  BY <1>2, SuspendAsks
<1>6. CASE x # q
  BY <1>1, <1>2, <1>3, <1>4, <1>5, <1>6, SameRequests, SameResults, QuietStep
     DEF Asks, Quiet, RingInv
<1>7. CASE x = q
  <2>1. Contents(x)' = Contents(x)
    BY <1>3 DEF SameRing, Contents
  <2>2. Contents(x) = <<>>
    <3>1. Contents(x) \in Seq(Item) /\ Len(Contents(x)) = 0
      BY <1>2, <1>7, ContentsAre DEF Contents, ContentsOf, ZdcTypeOK, RingInv
    <3> QED
      BY <3>1
  <2>3. Asks(c, x) = [kind |-> "get"]
    BY <1>1, <1>7 DEF Asks
  <2>4. Fifo(x)!GetLater(c)
    BY <1>2, <1>4, <1>5, <2>1, <2>2, <2>3, SameResults
       DEF Fifo!GetLater, Fifo!Ask, Fifo!None, Fifo!Get, NoRequest
  <2> QED
    BY <1>3, <2>4 DEF FifoStep, Fifo!Next, SameRing, RingInv, Ring
<1> QED
  BY <1>6, <1>7

(* A get that goes on, at once or when it is resumed. *)
LEMMA GetGoesOnStep ==
    ASSUME ZdcTypeOK, RingInv, ResumedFindsWhatItAwaited, NEW c \in Coros, At(c, "get"),
           GetGoesOn(c, Here(c).q), program' = program, NEW x \in Queues
    PROVE  FifoStep(x) /\ Ring(queue'[x])
<1>1. Here(c) \in Op /\ Here(c).op = "get" /\ Here(c).q \in Queues
  BY HereIsOp, Operands
<1> PICK q \in Queues : q = Here(c).q
  BY <1>1
<1> PICK v : v = queue[q].buf[queue[q].head]
  OBVIOUS
<1>2. /\ co[c].resumed \/ queue[q].count # 0
      /\ queue' = [queue EXCEPT ![q] = zdc_queue_get_nowait(queue[q])]
      /\ GoOn(c) /\ got' = [got EXCEPT ![c][q] = v]
  BY DEF GetGoesOn, zdc_queue_empty
<1>3. queue[q].count # 0
  <2>1. co[c].resumed => MayGoOn(c)
    BY DEF ResumedFindsWhatItAwaited, At
  <2> QED
    BY <1>1, <1>2, <2>1, MayGoOnIs
<1>4. Request(x)' = [Request(x) EXCEPT ![c] = NoRequest]
  BY <1>2, GoOnAnswers
<1>5. Request(x)[c] = IF co[c].resumed THEN Asks(c, x) ELSE NoRequest
  BY RequestIs
<1>6. CASE x # q
  <2>1. queue'[x] = queue[x]
    BY <1>2, <1>6 DEF ZdcTypeOK
  <2>2. Request(x)[c] = NoRequest
    BY <1>1, <1>5, <1>6 DEF Asks
  <2>3. Results(x)' = Results(x)
    <3>1. \A d \in Coros : got'[d][x] = got[d][x]
      BY <1>2, <1>6 DEF RingInv
    <3> QED
      BY <3>1 DEF Results
  <2> QED
    BY <1>4, <2>1, <2>2, <2>3, SameRequests, QuietStep DEF Quiet, SameRing, RingInv
<1>7. CASE x = q
  <2>1. queue[q] \in QueueState /\ Ring(queue[q])
        /\ queue'[q] = zdc_queue_get_nowait(queue[q])
    BY <1>2 DEF ZdcTypeOK, RingInv
  <2>2. /\ Ring(queue'[q])
        /\ ContentsOf(queue[q]) # <<>>
        /\ Head(ContentsOf(queue[q])) = v
        /\ ContentsOf(queue'[q]) = Tail(ContentsOf(queue[q]))
    BY <1>3, <2>1, GetTakesHead
  <2>3. Contents(x) = ContentsOf(queue[q]) /\ Contents(x)' = ContentsOf(queue'[q])
    BY <1>7 DEF Contents, ContentsOf
  <2>4. Fifo(x)!Dequeue
    BY <2>2, <2>3 DEF Fifo!Dequeue
  <2>5. Results(x)' = [Results(x) EXCEPT ![c] = Head(Contents(x))]
    <3>1. \A d \in Coros : got'[d][x] = IF d = c THEN v ELSE got[d][x]
      BY <1>2, <1>7 DEF RingInv
    <3>2. Results(x)' = [Results(x) EXCEPT ![c] = v]
      BY <3>1 DEF Results
    <3> QED
      BY <2>2, <2>3, <3>2
  <2>6. CASE co[c].resumed
    <3>1. Request(x)[c] = [kind |-> "get"]
      BY <1>1, <1>5, <1>7, <2>6 DEF Asks
    <3>2. Fifo(x)!GetNow(c)
      BY <1>4, <2>4, <2>5, <3>1 DEF Fifo!GetNow, Fifo!Answered, Fifo!None, NoRequest
    <3> QED
      BY <1>7, <2>2, <3>2 DEF FifoStep, Fifo!Next
  <2>7. CASE ~co[c].resumed
    <3>1. Request(x)[c] = NoRequest /\ Request(x)' = Request(x)
      BY <1>4, <1>5, <2>7, SameRequests
    <3>2. Fifo(x)!GetAtOnce(c)
      BY <2>4, <2>5, <3>1 DEF Fifo!GetAtOnce, Fifo!None, NoRequest
    <3> QED
      BY <1>7, <2>2, <3>2 DEF FifoStep, Fifo!Next
  <2> QED
    BY <2>6, <2>7
<1> QED
  BY <1>6, <1>7

(* A coroutine at another operation asks for nothing, before and after. *)
LEMMA OthersAskNothing ==
    ASSUME ZdcTypeOK, NEW c \in Coros, Here(c).op \notin {"put", "get"}, program' = program,
           GoOn(c) \/ \E hs : Suspend(c, hs), NEW x
    PROVE  Request(x)' = Request(x)
<1>1. Request(x)[c] = NoRequest /\ Asks(c, x) = NoRequest
  BY RequestIs DEF Asks
<1> QED
  BY <1>1, GoOnAnswers, SuspendAsks, SameRequests

(* The other actions leave every queue alone. *)
LEMMA OtherStepsAreQuiet ==
    ASSUME ZdcTypeOK, RingInv, NEW c \in Coros, NEW x \in Queues,
           \/ Dispatch(c) \/ Finish(c) \/ SetCompletion(c) \/ ZDC_COMPLETION_AWAIT(c)
           \/ zdc_spawn(c) \/ ZDC_SPAWN_JOIN(c) \/ ZDC_SELECT_WAIT(c)
    PROVE  Quiet(x)
<1>1. CASE Dispatch(c) \/ Finish(c)
  <2>1. UNCHANGED <<program, queue, co, got>>
    BY <1>1 DEF Dispatch, Finish
  <2>2. Request(x)' = Request(x)
    BY <2>1 DEF Request, Here
  <2> QED
    BY <2>1, <2>2, SameResults DEF Quiet, SameRing
<1>2. CASE SetCompletion(c)
  <2>1. Here(c).op = "set" /\ GoOn(c) /\ UNCHANGED <<program, queue, got>>
    BY <1>2 DEF SetCompletion, At
  <2> QED
    BY <2>1, OthersAskNothing, SameResults DEF Quiet, SameRing
<1>3. CASE ZDC_COMPLETION_AWAIT(c)
  <2>1. /\ Here(c).op = "await" /\ Here(c).k \in Completions
        /\ UNCHANGED <<program, queue>>
    BY <1>3, HereIsOp, Operands DEF ZDC_COMPLETION_AWAIT, At
  <2>2. CASE AwaitWaits(c, Here(c).k)
    <3>1. Suspend(c, handle) /\ got' = got
      BY <2>2 DEF AwaitWaits, Suspend
    <3> QED
      BY <2>1, <3>1, OthersAskNothing, SameResults DEF Quiet, SameRing
  <2>3. CASE AwaitGoesOn(c, Here(c).k)
    <3>1. GoOn(c) /\ got' = [got EXCEPT ![c][Here(c).k] = cpl[Here(c).k].payload]
      BY <2>3 DEF AwaitGoesOn
    <3>2. x # Here(c).k
      BY <2>1, ZdcAssumption
    <3>3. \A d \in Coros : got'[d][x] = got[d][x]
      BY <2>1, <3>1, <3>2 DEF RingInv
    <3>4. Results(x)' = Results(x)
      BY <3>3 DEF Results
    <3> QED
      BY <2>1, <3>1, <3>4, OthersAskNothing DEF Quiet, SameRing
  <2> QED
    BY <1>3, <2>2, <2>3 DEF ZDC_COMPLETION_AWAIT
<1>4. CASE zdc_spawn(c)
  <2>1. Here(c).op = "spawn" /\ GoOn(c) /\ UNCHANGED <<program, queue, got>>
    BY <1>4 DEF zdc_spawn, At
  <2> QED
    BY <2>1, OthersAskNothing, SameResults DEF Quiet, SameRing
<1>5. CASE ZDC_SPAWN_JOIN(c)
  <2>1. /\ Here(c).op = "join" /\ UNCHANGED <<program, queue, got>>
        /\ GoOn(c) \/ \E hs : Suspend(c, hs)
    BY <1>5 DEF ZDC_SPAWN_JOIN, At, JoinWaits, JoinGoesOn, Suspend
  <2> QED
    BY <2>1, OthersAskNothing, SameResults DEF Quiet, SameRing
<1>6. CASE ZDC_SELECT_WAIT(c)
  <2>1. Here(c).op = "select" /\ program' = program
    BY <1>6 DEF ZDC_SELECT_WAIT, At
  <2>2. CASE SelectWaits(c, Here(c).qs)
    <3>1. /\ Suspend(c, handle) /\ got' = got
          /\ queue' = zdc_select_register_waiter(c, Here(c).qs)
      BY <2>2 DEF SelectWaits, Suspend
    <3>2. queue[x] \in QueueState
      BY DEF ZdcTypeOK
    <3>3. SameRing(queue[x], [queue[x] EXCEPT !.getWaiters = Append(@, c)])
      BY <3>2 DEF QueueState, SameRing
    <3>4. SameRing(queue[x], queue'[x])
      BY <3>1, <3>3 DEF zdc_select_register_waiter, SameRing
    <3> QED
      BY <2>1, <3>1, <3>4, OthersAskNothing, SameResults DEF Quiet
  <2>3. CASE SelectGoesOn(c, Here(c).qs)
    <3>1. UNCHANGED <<queue, got>>
      BY <2>3 DEF SelectGoesOn
    <3>2. ~co'[c].resumed /\ \A d \in Coros : d # c => co'[d] = co[d]
      BY <2>3 DEF SelectGoesOn, ZdcTypeOK, CoroState
    <3>3. Request(x)'[c] = NoRequest /\ Request(x)[c] = NoRequest
      BY <2>1, <3>2, RequestIs DEF Request, NoRequest, Asks
    <3>4. Request(x)' = Request(x)
      BY <2>1, <3>2, <3>3, RequestsBecome, SameRequests
    <3> QED
      BY <3>1, <3>4, SameResults DEF Quiet, SameRing
  <2> QED
    BY <1>6, <2>2, <2>3 DEF ZDC_SELECT_WAIT
<1> QED
  BY <1>1, <1>2, <1>3, <1>4, <1>5, <1>6

(* Every step, then, is one of each FIFO queue, or none. *)
LEMMA FifoSteps ==
    ASSUME ZdcTypeOK, RingInv, ResumedFindsWhatItAwaited, [Next]_vars, NEW x \in Queues
    PROVE  FifoStep(x) /\ Ring(queue'[x])
<1>1. Ring(queue[x])
  BY DEF RingInv
<1>2. ASSUME NEW c \in Coros, ZDC_QUEUE_PUT(c) PROVE FifoStep(x) /\ Ring(queue'[x])
  BY <1>2, PutWaitsStep, PutGoesOnStep DEF ZDC_QUEUE_PUT
<1>3. ASSUME NEW c \in Coros, ZDC_QUEUE_GET(c) PROVE FifoStep(x) /\ Ring(queue'[x])
  BY <1>3, GetWaitsStep, GetGoesOnStep DEF ZDC_QUEUE_GET
<1>4. CASE UNCHANGED vars
  <2>1. Quiet(x)
    BY <1>4 DEF vars, Quiet, SameRing, Request, Here, Results
  <2> QED
    BY <1>1, <2>1, QuietStep
<1> QED
  BY <1>1, <1>2, <1>3, <1>4, OtherStepsAreQuiet, QuietStep DEF Next

(* The results keep their type. *)
LEMMA GotTypes ==
    ASSUME ZdcTypeOK, RingInv, [Next]_vars
    PROVE  got' \in [Coros -> [Queues \cup Completions -> Item]]
<1>1. ASSUME NEW c \in Coros, ZDC_QUEUE_GET(c)
      PROVE  got' \in [Coros -> [Queues \cup Completions -> Item]]
  <2> PICK q \in Queues : q = Here(c).q
    BY <1>1, HereIsOp, Operands DEF ZDC_QUEUE_GET
  <2>1. queue[q].buf[queue[q].head] \in Item
    BY DEF ZdcTypeOK, QueueState
  <2>2. got' = got \/ got' = [got EXCEPT ![c][q] = queue[q].buf[queue[q].head]]
    BY <1>1 DEF ZDC_QUEUE_GET, GetWaits, GetGoesOn, Suspend
  <2> QED
    BY <2>1, <2>2 DEF RingInv
<1>2. ASSUME NEW c \in Coros, ZDC_COMPLETION_AWAIT(c)
      PROVE  got' \in [Coros -> [Queues \cup Completions -> Item]]
  <2> PICK k \in Completions : k = Here(c).k
    BY <1>2, HereIsOp, Operands DEF ZDC_COMPLETION_AWAIT
  <2>1. cpl[k].payload \in Item
    BY DEF ZdcTypeOK, CompletionState
  <2>2. got' = got \/ got' = [got EXCEPT ![c][k] = cpl[k].payload]
    BY <1>2 DEF ZDC_COMPLETION_AWAIT, AwaitWaits, AwaitGoesOn, Suspend
  <2>3. [got[c] EXCEPT ![k] = cpl[k].payload] \in [Queues \cup Completions -> Item]
    BY <2>1 DEF RingInv
  <2> QED
    BY <2>2, <2>3 DEF RingInv
<1>3. ASSUME NEW c \in Coros,
             \/ Dispatch(c) \/ Finish(c) \/ ZDC_QUEUE_PUT(c) \/ SetCompletion(c)
             \/ zdc_spawn(c) \/ ZDC_SPAWN_JOIN(c) \/ ZDC_SELECT_WAIT(c)
      PROVE  got' = got
  BY <1>3 DEF Dispatch, Finish, ZDC_QUEUE_PUT, PutWaits, PutGoesOn, SetCompletion,
              zdc_spawn, ZDC_SPAWN_JOIN, JoinWaits, JoinGoesOn, ZDC_SELECT_WAIT,
              SelectWaits, SelectGoesOn, Suspend
<1>4. CASE UNCHANGED vars
  BY <1>4 DEF vars, RingInv
<1> QED
  BY <1>1, <1>2, <1>3, <1>4 DEF Next, RingInv

(* Each coroutine keeps its program. *)
LEMMA ProgramStays == [Next]_vars => program' = program
BY DEF vars, Next, Dispatch, Finish, ZDC_QUEUE_PUT, ZDC_QUEUE_GET, SetCompletion,
       ZDC_COMPLETION_AWAIT, zdc_spawn, ZDC_SPAWN_JOIN, ZDC_SELECT_WAIT

(* The rings stay rings. *)
LEMMA RingNext == ZdcTypeOK /\ RingInv /\ ResumedFindsWhatItAwaited /\ [Next]_vars => RingInv'
BY FifoSteps, GotTypes, ProgramStays DEF RingInv

(* At first the rings are empty. *)
LEMMA RingInit == Init => RingInv
<1> SUFFICES ASSUME Init PROVE RingInv
  OBVIOUS
<1>1. \A x \in Queues : Ring(queue[x])
  <2>1. Depth \in Nat \ {0} /\ 0 % Depth = 0
    BY ZdcAssumption
  <2> QED
    BY <2>1 DEF Init, ZDC_QUEUE_INIT, Ring
<1> QED
  BY <1>1 DEF Init, RingInv, Item

(* An empty queue and no request at the start. *)
LEMMA FifoInit == ASSUME Init, NEW x \in Queues PROVE Fifo(x)!Init
<1>1. queue[x].count = 0
  BY DEF Init, ZDC_QUEUE_INIT
<1>2. Contents(x) = <<>>
  BY <1>1 DEF Contents
<1>3. Request(x) = [c \in Coros |-> NoRequest]
  BY DEF Init, Request, NoRequest
<1>4. Results(x) = [c \in Coros |-> NULL]
  BY DEF Init, Results
<1> QED
  BY <1>2, <1>3, <1>4 DEF Fifo!Init, Fifo!None, NoRequest

(* Whatever the program, as long as resumed coroutines find what they     *)
(* waited for, each of two queues is a bounded FIFO queue: its items come  *)
(* out once, in the order they went in, there are never more than its      *)
(* depth, and who had to wait puts and gets what it asked for.             *)
THEOREM FoundImpliesFifo == Spec /\ []ResumedFindsWhatItAwaited => ImplementsFifo
<1>1. Init => FifoOne!Init /\ FifoTwo!Init
  BY FifoInit, QueuesAssumption DEF Fifo!Init, Fifo!None, FifoOne!Init, FifoOne!None, FifoTwo!Init,
                  FifoTwo!None, Results
<1>2. ZdcTypeOK /\ RingInv /\ ResumedFindsWhatItAwaited /\ [Next]_vars
        => [FifoOne!Next]_(FifoOne!vars) /\ [FifoTwo!Next]_(FifoTwo!vars)
  <2> SUFFICES ASSUME ZdcTypeOK, RingInv, ResumedFindsWhatItAwaited, [Next]_vars
               PROVE  [FifoOne!Next]_(FifoOne!vars) /\ [FifoTwo!Next]_(FifoTwo!vars)
    OBVIOUS
  <2>1. FifoStep(q1) /\ FifoStep(q2)
    BY FifoSteps, QueuesAssumption
  <2>2. [FifoOne!Next]_(FifoOne!vars)
    BY <2>1
       DEF FifoStep, Results, Fifo!Next, Fifo!vars, Fifo!PutAtOnce, Fifo!Drop, Fifo!GetAtOnce,
           Fifo!PutLater, Fifo!GetLater, Fifo!PutNow, Fifo!GetNow, Fifo!None,
           Fifo!Put, Fifo!Get, Fifo!Enqueue, Fifo!Dequeue, Fifo!Ask,
           Fifo!Answered, FifoOne!Next, FifoOne!vars, FifoOne!PutAtOnce,
           FifoOne!Drop, FifoOne!GetAtOnce, FifoOne!PutLater,
           FifoOne!GetLater, FifoOne!PutNow, FifoOne!GetNow, FifoOne!None,
           FifoOne!Put, FifoOne!Get, FifoOne!Enqueue, FifoOne!Dequeue,
           FifoOne!Ask, FifoOne!Answered
  <2>3. [FifoTwo!Next]_(FifoTwo!vars)
    BY <2>1
       DEF FifoStep, Results, Fifo!Next, Fifo!vars, Fifo!PutAtOnce, Fifo!Drop, Fifo!GetAtOnce,
           Fifo!PutLater, Fifo!GetLater, Fifo!PutNow, Fifo!GetNow, Fifo!None,
           Fifo!Put, Fifo!Get, Fifo!Enqueue, Fifo!Dequeue, Fifo!Ask,
           Fifo!Answered, FifoTwo!Next, FifoTwo!vars, FifoTwo!PutAtOnce,
           FifoTwo!Drop, FifoTwo!GetAtOnce, FifoTwo!PutLater,
           FifoTwo!GetLater, FifoTwo!PutNow, FifoTwo!GetNow, FifoTwo!None,
           FifoTwo!Put, FifoTwo!Get, FifoTwo!Enqueue, FifoTwo!Dequeue,
           FifoTwo!Ask, FifoTwo!Answered
  <2> QED
    BY <2>2, <2>3
<1> QED
  BY <1>1, <1>2, RingInit, RingNext, ZdcTypesHold, PTL
     DEF Spec, ImplementsFifo, FifoOne!Spec, FifoTwo!Spec

(* So they are where every queue has one putter and one getter, every      *)
(* token one awaiter and every handle one spawn.                           *)
THEOREM SoleUsersImplementFifo == Spec /\ SoleUsers(program) => ImplementsFifo
<1>1. SoleUsers(program) /\ [Next]_vars => SoleUsers(program)'
  <2>1. program' = program => SoleUsers(program)' = SoleUsers(program)
    OBVIOUS
  <2> QED
    BY <2>1, ProgramStays
<1> QED
  BY <1>1, FoundImpliesFifo, SoleUsersFindWhatTheyAwait, PTL DEF Spec
=============================================================================
