------------------------------ MODULE ZdcRuntime ------------------------------
(***************************************************************************)
(* The coroutine primitives that crt/*.py emits next to generated code: a  *)
(* ring-buffer queue, a one-shot completion, spawn and join, and select.   *)
(* A coroutine suspends by registering itself and RETURNING; it is resumed *)
(* at a label that lies behind the test which made it wait, so it does not *)
(* look again.  zdc_coro_t itself is not in the repository: zdc_coro_create*)
(* and zdc_coro_schedule are modelled from their use, and the scheduler    *)
(* resumes the scheduled coroutines one at a time in any order.            *)
(***************************************************************************)
EXTENDS Integers, Sequences, FiniteSets

CONSTANTS
    Coros,        \* the coroutines
    Queues,       \* the queues of the component
    Completions,  \* its completion tokens
    Handles,      \* its spawn handles
    Depth,        \* the depth each queue is declared with
    MaxWaiters,   \* ZDC_MAX_WAITERS
    Programs,     \* what the coroutines do: functions from Coros to Seq(Op)
    NULL

(* What a coroutine does: the macros and calls that its text contains.     *)
Op == [op : {"put", "get"}, q : Queues]
      \cup [op : {"set", "await"}, k : Completions]
      \cup [op : {"spawn"}, h : Handles, coro : Coros]
      \cup [op : {"join"}, h : Handles]
      \cup [op : {"select"}, qs : Seq(Queues)]

ASSUME ZdcAssumption ==
    /\ Depth \in Nat \ {0}
    /\ MaxWaiters \in Nat
    /\ IsFiniteSet(Coros) /\ IsFiniteSet(Handles) /\ NULL \notin Coros
    /\ Programs \subseteq [Coros -> Seq(Op)]
    /\ Queues \cap Completions = {}

VARIABLES
    program,    \* what each coroutine does
    queue,      \* zdc_queue_t
    cpl,        \* zdc_completion_t
    handle,     \* zdc_spawn_handle_t
    co,         \* where each coroutine is, and its select's ready_idx
    ready,      \* how many times each coroutine is scheduled
    running,    \* the coroutine that has the processor
    got         \* what each coroutine last got out of each queue or completion

vars == <<program, queue, cpl, handle, co, ready, running, got>>

Item == Coros \X Nat \cup {NULL}

QueueState ==
    [buf        : [0 .. Depth - 1 -> Item],
     head       : 0 .. Depth - 1,
     tail       : 0 .. Depth - 1,
     count      : Int,
     putWaiters : Seq(Coros),
     getWaiters : Seq(Coros)]

CompletionState == [set : BOOLEAN, waiter : Coros \cup {NULL}, payload : Item]
HandleState == [coro : Coros \cup {NULL}, done : BOOLEAN, joiner : Coros \cup {NULL}]

ZDC_QUEUE_INIT ==
    [buf |-> [i \in 0 .. Depth - 1 |-> NULL], head |-> 0, tail |-> 0, count |-> 0,
     putWaiters |-> <<>>, getWaiters |-> <<>>]

zdc_completion_init == [set |-> FALSE, waiter |-> NULL, payload |-> NULL]

(* A handle before zdc_spawn initialises it. *)
NoHandle == [coro |-> NULL, done |-> FALSE, joiner |-> NULL]

IsSpawned(prog, c) ==
    \E d \in Coros : \E i \in DOMAIN prog[d] :
        prog[d][i].op = "spawn" /\ prog[d][i].coro = c

Init ==
    /\ program \in Programs
    /\ queue = [q \in Queues |-> ZDC_QUEUE_INIT]
    /\ cpl = [k \in Completions |-> zdc_completion_init]
    /\ handle = [h \in Handles |-> NoHandle]
    /\ co = [c \in Coros |-> [pc |-> 1, resumed |-> FALSE, ready_idx |-> -1]]
    /\ ready = [c \in Coros |-> IF IsSpawned(program, c) THEN 0 ELSE 1]
    /\ running = NULL
    /\ got = [c \in Coros |-> [x \in Queues \cup Completions |-> NULL]]

-----------------------------------------------------------------------------
(* Pure parts of the operations.                                            *)

zdc_queue_full(q) == q.count >= Depth
zdc_queue_empty(q) == q.count = 0

(* The first of a list of waiters is taken off it and scheduled. *)
Rest(waiters) == IF waiters = <<>> THEN waiters ELSE Tail(waiters)
first_of_many(waiters) == IF Len(waiters) < 2 THEN NULL ELSE Head(waiters)
First(waiters) == IF waiters = <<>> THEN NULL ELSE Head(waiters)

(* Mutants: the waiter stays on the list; the tail does not move. *)
put_nowait_keeps_waiter(q, item) ==
    [q EXCEPT !.buf[q.tail] = item, !.tail = (@ + 1) % Depth, !.count = @ + 1]

put_nowait_in_place(q, item) ==
    [q EXCEPT !.buf[q.tail] = item, !.count = @ + 1, !.getWaiters = Rest(@)]

zdc_queue_put_nowait(q, item) ==
    [q EXCEPT !.buf[q.tail] = item, !.tail = (@ + 1) % Depth, !.count = @ + 1,
              !.getWaiters = Rest(@)]

zdc_queue_get_nowait(q) ==
    [q EXCEPT !.head = (@ + 1) % Depth, !.count = @ - 1, !.putWaiters = Rest(@)]

zdc_coro_schedule(rdy, c) == IF c = NULL THEN rdy ELSE [rdy EXCEPT ![c] = @ + 1]

(* Mutants: a second set overwrites; the flag is forgotten. *)
set_again(k, value) == [set |-> TRUE, waiter |-> NULL, payload |-> value]

set_without_flag(k, value) ==
    IF k.set THEN k ELSE [set |-> FALSE, waiter |-> NULL, payload |-> value]

zdc_completion_set(k, value) ==
    IF k.set THEN k ELSE [set |-> TRUE, waiter |-> NULL, payload |-> value]

(* The index of the first queue of a select that is not empty, or -1. *)
ReadyIdx(qs) ==
    LET full == {i \in DOMAIN qs : ~zdc_queue_empty(queue[qs[i]])}
    IN  IF full = {} THEN -1 ELSE CHOOSE i \in full : \A j \in full : i <= j

zdc_select_register_waiter(c, qs) ==
    [q \in Queues |->
        IF q \in {qs[i] : i \in DOMAIN qs} /\ Len(queue[q].getWaiters) < MaxWaiters
        THEN [queue[q] EXCEPT !.getWaiters = Append(@, c)]
        ELSE queue[q]]

(* The epilogue of _spawn_wrapper on the handle of a coroutine. *)
spawn_done(h) == [coro |-> NULL, done |-> TRUE, joiner |-> NULL]

-----------------------------------------------------------------------------
(* Control: a coroutine returns to the scheduler when it suspends and when  *)
(* it ends.  Either way a spawned one returns into _spawn_wrapper, which    *)
(* marks its handle done and schedules the joiner.                          *)

Here(c) == program[c][co[c].pc]
At(c, op) == running = c /\ co[c].pc <= Len(program[c]) /\ Here(c).op = op

HandlesOf(c, hs) == {h \in Handles : hs[h].coro = c}

_spawn_wrapper(c, hs) ==
    /\ handle' = [h \in Handles |->
                    IF h \in HandlesOf(c, hs) THEN spawn_done(hs[h]) ELSE hs[h]]
    /\ ready' = [d \in Coros |->
                    ready[d] + Cardinality({h \in HandlesOf(c, hs) : hs[h].joiner = d})]

(* c returns at a suspension point, while the handles are hs. *)
Suspend(c, hs) ==
    /\ running' = NULL
    /\ co' = [co EXCEPT ![c].resumed = TRUE]
    /\ _spawn_wrapper(c, hs)
    /\ UNCHANGED got

GoOn(c) == co' = [co EXCEPT ![c].pc = @ + 1, ![c].resumed = FALSE] /\ UNCHANGED running

(* External: the scheduler resumes a scheduled coroutine. *)
Dispatch(c) ==
    /\ running = NULL /\ ready[c] > 0
    /\ running' = c
    /\ ready' = [ready EXCEPT ![c] = @ - 1]
    /\ UNCHANGED <<program, queue, cpl, handle, co, got>>

Finish(c) ==
    /\ running = c /\ co[c].pc > Len(program[c])
    /\ running' = NULL
    /\ _spawn_wrapper(c, handle)
    /\ UNCHANGED <<program, queue, cpl, co, got>>

PutWaits(c, q) ==
    /\ ~co[c].resumed /\ zdc_queue_full(queue[q])
    /\ queue' = [queue EXCEPT ![q].putWaiters = Append(@, c)]
    /\ Suspend(c, handle)

(* At once, or behind next_label: then the queue is not looked at again. *)
PutGoesOn(c, q) ==
    /\ co[c].resumed \/ ~zdc_queue_full(queue[q])
    /\ queue' = [queue EXCEPT ![q] = zdc_queue_put_nowait(@, <<c, co[c].pc>>)]
    /\ ready' = zdc_coro_schedule(ready, First(queue[q].getWaiters))
    /\ GoOn(c)
    /\ UNCHANGED <<handle, got>>

ZDC_QUEUE_PUT(c) ==
    /\ At(c, "put")
    /\ PutWaits(c, Here(c).q) \/ PutGoesOn(c, Here(c).q)
    /\ UNCHANGED <<program, cpl>>

GetWaits(c, q) ==
    /\ ~co[c].resumed /\ zdc_queue_empty(queue[q])
    /\ queue' = [queue EXCEPT ![q].getWaiters = Append(@, c)]
    /\ Suspend(c, handle)

GetGoesOn(c, q) ==
    /\ co[c].resumed \/ ~zdc_queue_empty(queue[q])
    /\ queue' = [queue EXCEPT ![q] = zdc_queue_get_nowait(@)]
    /\ got' = [got EXCEPT ![c][q] = queue[q].buf[queue[q].head]]
    /\ ready' = zdc_coro_schedule(ready, First(queue[q].putWaiters))
    /\ GoOn(c)
    /\ UNCHANGED handle

ZDC_QUEUE_GET(c) ==
    /\ At(c, "get")
    /\ GetWaits(c, Here(c).q) \/ GetGoesOn(c, Here(c).q)
    /\ UNCHANGED <<program, cpl>>

SetCompletion(c) ==
    /\ At(c, "set")
    /\ LET k == Here(c).k IN
        /\ cpl' = [cpl EXCEPT ![k] = zdc_completion_set(@, <<c, co[c].pc>>)]
        /\ ready' = zdc_coro_schedule(ready, IF cpl[k].set THEN NULL ELSE cpl[k].waiter)
    /\ GoOn(c)
    /\ UNCHANGED <<program, queue, handle, got>>

AwaitWaits(c, k) ==
    /\ ~co[c].resumed /\ ~cpl[k].set
    /\ cpl' = [cpl EXCEPT ![k].waiter = c]
    /\ Suspend(c, handle)

AwaitGoesOn(c, k) ==
    /\ co[c].resumed \/ cpl[k].set
    /\ got' = [got EXCEPT ![c][k] = cpl[k].payload]
    /\ GoOn(c)
    /\ UNCHANGED <<cpl, ready, handle>>

ZDC_COMPLETION_AWAIT(c) ==
    /\ At(c, "await")
    /\ AwaitWaits(c, Here(c).k) \/ AwaitGoesOn(c, Here(c).k)
    /\ UNCHANGED <<program, queue>>

zdc_spawn(c) ==
    /\ At(c, "spawn")
    /\ handle' = [handle EXCEPT ![Here(c).h] =
                    [coro |-> Here(c).coro, done |-> FALSE, joiner |-> NULL]]
    /\ ready' = zdc_coro_schedule(ready, Here(c).coro)
    /\ GoOn(c)
    /\ UNCHANGED <<program, queue, cpl, got>>

JoinWaits(c, h) ==
    /\ ~co[c].resumed /\ ~handle[h].done
    /\ Suspend(c, [handle EXCEPT ![h].joiner = c])

JoinGoesOn(c, h) ==
    /\ co[c].resumed \/ handle[h].done
    /\ GoOn(c)
    /\ UNCHANGED <<handle, ready, got>>

ZDC_SPAWN_JOIN(c) ==
    /\ At(c, "join")
    /\ JoinWaits(c, Here(c).h) \/ JoinGoesOn(c, Here(c).h)
    /\ UNCHANGED <<program, queue, cpl>>

(* ready_idx is set to -1 first, and a put does not call zdc_select_notify: *)
(* a resumed select goes on with -1.                                        *)
SelectWaits(c, qs) ==
    /\ ~co[c].resumed /\ ReadyIdx(qs) = -1
    /\ queue' = zdc_select_register_waiter(c, qs)
    /\ Suspend(c, handle)

SelectGoesOn(c, qs) ==
    /\ co[c].resumed \/ ReadyIdx(qs) # -1
    /\ co' = [co EXCEPT ![c].pc = @ + 1, ![c].resumed = FALSE,
                        ![c].ready_idx = IF co[c].resumed THEN -1 ELSE ReadyIdx(qs)]
    /\ UNCHANGED <<running, queue, ready, handle, got>>

ZDC_SELECT_WAIT(c) ==
    /\ At(c, "select")
    /\ SelectWaits(c, Here(c).qs) \/ SelectGoesOn(c, Here(c).qs)
    /\ UNCHANGED <<program, cpl>>

Next ==
    \E c \in Coros :
        \/ Dispatch(c) \/ Finish(c)
        \/ ZDC_QUEUE_PUT(c) \/ ZDC_QUEUE_GET(c)
        \/ SetCompletion(c) \/ ZDC_COMPLETION_AWAIT(c)
        \/ zdc_spawn(c) \/ ZDC_SPAWN_JOIN(c)
        \/ ZDC_SELECT_WAIT(c)

Spec == Init /\ [][Next]_vars

(* Each scheduled coroutine is resumed at some time, whatever is scheduled  *)
(* besides, and runs until it returns.                                      *)
FairSpec ==
    /\ Spec
    /\ WF_vars(Next)
    /\ \A c \in Coros : SF_vars(Dispatch(c))

-----------------------------------------------------------------------------
(* Properties.                                                              *)

(* Behind its last operation, and neither running nor about to. *)
HasEnded(c) == co[c].pc > Len(program[c]) /\ running # c /\ ready[c] = 0

WasSpawned(h, d) ==
    \E e \in Coros : \E i \in DOMAIN program[e] :
        /\ i < co[e].pc /\ program[e][i].op = "spawn"
        /\ program[e][i].h = h /\ program[e][i].coro = d

(* What the operation of c needs before it may go on. *)
MayGoOn(c) ==
    LET o == Here(c) IN
    CASE o.op = "put"    -> ~zdc_queue_full(queue[o.q])
      [] o.op = "get"    -> ~zdc_queue_empty(queue[o.q])
      [] o.op = "await"  -> cpl[o.k].set
      [] o.op = "join"   -> \E d \in Coros : WasSpawned(o.h, d) /\ HasEnded(d)
      [] o.op = "select" -> ReadyIdx(o.qs) # -1
      [] OTHER           -> TRUE

(* A coroutine that is resumed behind its wait finds what it waited for: a  *)
(* free slot, an item, a result, the end of the coroutine it joins, a queue *)
(* with an item.  The macros resume behind the test and do not look again.  *)
ResumedFindsWhatItAwaited ==
    \A c \in Coros : running = c /\ co[c].resumed => MayGoOn(c)

Suspended(c) == co[c].resumed /\ running # c

(* No wakeup is lost and none is spurious: of the coroutines that wait,     *)
(* exactly those whose wait is over are scheduled, and exactly once.        *)
ScheduledIffReady ==
    \A c \in Coros : Suspended(c) => ready[c] = IF MayGoOn(c) THEN 1 ELSE 0

(* A completion keeps the result it was set to first, although             *)
(* zdc_completion_set may be called again before the result is read.       *)
CompletionKeepsResult ==
    [][\A k \in Completions : cpl[k].set => cpl'[k] = cpl[k]]_vars

(* A coroutine whose wait is over goes on at some time. *)
WaitEnds ==
    \A c \in Coros : Suspended(c) /\ MayGoOn(c) ~> ~co[c].resumed
=============================================================================
