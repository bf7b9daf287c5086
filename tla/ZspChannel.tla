------------------------------ MODULE ZspChannel ------------------------------
(***************************************************************************)
(* A bounded channel (share/rt/zsp_channel.c) on the timebase: a ring      *)
(* buffer, and two lists of threads that wait for data and for space.      *)
(* The lists are threaded through thread->next, the field the ready queue  *)
(* uses, and a woken thread is not handed an item: it is scheduled and     *)
(* tries again, so a thread that comes in between may be first.            *)
(***************************************************************************)
EXTENDS ZspTimebase

CONSTANTS
    Item,       \* the values put into the channel
    Capacity,   \* the capacity zsp_channel_init_capacity is called with
    Putters,    \* the threads that put
    Getters,    \* the threads that get
    MayTry,     \* whether the non-blocking calls are made
    MayReturn   \* whether tasks end

ASSUME ChannelAssumption ==
    /\ Capacity \in Nat
    /\ Putters \subseteq Thread /\ Getters \subseteq Thread
    /\ NULL \notin Item
    /\ MayTry \in BOOLEAN /\ MayReturn \in BOOLEAN

VARIABLES
    ch,     \* the fields of zsp_channel_t
    op,     \* the channel task's frame on a thread, if it has one
    rval,   \* the item a get task took, which it returns as thread->rval
    notify  \* the loop that wakes waiters, "get" or "put", while one runs

chvars == <<ch, op, rval, notify>>
allvars == <<vars, chvars>>

ZSP_CHANNEL_DEFAULT_CAPACITY == 16

NoOp == [kind |-> "none"]
PutOp(v) == [kind |-> "put", data |-> v]
GetOp == [kind |-> "get"]

ActualCapacity == IF Capacity > 0 THEN Capacity ELSE ZSP_CHANNEL_DEFAULT_CAPACITY

ChannelState ==
    [capacity    : Nat,
     buffer      : [0 .. ActualCapacity - 1 -> Item \cup {NULL}],
     head        : Nat,
     tail        : Nat,
     count       : Nat,
     get_waiters : Thread \cup {NULL},
     put_waiters : Thread \cup {NULL}]

zsp_channel_init_capacity ==
    [capacity    |-> ActualCapacity,
     buffer      |-> [i \in 0 .. ActualCapacity - 1 |-> NULL],
     head        |-> 0,
     tail        |-> 0,
     count       |-> 0,
     get_waiters |-> NULL,
     put_waiters |-> NULL]

ChannelInit ==
    /\ Init
    /\ ch = zsp_channel_init_capacity
    /\ op = [t \in Thread |-> NoOp]
    /\ rval = [t \in Thread |-> NULL]
    /\ notify = "none"

-----------------------------------------------------------------------------
(* The wait lists. *)

(* t is in every set that contains first and, with a thread, the next one. *)
Reaches(s, first, t) ==
    \A S \in SUBSET Thread :
        first \in S /\ (\A u \in S : s.next[u] # NULL => s.next[u] \in S) => t \in S

(* Where the loop that looks for the tail of a list ends. *)
LastOf(s, first) == CHOOSE t \in Thread : Reaches(s, first, t) /\ s.next[t] = NULL

AddWaiter(s, first, t) ==
    LET cleared == clear_next(s, t)
    IN  block_thread(
            IF first = NULL THEN cleared
            ELSE [cleared EXCEPT !.next =
                     [cleared.next EXCEPT ![LastOf(cleared, first)] = t]], t)

(* The timebase, whose value is s before, and the channel. *)
zsp_channel_add_get_waiter(s, t) ==
    [tb |-> AddWaiter(s, ch.get_waiters, t),
     ch |-> [ch EXCEPT !.get_waiters = IF ch.get_waiters = NULL THEN t ELSE ch.get_waiters]]

(* Mutant: the waiter goes to the front and cuts the list off. *)
add_put_waiter_cut(s, t) ==
    [tb |-> block_thread(clear_next(s, t), t), ch |-> [ch EXCEPT !.put_waiters = t]]

zsp_channel_add_put_waiter(s, t) ==
    [tb |-> AddWaiter(s, ch.put_waiters, t),
     ch |-> [ch EXCEPT !.put_waiters = IF ch.put_waiters = NULL THEN t ELSE ch.put_waiters]]

(* Mutant: no waiter is woken for the last item. *)
GettersToWakeOffByOne == ch.get_waiters # NULL /\ ch.count > 1

(* The tests of the two loops. *)
GettersToWake == ch.get_waiters # NULL /\ ch.count > 0
PuttersToWake == ch.put_waiters # NULL /\ ch.count < ch.capacity

(* One turn of each.  Nothing else runs between the turns: while notify     *)
(* says that a loop goes on, every other action waits.                     *)
zsp_channel_notify_get_waiters ==
    LET t == ch.get_waiters
    IN  /\ notify = "get" /\ GettersToWake
        /\ ch' = [ch EXCEPT !.get_waiters = tb.next[t]]
        /\ tb' = zsp_timebase_schedule(clear_next(tb, t), t)
        /\ parked' = parked \ {t}
        /\ UNCHANGED <<created, exec, pc, end_ticks, op, rval, notify>>

zsp_channel_notify_put_waiters ==
    LET t == ch.put_waiters
    IN  /\ notify = "put" /\ PuttersToWake
        /\ ch' = [ch EXCEPT !.put_waiters = tb.next[t]]
        /\ tb' = zsp_timebase_schedule(clear_next(tb, t), t)
        /\ parked' = parked \ {t}
        /\ UNCHANGED <<created, exec, pc, end_ticks, op, rval, notify>>

LoopEnds == \/ notify = "get" /\ ~GettersToWake
            \/ notify = "put" /\ ~PuttersToWake

-----------------------------------------------------------------------------
(* The calls that put and get. *)

(* Mutant: the last item cannot be taken. *)
CanGetButLast == ch.count > 1

CanPut == ch.count < ch.capacity
CanGet == ch.count > 0

(* Mutant: the wrong waiters are told. *)
try_put_wakes_putters(v) ==
    /\ ch' = [ch EXCEPT !.buffer = [ch.buffer EXCEPT ![ch.tail] = v],
                        !.tail = (ch.tail + 1) % ch.capacity,
                        !.count = ch.count + 1]
    /\ notify' = "put"

(* The part of zsp_channel_try_put after its test, up to the loop. *)
zsp_channel_try_put(v) ==
    /\ ch' = [ch EXCEPT !.buffer = [ch.buffer EXCEPT ![ch.tail] = v],
                        !.tail = (ch.tail + 1) % ch.capacity,
                        !.count = ch.count + 1]
    /\ notify' = "get"

(* The same of zsp_channel_try_get; the item is FirstItem. *)
FirstItem == ch.buffer[ch.head]

zsp_channel_try_get ==
    /\ ch' = [ch EXCEPT !.head = (ch.head + 1) % ch.capacity,
                        !.count = ch.count - 1]
    /\ notify' = "put"

-----------------------------------------------------------------------------
(* Calls made by the task that executes, or by the main program.           *)

(* Its own code runs: no put or get task is on top of it. *)
OwnCode == \A t \in Thread : Executing(t) => op[t] = NoOp

TryPut(v) ==
    /\ MayTry
    /\ notify = "none" /\ CanCall /\ OwnCode
    /\ CanPut
    /\ zsp_channel_try_put(v)
    /\ UNCHANGED <<vars, op, rval>>

TryGet ==
    /\ MayTry
    /\ notify = "none" /\ CanCall /\ OwnCode
    /\ CanGet
    /\ zsp_channel_try_get
    /\ UNCHANGED <<vars, op, rval>>

TryReturns ==
    /\ LoopEnds /\ OwnCode
    /\ notify' = "none"
    /\ UNCHANGED <<vars, ch, op, rval>>

(* The frame of a put or get task on top of the caller's. *)
WithFrame(t) == [tb EXCEPT !.leaf = [tb.leaf EXCEPT ![t] = @ + 1]]

(* The channel task of t has put or got: it returns, and its caller runs    *)
(* on unless the thread is being created.                                  *)
ChannelTaskReturns(t) ==
    /\ LoopEnds
    /\ Executing(t) /\ op[t] # NoOp
    /\ notify' = "none"
    /\ op' = [op EXCEPT ![t] = NoOp]
    /\ IF ReturnContinues(tb, t)
       THEN tb' = zsp_timebase_return(tb, t) /\ UNCHANGED <<exec, pc, end_ticks>>
       ELSE Leave(zsp_timebase_return(tb, t), t)
    /\ UNCHANGED <<created, parked, ch, rval>>

(* It has put t on a wait list, which leads to waiting, and returns its     *)
(* frame to the scheduler.                                                 *)
Waiting(t, o, waiting) ==
    /\ ch' = waiting.ch
    /\ op' = [op EXCEPT ![t] = o]
    /\ parked' = parked \cup {t}
    /\ Leave(waiting.tb, t)
    /\ UNCHANGED <<created, rval, notify>>

PutTask(t, v) ==
    /\ notify = "none" /\ Executing(t) /\ op[t] = NoOp
    /\ t \in Putters
    /\ IF CanPut
       THEN /\ zsp_channel_try_put(v)
            /\ tb' = WithFrame(t)
            /\ op' = [op EXCEPT ![t] = PutOp(v)]
            /\ UNCHANGED <<created, parked, exec, pc, end_ticks, rval>>
       ELSE Waiting(t, PutOp(v), zsp_channel_add_put_waiter(WithFrame(t), t))

(* Mutant: the woken putter takes it that there is space. *)
PutTaskResumedNoRetry(t) ==
    /\ notify = "none" /\ Executing(t) /\ op[t].kind = "put"
    /\ zsp_channel_try_put(op[t].data)
    /\ UNCHANGED <<vars, op, rval>>

PutTaskResumed(t) ==
    /\ notify = "none" /\ Executing(t) /\ op[t].kind = "put"
    /\ IF CanPut
       THEN zsp_channel_try_put(op[t].data) /\ UNCHANGED <<vars, op, rval>>
       ELSE Waiting(t, op[t], zsp_channel_add_put_waiter(tb, t))

GetTask(t) ==
    /\ notify = "none" /\ Executing(t) /\ op[t] = NoOp
    /\ t \in Getters
    /\ IF CanGet
       THEN /\ zsp_channel_try_get
            /\ rval' = [rval EXCEPT ![t] = FirstItem]
            /\ tb' = WithFrame(t)
            /\ op' = [op EXCEPT ![t] = GetOp]
            /\ UNCHANGED <<created, parked, exec, pc, end_ticks>>
       ELSE Waiting(t, GetOp, zsp_channel_add_get_waiter(WithFrame(t), t))

GetTaskResumed(t) ==
    /\ notify = "none" /\ Executing(t) /\ op[t].kind = "get"
    /\ IF CanGet
       THEN /\ zsp_channel_try_get
            /\ rval' = [rval EXCEPT ![t] = FirstItem]
            /\ UNCHANGED <<vars, op>>
       ELSE Waiting(t, GetOp, zsp_channel_add_get_waiter(tb, t))

-----------------------------------------------------------------------------

(* What the task itself does between its puts and gets. *)
TaskItself(t) ==
    /\ notify = "none" /\ op[t] = NoOp
    /\ \/ TaskYield(t)
       \/ \E delay \in Delays : TaskWait(t, delay)
       \/ MayReturn /\ TaskReturn(t)
    /\ UNCHANGED chvars

ChannelTask(t) ==
    \/ \E v \in Item : PutTask(t, v)
    \/ PutTaskResumed(t)
    \/ GetTask(t)
    \/ GetTaskResumed(t)

NotifyStep ==
    \/ zsp_channel_notify_get_waiters
    \/ zsp_channel_notify_put_waiters
    \/ TryReturns
    \/ \E t \in Thread : ChannelTaskReturns(t)

TimebaseStep ==
    /\ notify = "none"
    /\ \/ Scheduler
       \/ \E end \in EndTimes : RunUntil(end)
       \/ \E t \in Putters \cup Getters : OwnCode /\ ThreadCreate(t)
    /\ UNCHANGED chvars

ChannelNext ==
    \/ TimebaseStep
    \/ NotifyStep
    \/ \E v \in Item : TryPut(v)
    \/ TryGet
    \/ \E t \in Thread : ChannelTask(t) \/ TaskItself(t)

ChannelSpec == ChannelInit /\ [][ChannelNext]_allvars

(* Neither the scheduler nor a loop pauses, and the code of a task neither  *)
(* keeps the processor for ever nor stops putting and getting.              *)
ChannelFairness ==
    /\ WF_allvars(TimebaseStep /\ Scheduler)
    /\ WF_allvars(NotifyStep)
    /\ \A t \in Thread : SF_allvars(ChannelTask(t)) /\ SF_allvars(TaskItself(t))

ChannelFairSpec == ChannelSpec /\ ChannelFairness
-----------------------------------------------------------------------------
(* Properties. *)

Waiters(kind) == {t \in parked : op[t].kind = kind}

(* The list from first holds the threads of S, each once, and ends.        *)
IsList(first, S) ==
    \E n \in 0 .. Cardinality(Thread) : \E q \in [1 .. n -> Thread] :
        /\ \A i, j \in 1 .. n : q[i] = q[j] => i = j
        /\ first = IF n = 0 THEN NULL ELSE q[1]
        /\ \A i \in 1 .. n : tb.next[q[i]] = IF i = n THEN NULL ELSE q[i + 1]
        /\ S = {q[i] : i \in 1 .. n}

(* The wait lists and the ready queue share the field next and still are    *)
(* three separate lists: a blocked put or get is on its list once, and a    *)
(* thread that was woken is on none of them but the ready queue.            *)
ListsAreDisjoint ==
    /\ IsList(ch.get_waiters, Waiters("get"))
    /\ IsList(ch.put_waiters, Waiters("put"))
    /\ ReadyListIsRunnable

(* No wakeup is lost: a thread waits for data only while there is none, and *)
(* for space only while there is none, unless the loop that wakes it runs.  *)
NoLostWakeup ==
    /\ Waiters("get") # {} => ch.count = 0 \/ notify = "get"
    /\ Waiters("put") # {} => ch.count = ch.capacity \/ notify = "put"

(* What is in the ring, first to come out first. *)
Contents == [i \in 1 .. ch.count |-> ch.buffer[(ch.head + i - 1) % ch.capacity]]

(* A task has what it asked for as soon as it has put or got, although it  *)
(* has still to wake others and to return.                                 *)
Requests == [t \in Thread |-> IF notify # "none" /\ Executing(t) THEN NoOp ELSE op[t]]

Fifo == INSTANCE BoundedFifo WITH
    capacity <- ActualCapacity, queue <- Contents, request <- Requests, result <- rval

(* The channel and its blocking tasks implement a bounded FIFO queue. *)
ImplementsFifo == Fifo!Spec

(* t waits in run_until, and a task of the other side is alive. *)
HasPartner(t) ==
    /\ pc = "until"
    /\ t \in parked
    /\ created \cap (IF op[t].kind = "get" THEN Putters ELSE Getters) # {}

(* Where the tasks put and get for ever, every waiter with a partner is     *)
(* woken.                                                                   *)
WaitersAreWoken == \A t \in Thread : HasPartner(t) ~> (t \notin parked)

(* A getter that no other getter competes with is also served: what it was *)
(* woken for is still there when it runs.                                   *)
SoleGetterIsServed ==
    \A t \in Getters :
        Getters = {t} => (HasPartner(t) /\ op[t] = GetOp) ~> (op[t] = NoOp)
=============================================================================
