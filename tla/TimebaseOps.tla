----------------------------- MODULE TimebaseOps -----------------------------
(***************************************************************************)
(* The data structures of the time-aware thread scheduler                  *)
(* (share/rt/zsp_timebase.c) as operators on a value s that holds the      *)
(* fields of zsp_timebase_t and, per thread, the fields of zsp_thread_t    *)
(* the scheduler reads.  The ready queue is the singly linked list of the  *)
(* code: it is threaded through thread->next, a field the channels, the    *)
(* mutexes and the scheduler share.  The event heap is the set of its      *)
(* entries; the array and its sift loops are the subject of EventHeap.     *)
(***************************************************************************)
EXTENDS Integers, FiniteSets

CONSTANTS
    Thread,      \* addresses of the zsp_thread_t structures
    NULL,        \* the null pointer
    SeqModulus   \* number of values of event_seq (2^32 in the build)

ASSUME ThreadAssumption == IsFiniteSet(Thread) /\ NULL \notin Thread
ASSUME SeqAssumption == SeqModulus \in Nat \ {0}

ThreadFlag == {"INITIAL", "SUSPEND", "BLOCKED"}

Event == [wake_time : Nat, seq : 0 .. SeqModulus - 1, thread : Thread]

(* leaf[t] is the number of frames on the stack of t; 0 is leaf == NULL. *)
TimebaseState ==
    [current_time : Nat,
     ready_head   : Thread \cup {NULL},
     ready_tail   : Thread \cup {NULL},
     events       : SUBSET Event,
     event_seq    : 0 .. SeqModulus - 1,
     active       : Int,
     running      : BOOLEAN,
     next         : [Thread -> Thread \cup {NULL}],
     flags        : [Thread -> SUBSET ThreadFlag],
     leaf         : [Thread -> Nat]]

zsp_timebase_init ==
    [current_time |-> 0,
     ready_head   |-> NULL,
     ready_tail   |-> NULL,
     events       |-> {},
     event_seq    |-> 0,
     active       |-> 0,
     running      |-> FALSE,
     next         |-> [t \in Thread |-> NULL],
     flags        |-> [t \in Thread |-> {}],
     leaf         |-> [t \in Thread |-> 0]]

-----------------------------------------------------------------------------
(* The ready queue. *)

(* Mutant: a thread is put in front of the queue. *)
ready_queue_add_lifo(s, t) ==
    [s EXCEPT
        !.flags      = [s.flags EXCEPT ![t] = @ \ {"BLOCKED"}],
        !.next       = [s.next EXCEPT ![t] = s.ready_head],
        !.ready_head = t,
        !.ready_tail = IF s.ready_tail = NULL THEN t ELSE s.ready_tail]

ready_queue_add(s, t) ==
    LET unlinked == [s.next EXCEPT ![t] = NULL]
    IN  [s EXCEPT
            !.flags      = [s.flags EXCEPT ![t] = @ \ {"BLOCKED"}],
            !.next       = IF s.ready_tail = NULL
                           THEN unlinked
                           ELSE [unlinked EXCEPT ![s.ready_tail] = t],
            !.ready_head = IF s.ready_tail = NULL THEN t ELSE s.ready_head,
            !.ready_tail = t]

(* Mutant: ready_tail keeps pointing at the thread that was taken. *)
ready_queue_pop_stale_tail(s) ==
    [s EXCEPT
        !.ready_head = s.next[s.ready_head],
        !.next       = [s.next EXCEPT ![s.ready_head] = NULL]]

(* The caller has checked that the list is not empty. *)
ready_queue_pop(s) ==
    LET t == s.ready_head
    IN  [s EXCEPT
            !.ready_head = s.next[t],
            !.ready_tail = IF s.next[t] = NULL THEN NULL ELSE s.ready_tail,
            !.next       = [s.next EXCEPT ![t] = NULL]]

-----------------------------------------------------------------------------
(* The event heap: heap_compare is a strict order as long as no two        *)
(* pending events carry the same sequence number.                          *)

(* Mutant: the latest of a time comes first.  *)
heap_compare_lifo(e, f) ==
    \/ e.wake_time < f.wake_time
    \/ e.wake_time = f.wake_time /\ e.seq > f.seq

heap_compare(e, f) ==
    \/ e.wake_time < f.wake_time
    \/ e.wake_time = f.wake_time /\ e.seq < f.seq

(* events[0] *)
FirstEvent(s) == CHOOSE e \in s.events :
                    \A f \in s.events \ {e} : ~heap_compare(f, e)

(* Mutant: the boundary is left out. *)
EventBefore(s, time) == \E e \in s.events : e.wake_time < time

EventAtOrBefore(s, time) == \E e \in s.events : e.wake_time <= time

-----------------------------------------------------------------------------
(* Scheduling. *)

zsp_timebase_schedule(s, t) ==
    ready_queue_add([s EXCEPT !.active = s.active + 1], t)

zsp_timebase_schedule_at(s, t, delay) ==
    [s EXCEPT
        !.active    = s.active + 1,
        !.event_seq = (s.event_seq + 1) % SeqModulus,
        !.events    = s.events \cup
            {[wake_time |-> s.current_time + delay,
              seq       |-> s.event_seq,
              thread    |-> t]}]

zsp_timebase_yield(s, t) ==
    [s EXCEPT !.flags = [s.flags EXCEPT ![t] = @ \cup {"SUSPEND"}]]

(* What a primitive does to a thread it makes wait. *)
block_thread(s, t) ==
    [s EXCEPT !.flags = [s.flags EXCEPT ![t] = @ \cup {"BLOCKED"}]]

(* The condition under which zsp_timebase_wait advances the time itself.   *)
WaitsInline(s, t, delay) ==
    /\ "INITIAL" \notin s.flags[t]
    /\ ~s.running
    /\ s.ready_head = NULL
    /\ ~EventAtOrBefore(s, s.current_time + delay)

WaitInline(s, t, delay) ==
    zsp_timebase_yield([s EXCEPT !.current_time = s.current_time + delay], t)

(* Mutant: the waiting thread is not marked as blocked. *)
WaitUnblocked(s, t, delay) == zsp_timebase_schedule_at(s, t, delay)

WaitSuspended(s, t, delay) ==
    zsp_timebase_schedule_at(
        [s EXCEPT !.flags =
            [s.flags EXCEPT ![t] = (@ \cup {"BLOCKED"}) \ {"SUSPEND"}]],
        t, delay)

zsp_timebase_wait(s, t, delay) ==
    IF WaitsInline(s, t, delay)
    THEN WaitInline(s, t, delay)
    ELSE WaitSuspended(s, t, delay)

-----------------------------------------------------------------------------
(* Life of a thread. *)

(* thread_init_common, and the frame its function allocates at index 0.    *)
thread_init_common(s, t) ==
    [s EXCEPT
        !.next  = [s.next EXCEPT ![t] = NULL],
        !.flags = [s.flags EXCEPT ![t] = {"INITIAL"}],
        !.leaf  = [s.leaf EXCEPT ![t] = 1]]

(* zsp_timebase_return pops the leaf frame.  Continues says whether it     *)
(* then runs the calling frame in the same activation.                     *)
ReturnContinues(s, t) ==
    s.leaf[t] > 1 /\ s.flags[t] \cap {"INITIAL", "BLOCKED"} = {}

(* Mutant: the calling frame is popped as well. *)
return_two_frames(s, t) == [s EXCEPT !.leaf = [s.leaf EXCEPT ![t] = @ - 2]]

zsp_timebase_return(s, t) ==
    [s EXCEPT
        !.leaf  = [s.leaf EXCEPT ![t] = @ - 1],
        !.flags = IF ReturnContinues(s, t)
                  THEN [s.flags EXCEPT ![t] = @ \ {"SUSPEND"}]
                  ELSE s.flags]

clear_next(s, t) == [s EXCEPT !.next = [s.next EXCEPT ![t] = NULL]]

(* A thread that still has a frame is scheduled again unless it blocked.   *)
Requeue(s, t) ==
    IF "BLOCKED" \in s.flags[t]
    THEN clear_next(s, t)
    ELSE zsp_timebase_schedule(
            [s EXCEPT !.flags = [s.flags EXCEPT ![t] = @ \ {"SUSPEND"}]], t)

(* thread_init_va once the function has returned. *)
FinishInit(s, t) ==
    LET called == [s EXCEPT !.flags = [s.flags EXCEPT ![t] = @ \ {"INITIAL"}]]
    IN  IF s.leaf[t] > 0
        THEN Requeue(called, t)
        ELSE clear_next(block_thread(called, t), t)

(* zsp_timebase_run once the function has returned; exit_f is called by    *)
(* the action, which knows whether there is one.                           *)
FinishRun(s, t) == IF s.leaf[t] > 0 THEN Requeue(s, t) ELSE s

(* Either of the two, for the activation of t that ends. *)
FinishActivation(s, t) ==
    IF "INITIAL" \in s.flags[t] THEN FinishInit(s, t) ELSE FinishRun(s, t)

(* Mutant: the thread that runs still counts as active. *)
BeginRunUncounted(s) == ready_queue_pop(s)

(* zsp_timebase_run up to the call of the task. *)
BeginRun(s) == ready_queue_pop([s EXCEPT !.active = s.active - 1])

-----------------------------------------------------------------------------
(* Advancing the time. *)

(* The assignment of current_time in zsp_timebase_advance. *)
BeginAdvance(s) == [s EXCEPT !.current_time = FirstEvent(s).wake_time]

(* One turn of its loop. *)
IsDue(s) == s.events # {} /\ FirstEvent(s).wake_time = s.current_time

MoveDue(s) ==
    LET e == FirstEvent(s)
    IN  ready_queue_add([s EXCEPT !.events = s.events \ {e}], e.thread)

(* The end of zsp_timebase_run_until. *)
FinishRunUntil(s, end_ticks) ==
    [s EXCEPT !.current_time = IF s.current_time < end_ticks
                               THEN end_ticks ELSE s.current_time,
              !.running = FALSE]

zsp_timebase_has_pending(s) == s.ready_head # NULL \/ s.events # {}

-----------------------------------------------------------------------------
(* The list that starts at ready_head, as the sequence q of length n.      *)

IsReadyList(s, n, q) ==
    /\ \A i, j \in 1 .. n : q[i] = q[j] => i = j
    /\ s.ready_head = IF n = 0 THEN NULL ELSE q[1]
    /\ s.ready_tail = IF n = 0 THEN NULL ELSE q[n]
    /\ \A i \in 1 .. n : s.next[q[i]] = IF i = n THEN NULL ELSE q[i + 1]
=============================================================================
