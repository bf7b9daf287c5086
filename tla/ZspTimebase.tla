----------------------------- MODULE ZspTimebase -----------------------------
(***************************************************************************)
(* The timebase at run time: a main program that creates threads and calls *)
(* zsp_timebase_run_until, zsp_timebase_run and zsp_timebase_advance, and   *)
(* tasks that, while the scheduler runs them, call back into it.           *)
(*                                                                         *)
(* Everything runs on one C stack.  exec is the part of that stack made of *)
(* task functions: its last thread is the one whose code executes.  A task *)
(* is entered by zsp_timebase_run, or by thread_init_va when a main        *)
(* program or another task creates it.                                     *)
(***************************************************************************)
EXTENDS TimebaseOps, Sequences

CONSTANTS
    Calls,      \* the calls the program makes, a subset of AllCalls
    Delays,     \* the delays passed to zsp_timebase_wait, in ticks
    EndTimes,   \* the end times passed to zsp_timebase_run_until, in ticks
    AutoFree,   \* threads created with exit_f = zsp_timebase_thread_free
    MaxTime,    \* bound on the times tasks wait for
    MaxSeq,     \* bound on event_seq
    MaxDepth    \* bound on the frames of a thread

AllCalls == {"yield", "wait", "block", "call", "stop", "run", "run_until",
             "free", "spawn"}

ASSUME CallsAssumption == Calls \subseteq AllCalls
ASSUME TimeAssumption == Delays \subseteq Nat /\ EndTimes \subseteq Nat
ASSUME AutoFreeAssumption == AutoFree \subseteq Thread

VARIABLES
    tb,         \* the timebase and the threads' fields
    created,    \* threads whose structure is allocated
    parked,     \* threads on the wait list of some primitive
    exec,       \* the task functions on the C stack
    pc,         \* where the main program is
    end_ticks   \* local variable of zsp_timebase_run_until

vars == <<tb, created, parked, exec, pc, end_ticks>>

(* "main": in the main program itself, or in a call of zsp_timebase_run.   *)
(* "until": in the inner loop of zsp_timebase_run_until.  The other two    *)
(* are inside zsp_timebase_advance, called from either place.              *)
Control == {"main", "until", "main_advance", "until_advance"}

Init ==
    /\ tb = zsp_timebase_init
    /\ created = {}
    /\ parked = {}
    /\ exec = <<>>
    /\ pc = "main"
    /\ end_ticks = 0

Executing(t) == exec # <<>> /\ t = exec[Len(exec)]
Idle == exec = <<>>

(* The executing task returns to the scheduler with the timebase in s.     *)
Leave(s, t) ==
    /\ tb' = FinishActivation(s, t)
    /\ exec' = SubSeq(exec, 1, Len(exec) - 1)
    /\ UNCHANGED <<pc, end_ticks>>

-----------------------------------------------------------------------------
(* The main program. *)

RunUntil(end) ==
    /\ "run_until" \in Calls
    /\ Idle /\ pc = "main"
    /\ pc' = "until"
    /\ end_ticks' = end
    /\ tb' = [tb EXCEPT !.running = TRUE]
    /\ UNCHANGED <<created, parked, exec>>

(* zsp_timebase_run, from run_until's inner loop or from the main program. *)
Run ==
    /\ Idle
    /\ \/ pc = "until" /\ tb.running
       \/ pc = "main" /\ "run" \in Calls
    /\ tb.ready_head # NULL
    /\ exec' = <<tb.ready_head>>
    /\ tb' = BeginRun(tb)
    /\ UNCHANGED <<created, parked, pc, end_ticks>>

(* run_until leaves its inner loop when nothing is ready or when a task    *)
(* called zsp_timebase_stop.                                               *)
InnerLoopDone == Idle /\ pc = "until" /\ (tb.ready_head = NULL \/ ~tb.running)

UntilAdvance ==
    /\ InnerLoopDone
    /\ EventAtOrBefore(tb, end_ticks)
    /\ tb' = BeginAdvance(tb)
    /\ pc' = "until_advance"
    /\ UNCHANGED <<created, parked, exec, end_ticks>>

UntilReturn ==
    /\ InnerLoopDone
    /\ ~EventAtOrBefore(tb, end_ticks)
    /\ tb' = FinishRunUntil(tb, end_ticks)
    /\ pc' = "main"
    /\ UNCHANGED <<created, parked, exec, end_ticks>>

(* The header asks the caller to advance only when nothing is ready.       *)
MainAdvance ==
    /\ "run" \in Calls
    /\ Idle /\ pc = "main"
    /\ tb.ready_head = NULL
    /\ tb.events # {}
    /\ tb' = BeginAdvance(tb)
    /\ pc' = "main_advance"
    /\ UNCHANGED <<created, parked, exec, end_ticks>>

AdvanceMove ==
    /\ pc \in {"main_advance", "until_advance"}
    /\ IsDue(tb)
    /\ tb' = MoveDue(tb)
    /\ UNCHANGED <<created, parked, exec, pc, end_ticks>>

AdvanceReturn ==
    /\ pc \in {"main_advance", "until_advance"}
    /\ ~IsDue(tb)
    /\ IF pc = "until_advance" /\ tb.running
       THEN pc' = "until" /\ tb' = tb
       ELSE /\ pc' = "main"
            /\ tb' = IF pc = "until_advance"
                     THEN FinishRunUntil(tb, end_ticks) ELSE tb
    /\ UNCHANGED <<created, parked, exec, end_ticks>>

(* zsp_timebase_thread_free of a thread that has completed. *)
ThreadFree(t) ==
    /\ "free" \in Calls
    /\ Idle /\ pc = "main"
    /\ t \in created \ AutoFree
    /\ tb.leaf[t] = 0
    /\ created' = created \ {t}
    /\ UNCHANGED <<tb, parked, exec, pc, end_ticks>>

-----------------------------------------------------------------------------
(* Calls made by the main program or by the executing task. *)

CanCall == exec # <<>> \/ pc = "main"

ThreadCreate(t) ==
    /\ CanCall
    /\ Idle \/ "spawn" \in Calls
    /\ t \notin created
    /\ created' = created \cup {t}
    /\ tb' = thread_init_common(tb, t)
    /\ exec' = Append(exec, t)
    /\ UNCHANGED <<parked, pc, end_ticks>>

(* A primitive takes t off its wait list and schedules it. *)
Wake(t) ==
    /\ CanCall
    /\ t \in parked
    /\ parked' = parked \ {t}
    /\ tb' = zsp_timebase_schedule(tb, t)
    /\ UNCHANGED <<created, exec, pc, end_ticks>>

-----------------------------------------------------------------------------
(* Calls made by the executing task t. *)

TaskYield(t) ==
    /\ Executing(t)
    /\ "yield" \in Calls
    /\ Leave(zsp_timebase_yield(tb, t), t)
    /\ UNCHANGED <<created, parked>>

(* zsp_timebase_wait returned 0: the task goes on. *)
TaskWaitInline(t, delay) ==
    /\ Executing(t)
    /\ "wait" \in Calls
    /\ WaitsInline(tb, t, delay)
    /\ tb.current_time + delay <= MaxTime
    /\ tb' = zsp_timebase_wait(tb, t, delay)
    /\ UNCHANGED <<created, parked, exec, pc, end_ticks>>

(* zsp_timebase_wait returned 1: the task returns to the scheduler. *)
TaskWait(t, delay) ==
    /\ Executing(t)
    /\ "wait" \in Calls
    /\ ~WaitsInline(tb, t, delay)
    /\ tb.current_time + delay <= MaxTime
    /\ tb.event_seq < MaxSeq
    /\ Leave(zsp_timebase_wait(tb, t, delay), t)
    /\ UNCHANGED <<created, parked>>

(* A primitive puts t on its wait list and blocks it. *)
TaskBlock(t) ==
    /\ Executing(t)
    /\ "block" \in Calls
    /\ parked' = parked \cup {t}
    /\ Leave(block_thread(tb, t), t)
    /\ UNCHANGED created

TaskCall(t) ==
    /\ Executing(t)
    /\ "call" \in Calls
    /\ tb.leaf[t] < MaxDepth
    /\ tb' = [tb EXCEPT !.leaf = [tb.leaf EXCEPT ![t] = @ + 1]]
    /\ UNCHANGED <<created, parked, exec, pc, end_ticks>>

(* The leaf frame returns and its caller runs on in the same activation.   *)
TaskReturnToCaller(t) ==
    /\ Executing(t)
    /\ ReturnContinues(tb, t)
    /\ tb' = zsp_timebase_return(tb, t)
    /\ UNCHANGED <<created, parked, exec, pc, end_ticks>>

(* The leaf frame returns and the activation ends: the thread completed,   *)
(* or a subtask returned while the thread was being created.               *)
TaskReturn(t) ==
    /\ Executing(t)
    /\ ~ReturnContinues(tb, t)
    /\ Leave(zsp_timebase_return(tb, t), t)
    /\ created' = IF /\ tb.leaf[t] = 1
                     /\ "INITIAL" \notin tb.flags[t]
                     /\ t \in AutoFree
                  THEN created \ {t} ELSE created
    /\ UNCHANGED parked

TaskStop(t) ==
    /\ Executing(t)
    /\ "stop" \in Calls
    /\ tb' = [tb EXCEPT !.running = FALSE]
    /\ UNCHANGED <<created, parked, exec, pc, end_ticks>>

-----------------------------------------------------------------------------

Scheduler ==
    \/ Run
    \/ UntilAdvance
    \/ UntilReturn
    \/ AdvanceMove
    \/ AdvanceReturn

Main ==
    \/ \E end \in EndTimes : RunUntil(end)
    \/ MainAdvance
    \/ \E t \in Thread : ThreadFree(t)

Task(t) ==
    \/ TaskYield(t)
    \/ \E delay \in Delays : TaskWaitInline(t, delay) \/ TaskWait(t, delay)
    \/ TaskBlock(t)
    \/ TaskCall(t)
    \/ TaskReturnToCaller(t)
    \/ TaskReturn(t)
    \/ TaskStop(t)

Next ==
    \/ Scheduler
    \/ Main
    \/ \E t \in Thread : ThreadCreate(t) \/ Wake(t) \/ Task(t)

Spec == Init /\ [][Next]_vars

(* The scheduler's own loops do not pause, and a cooperative task gives    *)
(* control back: every activation ends.                                    *)
GivesBack(t) ==
    \/ TaskYield(t)
    \/ \E delay \in Delays : TaskWait(t, delay)
    \/ TaskBlock(t)
    \/ TaskReturn(t)

Fairness ==
    /\ WF_vars(Scheduler)
    /\ \A t \in Thread : SF_vars(GivesBack(t))

FairSpec == Spec /\ Fairness
-----------------------------------------------------------------------------
(* Properties. *)

InExec(t) == \E i \in 1 .. Len(exec) : exec[i] = t

(* Live threads that are not executing and that no primitive and no delay  *)
(* holds back.                                                             *)
Runnable ==
    {t \in created : tb.leaf[t] > 0 /\ ~InExec(t) /\ "BLOCKED" \notin tb.flags[t]}

EventsOf(t) == {e \in tb.events : e.thread = t}

(* Every field has its type; the C stack holds each thread at most once.   *)
TypeOK ==
    /\ tb \in TimebaseState
    /\ created \subseteq Thread
    /\ parked \subseteq Thread
    /\ exec \in Seq(Thread)
    /\ pc \in Control
    /\ end_ticks \in Nat

(* ready_head, ready_tail and the next fields form one list without cycle  *)
(* or repetition, and its threads are exactly the runnable ones: nothing   *)
(* that can run is missing from it and nothing that waits, executes, has   *)
(* completed or has been freed is on it.                                   *)
ReadyListIsRunnable ==
    \E n \in 0 .. Cardinality(Thread) : \E q \in [1 .. n -> Thread] :
        /\ IsReadyList(tb, n, q)
        /\ {q[i] : i \in 1 .. n} = Runnable

(* A blocked thread is never forgotten: it has one event in the heap or it *)
(* is on the wait list of one primitive, and no other thread is on either. *)
BlockedIsAccounted ==
    \A t \in Thread :
        IF /\ t \in created
           /\ tb.leaf[t] > 0
           /\ "BLOCKED" \in tb.flags[t]
        THEN \/ t \in parked /\ EventsOf(t) = {}
             \/ t \notin parked /\ \E e \in tb.events : EventsOf(t) = {e}
        ELSE t \notin parked /\ EventsOf(t) = {}

(* active counts the threads in the ready queue and the pending events.    *)
ActiveIsPending ==
    tb.active = Cardinality(Runnable) + Cardinality(tb.events)

(* Where no task calls zsp_timebase_stop, a runnable thread gets the       *)
(* processor in run_until whatever the others do at the same time.         *)
ReadyRuns ==
    \A t \in Thread :
        (pc = "until" /\ t \in Runnable) ~> InExec(t)

(* Where no task calls zsp_timebase_stop, a delay that ends at or before   *)
(* the end time of run_until does end, before run_until returns, unless    *)
(* others keep the time still by never leaving the processor idle again.   *)
NeverIdleAgain == <>[](exec # <<>> \/ tb.ready_head # NULL)

DelayEnds ==
    \A t \in Thread :
        \/ NeverIdleAgain
        \/ (pc = "until" /\ \E e \in EventsOf(t) : e.wake_time <= end_ticks)
              ~> InExec(t)
=============================================================================
