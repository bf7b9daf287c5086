------------------------------ MODULE Scheduler ------------------------------
(***************************************************************************)
(* What a time-aware cooperative scheduler promises: the ready threads run *)
(* in the order in which they became ready, the threads that wait for the  *)
(* same time become ready in the order in which they started to wait, and  *)
(* time passes only when nothing is left to run, to the earliest time a    *)
(* thread waits for and never over it.                                     *)
(***************************************************************************)
EXTENDS Integers, Sequences

CONSTANTS Thread, Delays, EndTimes

VARIABLES
    now,      \* the current time
    ready,    \* the threads that can run, first to run first
    timers,   \* the waits in progress
    seq,      \* how many waits have begun
    state     \* what each thread is doing

vars == <<now, ready, timers, seq, state>>

ThreadState == {"absent", "running", "ready", "timed", "parked", "done"}

Init ==
    /\ now = 0
    /\ ready = <<>>
    /\ timers = {}
    /\ seq = 0
    /\ state = [t \in Thread |-> "absent"]

Move(t, from, to) == state[t] = from /\ state' = [state EXCEPT ![t] = to]

NoneRunning == \A t \in Thread : state[t] # "running"
AllTimersAfter(time) == \A w \in timers : w.wake_time > time

(* A thread starts inside the call that creates it. *)
Start(t) == Move(t, "absent", "running") /\ UNCHANGED <<now, ready, timers, seq>>

Dispatch ==
    /\ NoneRunning
    /\ ready # <<>>
    /\ Move(Head(ready), "ready", "running")
    /\ ready' = Tail(ready)
    /\ UNCHANGED <<now, timers, seq>>

BecomeReady(t, from) ==
    /\ Move(t, from, "ready")
    /\ ready' = Append(ready, t)
    /\ UNCHANGED <<now, timers, seq>>

Suspend(t) == BecomeReady(t, "running")
Wake(t) == BecomeReady(t, "parked")

Park(t) == Move(t, "running", "parked") /\ UNCHANGED <<now, ready, timers, seq>>

Sleep(t, delay) ==
    /\ Move(t, "running", "timed")
    /\ timers' = timers \cup
                    {[thread |-> t, wake_time |-> now + delay, seq |-> seq]}
    /\ seq' = seq + 1
    /\ UNCHANGED <<now, ready>>

(* A wait that nothing could interrupt passes without a switch. *)
SleepInline(t, delay) ==
    /\ state[t] = "running"
    /\ ready = <<>>
    /\ AllTimersAfter(now + delay)
    /\ now' = now + delay
    /\ UNCHANGED <<ready, timers, seq, state>>

Finish(t) ==
    /\ \/ Move(t, "running", "done")
       \/ Move(t, "running", "absent")
    /\ UNCHANGED <<now, ready, timers, seq>>

Free(t) == Move(t, "done", "absent") /\ UNCHANGED <<now, ready, timers, seq>>

(* r holds the threads of the waits W, those that began first in front.    *)
InTurn(W, r) ==
    /\ r \in Seq(Thread)
    /\ \E q \in [DOMAIN r -> W] :
          /\ \A i, j \in DOMAIN r : i < j => q[i].seq < q[j].seq
          /\ \A w \in W : \E i \in DOMAIN r : q[i] = w
          /\ \A i \in DOMAIN r : r[i] = q[i].thread

(* All the threads that wait for the earliest time become ready together. *)
Tick ==
    /\ NoneRunning
    /\ ready = <<>>
    /\ \E w \in timers :
          LET due == {v \in timers : v.wake_time = w.wake_time}
          IN  /\ \A v \in timers : w.wake_time <= v.wake_time
              /\ now' = w.wake_time
              /\ InTurn(due, ready')
              /\ timers' = timers \ due
              /\ state' = [t \in Thread |->
                             IF \E v \in due : v.thread = t THEN "ready" ELSE state[t]]
    /\ UNCHANGED seq

(* The end time of a run is reached with nothing left to do before it. *)
ReachEnd(end) ==
    /\ NoneRunning
    /\ ready = <<>>
    /\ AllTimersAfter(end)
    /\ now < end
    /\ now' = end
    /\ UNCHANGED <<ready, timers, seq, state>>

Next ==
    \/ Dispatch
    \/ Tick
    \/ \E end \in EndTimes : ReachEnd(end)
    \/ \E t \in Thread :
          \/ Start(t) \/ Suspend(t) \/ Park(t) \/ Wake(t) \/ Finish(t) \/ Free(t)
          \/ \E delay \in Delays : Sleep(t, delay) \/ SleepInline(t, delay)

Spec == Init /\ [][Next]_vars
=============================================================================
