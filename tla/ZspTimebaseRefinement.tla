------------------------ MODULE ZspTimebaseRefinement ------------------------
(***************************************************************************)
(* The timebase implements Scheduler.  The ready sequence is the list that *)
(* is linked through thread->next from ready_head, the timers are the      *)
(* heap's events.  zsp_timebase_advance moves the due events one by one;   *)
(* the specification moves them at once, so inside advance those still in  *)
(* the heap already count as ready.                                        *)
(***************************************************************************)
EXTENDS ZspTimebase

(* The threads met from ready_head on. *)
ReadyQueue ==
    CHOOSE q \in UNION {[1 .. n -> Thread] : n \in 0 .. Cardinality(Thread)} :
        IsReadyList(tb, Len(q), q)

DueNow == IF pc \in {"main_advance", "until_advance"}
          THEN {e \in tb.events : e.wake_time = tb.current_time} ELSE {}

(* The events E in the order of their sequence numbers. *)
IsInTurn(E, q) ==
    /\ \A i, j \in DOMAIN q : i < j => q[i].seq < q[j].seq
    /\ \A e \in E : \E i \in DOMAIN q : q[i] = e

BySeq(E) == CHOOSE q \in [1 .. Cardinality(E) -> E] : IsInTurn(E, q)

ThreadsOf(q) == [k \in 1 .. Len(q) |-> q[k].thread]

AbstractReady == ReadyQueue \o ThreadsOf(BySeq(DueNow))

AbstractState == [t \in Thread |->
    IF t \notin created THEN "absent"
    ELSE IF InExec(t) THEN "running"
    ELSE IF tb.leaf[t] = 0 THEN "done"
    ELSE IF t \in parked THEN "parked"
    ELSE IF "BLOCKED" \notin tb.flags[t] \/ \E e \in DueNow : e.thread = t THEN "ready"
    ELSE "timed"]

Abstract == INSTANCE Scheduler WITH
    now <- tb.current_time,
    ready <- AbstractReady,
    timers <- tb.events \ DueNow,
    seq <- tb.event_seq,
    state <- AbstractState

(* Every behaviour of the timebase is one of the abstract scheduler.       *)
ImplementsScheduler == Abstract!Spec
-----------------------------------------------------------------------------
(* Instances for TLC. *)

CONSTANTS t1, t2, t3

Threads2 == {t1, t2}
Threads3 == {t1, t2, t3}

NoThread == {}
OneAutoFree == {t1}

(* Everything; everything but zsp_timebase_stop, in one activation frame.  *)
CallsAll == AllCalls
CallsNoStop == AllCalls \ {"stop", "call", "free"}

ZeroOrTwo == {0, 2}
OneOrTwo == {1, 2}
TwoOrThree == {2, 3}
=============================================================================
