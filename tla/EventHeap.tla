------------------------------ MODULE EventHeap ------------------------------
(***************************************************************************)
(* The binary min-heap in which the timebase keeps its events              *)
(* (zsp_timebase.c): an array that doubles when it is full, a sift-up loop *)
(* after a push and a sift-down loop after a pop.  One step is one turn of *)
(* a loop, so that what holds between the turns can be stated.             *)
(***************************************************************************)
EXTENDS Integers

CONSTANTS
    Entry,                    \* the events that may be pushed
    INITIAL_EVENT_CAPACITY,
    MaxCapacity               \* bound on the capacity

ASSUME EntryAssumption == Entry \subseteq [wake_time : Nat, seq : Nat]
ASSUME CapacityAssumption == INITIAL_EVENT_CAPACITY \in Nat \ {0}

VARIABLES
    events,          \* the array, indices 0 .. event_capacity - 1
    event_count,
    event_capacity,
    idx,             \* the position the running loop is at
    pc               \* "idle", "sift_up" or "sift_down"

vars == <<events, event_count, event_capacity, idx, pc>>

(* heap_compare(e, f) < 0 *)
Before(e, f) ==
    \/ e.wake_time < f.wake_time
    \/ e.wake_time = f.wake_time /\ e.seq < f.seq

Parent(i) == (i - 1) \div 2
Left(i) == 2 * i + 1
Right(i) == 2 * i + 2

(* event_count is incremented after the sift-up loop of a push. *)
Size == IF pc = "sift_up" THEN event_count + 1 ELSE event_count
Pending == {events[i] : i \in 0 .. Size - 1}

Init ==
    /\ events \in [0 .. INITIAL_EVENT_CAPACITY - 1 -> Entry]   \* uninitialised
    /\ event_count = 0
    /\ event_capacity = INITIAL_EVENT_CAPACITY
    /\ idx = 0
    /\ pc = "idle"

Swap(i, j) == [events EXCEPT ![i] = events[j], ![j] = events[i]]

(* heap_push up to its call of heap_sift_up.  No two events carry the same *)
(* sequence number (EventsOf in ZspTimebase).                              *)
HeapPush(e) ==
    /\ pc = "idle"
    /\ \A i \in 0 .. event_count - 1 : events[i].seq # e.seq
    /\ IF event_count >= event_capacity
       THEN /\ 2 * event_capacity <= MaxCapacity
            /\ event_capacity' = 2 * event_capacity
            /\ events' = [i \in 0 .. 2 * event_capacity - 1 |->
                            IF i < event_count THEN events[i] ELSE e]
       ELSE /\ UNCHANGED event_capacity
            /\ events' = [events EXCEPT ![event_count] = e]
    /\ idx' = event_count
    /\ pc' = "sift_up"
    /\ UNCHANGED event_count

SiftUpSwap ==
    /\ pc = "sift_up"
    /\ idx > 0
    /\ Before(events[idx], events[Parent(idx)])
    /\ events' = Swap(idx, Parent(idx))
    /\ idx' = Parent(idx)
    /\ UNCHANGED <<event_count, event_capacity, pc>>

SiftUpDone ==
    /\ pc = "sift_up"
    /\ idx > 0 => ~Before(events[idx], events[Parent(idx)])
    /\ event_count' = event_count + 1
    /\ pc' = "idle"
    /\ UNCHANGED <<events, event_capacity, idx>>

(* Mutants: the moved entry is not sifted; the wrong entry is moved. *)
HeapPopNoSift ==
    /\ pc = "idle"
    /\ event_count > 0
    /\ event_count' = event_count - 1
    /\ events' = [events EXCEPT ![0] = events[event_count - 1]]
    /\ UNCHANGED <<event_capacity, idx, pc>>

HeapPopOffByOne ==
    /\ pc = "idle"
    /\ event_count > 1
    /\ event_count' = event_count - 1
    /\ events' = [events EXCEPT ![0] = events[event_count - 2]]
    /\ pc' = "sift_down"
    /\ idx' = 0
    /\ UNCHANGED event_capacity

(* heap_pop up to its call of heap_sift_down. *)
HeapPop ==
    /\ pc = "idle"
    /\ event_count > 0
    /\ event_count' = event_count - 1
    /\ IF event_count > 1
       THEN /\ events' = [events EXCEPT ![0] = events[event_count - 1]]
            /\ pc' = "sift_down"
       ELSE UNCHANGED <<events, pc>>
    /\ idx' = 0
    /\ UNCHANGED event_capacity

(* Mutant: the right child is not looked at. *)
SmallestLeftOnly(i) ==
    IF Left(i) < event_count /\ Before(events[Left(i)], events[i])
    THEN Left(i) ELSE i

(* The smallest of a position and its children, as the loop finds it. *)
Smallest(i) ==
    LET withLeft == IF Left(i) < event_count /\ Before(events[Left(i)], events[i])
                    THEN Left(i) ELSE i
    IN  IF Right(i) < event_count /\ Before(events[Right(i)], events[withLeft])
        THEN Right(i) ELSE withLeft

SiftDownSwap ==
    /\ pc = "sift_down"
    /\ Smallest(idx) # idx
    /\ events' = Swap(idx, Smallest(idx))
    /\ idx' = Smallest(idx)
    /\ UNCHANGED <<event_count, event_capacity, pc>>

SiftDownDone ==
    /\ pc = "sift_down"
    /\ Smallest(idx) = idx
    /\ pc' = "idle"
    /\ UNCHANGED <<events, event_count, event_capacity, idx>>

Next ==
    \/ \E e \in Entry : HeapPush(e)
    \/ SiftUpSwap \/ SiftUpDone
    \/ HeapPop
    \/ SiftDownSwap \/ SiftDownDone

Spec == Init /\ [][Next]_vars

-----------------------------------------------------------------------------
(* Properties. *)

(* The array has its capacity, the counts stay inside it. *)
TypeOK ==
    /\ event_capacity \in Nat \ {0}
    /\ events \in [0 .. event_capacity - 1 -> Entry]
    /\ event_count \in 0 .. event_capacity
    /\ idx \in Nat
    /\ pc \in {"idle", "sift_up", "sift_down"}
    /\ pc = "sift_up" => idx <= event_count /\ event_count < event_capacity
    /\ pc = "sift_down" => idx < event_count

Ordered(i) == ~Before(events[i], events[Parent(i)])
BelowGrandparent(i) == ~Before(events[i], events[Parent(Parent(i))])

(* Between the turns of a loop, only the position the loop is at may be    *)
(* out of order, and its children are in order with its parent.            *)
HeapOrder ==
    /\ pc = "idle" => \A i \in 1 .. event_count - 1 : Ordered(i)
    /\ pc = "sift_up" =>
         \A i \in 1 .. event_count :
            /\ i # idx => Ordered(i)
            /\ Parent(i) = idx /\ idx > 0 => BelowGrandparent(i)
    /\ pc = "sift_down" =>
         \A i \in 1 .. event_count - 1 :
            /\ Parent(i) # idx => Ordered(i)
            /\ Parent(i) = idx /\ idx > 0 => BelowGrandparent(i)

(* events[0], which advance and run_until read and heap_pop returns, is    *)
(* before every other event.                                               *)
RootIsFirst ==
    pc = "idle" => \A i \in 0 .. event_count - 1 : ~Before(events[i], events[0])

(* The heap implements a set of events that gives up its first one: no     *)
(* entry is lost, doubled or left stale by the swaps, the growth or the    *)
(* move of the last entry to the root.                                     *)
Abstract == INSTANCE EventSet WITH pending <- Pending
ImplementsEventSet == Abstract!Spec
=============================================================================
