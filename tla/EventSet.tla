------------------------------ MODULE EventSet -------------------------------
(* What the event heap promises: a set of events, of which the first by     *)
(* wake time and then by sequence number can be removed.                    *)
EXTENDS Integers

CONSTANT Entry

VARIABLE pending

First(e) == \A f \in pending \ {e} :
                \/ e.wake_time < f.wake_time
                \/ e.wake_time = f.wake_time /\ e.seq < f.seq

Insert(e) == e \notin pending /\ pending' = pending \cup {e}
RemoveFirst == \E e \in pending : First(e) /\ pending' = pending \ {e}

Init == pending = {}
Next == RemoveFirst \/ \E e \in Entry : Insert(e)
Spec == Init /\ [][Next]_pending
=============================================================================
