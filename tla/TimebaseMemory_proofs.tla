------------------------- MODULE TimebaseMemory_proofs -------------------------
(***************************************************************************)
(* What the timebase promises of the two kinds of memory it manages.       *)
(*                                                                         *)
(* For every set of events and every capacity: the array of the event heap *)
(* is a heap between two operations, hence its first element, which        *)
(* zsp_timebase_advance takes, is before all the others.  The argument is  *)
(* HeapOrder, which also says what holds between two turns of the loops.   *)
(*                                                                         *)
(* For any number of threads and frames that fit into a block: no two      *)
(* frames or allocations share a byte, however threads hand blocks to each *)
(* other through the free lists.                                           *)
(***************************************************************************)
EXTENDS EventHeap, StackBlocks, WellFoundedInduction, SequenceTheorems, TLAPS

-----------------------------------------------------------------------------
(* The order of the events. *)

(* Of two events at most one is before the other. *)
LEMMA BeforeAsymmetric ==
    ASSUME NEW e \in Entry, NEW f \in Entry, Before(e, f)
    PROVE  ~Before(f, e)
BY EntryAssumption DEF Before

(* No event is before itself. *)
LEMMA BeforeIrreflexive ==
    ASSUME NEW e \in Entry
    PROVE  ~Before(e, e)
BY EntryAssumption DEF Before

(* "Not after" is transitive, also where events tie. *)
LEMMA NotBeforeTransitive ==
    ASSUME NEW e \in Entry, NEW f \in Entry, NEW g \in Entry,
           ~Before(f, e), ~Before(g, f)
    PROVE  ~Before(g, e)
BY EntryAssumption DEF Before

(* The shape of the tree: the parent of a position is left of it, and the  *)
(* children of a position are Left and Right.                              *)
LEMMA ParentOf ==
    ASSUME NEW i \in Nat, i > 0
    PROVE  /\ Parent(i) \in Nat
           /\ Parent(i) < i
           /\ i = Left(Parent(i)) \/ i = Right(Parent(i))
BY DEF Parent, Left, Right

(* The children of a position and their parent. *)
LEMMA ChildrenOf ==
    ASSUME NEW i \in Nat
    PROVE  /\ Left(i) \in Nat /\ Left(i) > i /\ Parent(Left(i)) = i
           /\ Right(i) \in Nat /\ Right(i) > i /\ Parent(Right(i)) = i
BY DEF Parent, Left, Right

(* The loop of heap_sift_down finds a position that is a child or the      *)
(* position itself, and whose entry no child precedes.                     *)
LEMMA SmallestOf ==
    ASSUME TypeOK, NEW i \in Nat, i < event_count
    PROVE  /\ Smallest(i) \in {i, Left(i), Right(i)}
           /\ Smallest(i) < event_count
           /\ Left(i) < event_count => ~Before(events[Left(i)], events[Smallest(i)])
           /\ Right(i) < event_count => ~Before(events[Right(i)], events[Smallest(i)])
           /\ Smallest(i) # i => Before(events[Smallest(i)], events[i])
<1>1. event_count \in Nat /\ event_capacity \in Nat /\ event_count <= event_capacity
  BY DEF TypeOK
<1>2. \A k \in Nat : k < event_count => events[k] \in Entry
  BY <1>1 DEF TypeOK
<1>3. Left(i) \in Nat /\ Right(i) \in Nat
  BY ChildrenOf
<1> DEFINE l == IF Left(i) < event_count /\ Before(events[Left(i)], events[i])
                THEN Left(i) ELSE i
<1>4. /\ l \in {i, Left(i)}
      /\ l < event_count
      /\ Left(i) < event_count => ~Before(events[Left(i)], events[l])
      /\ l # i => Before(events[l], events[i])
  BY <1>2, <1>3, BeforeIrreflexive
<1>5. Smallest(i) = IF Right(i) < event_count /\ Before(events[Right(i)], events[l])
                    THEN Right(i) ELSE l
  BY DEF Smallest
<1> HIDE DEF l
<1>6. CASE Right(i) < event_count /\ Before(events[Right(i)], events[l])
  <2>1. Smallest(i) = Right(i)
    BY <1>5, <1>6
  <2>2. Before(events[Right(i)], events[i])
    BY <1>2, <1>3, <1>4, <1>6, NotBeforeTransitive, BeforeAsymmetric
  <2>3. Left(i) < event_count => ~Before(events[Left(i)], events[Right(i)])
    BY <1>2, <1>3, <1>4, <1>6, NotBeforeTransitive, BeforeAsymmetric
  <2> QED
    BY <1>2, <1>3, <1>6, <2>1, <2>2, <2>3, BeforeIrreflexive
<1>7. CASE ~(Right(i) < event_count /\ Before(events[Right(i)], events[l]))
  <2>1. Smallest(i) = l
    BY <1>5, <1>7
  <2> QED
    BY <1>4, <1>7, <2>1
<1> QED
  BY <1>6, <1>7

-----------------------------------------------------------------------------

(* The array keeps its size and the counters stay inside it. *)
THEOREM TypeCorrect == Spec => []TypeOK
<1>1. Init => TypeOK
  BY CapacityAssumption DEF Init, TypeOK
<1>2. TypeOK /\ [Next]_vars => TypeOK'
  <2> SUFFICES ASSUME TypeOK, [Next]_vars PROVE TypeOK'
    OBVIOUS
  <2>1. ASSUME NEW e \in Entry, HeapPush(e) PROVE TypeOK'
    <3>1. CASE event_count >= event_capacity
      BY <2>1, <3>1 DEF HeapPush, TypeOK
    <3>2. CASE ~(event_count >= event_capacity)
      BY <2>1, <3>2 DEF HeapPush, TypeOK
    <3> QED
      BY <3>1, <3>2
  <2>2. CASE SiftUpSwap
    BY <2>2, ParentOf DEF SiftUpSwap, TypeOK, Swap
  <2>3. CASE SiftUpDone
    BY <2>3 DEF SiftUpDone, TypeOK
  <2>4. CASE HeapPop
    BY <2>4 DEF HeapPop, TypeOK
  <2>5. CASE SiftDownSwap
    <3>1. idx \in Nat /\ idx < event_count
      BY <2>5 DEF TypeOK, SiftDownSwap
    <3>2. Smallest(idx) \in Nat /\ Smallest(idx) < event_count
      BY <3>1, SmallestOf, ChildrenOf
    <3> QED
      BY <2>5, <3>1, <3>2 DEF SiftDownSwap, TypeOK, Swap
  <2>6. CASE SiftDownDone
    BY <2>6 DEF SiftDownDone, TypeOK
  <2>7. CASE UNCHANGED vars
    BY <2>7 DEF vars, TypeOK
  <2> QED
    BY <2>1, <2>2, <2>3, <2>4, <2>5, <2>6, <2>7 DEF Next
<1> QED
  BY <1>1, <1>2, PTL DEF Spec
-----------------------------------------------------------------------------
(* HeapOrder is inductive: one step per action that touches the array.     *)

(* A push disturbs the order only at the new last position. *)
LEMMA PushKeepsOrder ==
    ASSUME TypeOK, HeapOrder, NEW e \in Entry, HeapPush(e)
    PROVE  HeapOrder'
<1>1. /\ event_count \in Nat /\ event_count' = event_count /\ idx' = event_count
      /\ pc = "idle" /\ pc' = "sift_up"
      /\ \A i \in Nat : i < event_count => events'[i] = events[i]
  <2>1. CASE event_count >= event_capacity
    BY <2>1 DEF HeapPush, TypeOK
  <2>2. CASE ~(event_count >= event_capacity)
    BY <2>2 DEF HeapPush, TypeOK
  <2> QED
    BY <2>1, <2>2
<1>2. \A i \in 1 .. event_count - 1 : Ordered(i)
  BY <1>1 DEF HeapOrder
<1>3. ASSUME NEW i \in 1 .. event_count
      PROVE  /\ i # idx' => Ordered(i)'
             /\ ~(Parent(i) = idx')
  BY <1>1, <1>2, ParentOf DEF Ordered
<1> QED
  BY <1>1, <1>3 DEF HeapOrder

(* A turn of heap_sift_up moves the disturbance to the parent. *)
LEMMA SiftUpKeepsOrder ==
    ASSUME TypeOK, HeapOrder, SiftUpSwap
    PROVE  HeapOrder'
<1> DEFINE p == Parent(idx)
<1>1. /\ idx \in Nat /\ idx > 0 /\ idx <= event_count
      /\ event_count \in Nat /\ event_count < event_capacity /\ event_capacity \in Nat
      /\ p \in Nat /\ p < idx
  BY ParentOf DEF SiftUpSwap, TypeOK
<1>2. /\ pc = "sift_up" /\ pc' = "sift_up" /\ idx' = p
      /\ event_count' = event_count
      /\ Before(events[idx], events[p])
  BY DEF SiftUpSwap
<1>3. /\ events'[idx] = events[p]
      /\ events'[p] = events[idx]
      /\ \A i \in 0 .. event_count : i # idx /\ i # p => events'[i] = events[i]
      /\ \A i \in 0 .. event_count : events[i] \in Entry
  BY <1>1 DEF SiftUpSwap, Swap, TypeOK
<1>4. /\ \A i \in 1 .. event_count : i # idx => Ordered(i)
      /\ \A i \in 1 .. event_count : Parent(i) = idx => BelowGrandparent(i)
  BY <1>1, <1>2 DEF HeapOrder
<1> HIDE DEF p
<1>5. ASSUME NEW i \in 1 .. event_count, i # p
      PROVE  Ordered(i)'
  <2>1. Parent(i) \in Nat /\ Parent(i) < i /\ Parent(i) \in 0 .. event_count
    BY ParentOf, <1>1
  <2>2. CASE i = idx
    BY <1>1, <1>2, <1>3, <2>2, BeforeAsymmetric DEF Ordered, p
  <2>3. CASE i # idx /\ Parent(i) = idx
    BY <1>1, <1>3, <1>4, <1>5, <2>3 DEF Ordered, BelowGrandparent, p
  <2>4. CASE i # idx /\ Parent(i) = p
    <3>1. ~Before(events[i], events[p])
      BY <1>4, <2>4 DEF Ordered
    <3>2. ~Before(events[p], events[idx])
      BY <1>1, <1>2, <1>3, BeforeAsymmetric
    <3> QED
      BY <1>1, <1>3, <1>5, <2>4, <3>1, <3>2, NotBeforeTransitive DEF Ordered
  <2>5. CASE i # idx /\ Parent(i) # idx /\ Parent(i) # p
    BY <1>3, <1>4, <1>5, <2>1, <2>5 DEF Ordered
  <2> QED
    BY <2>2, <2>3, <2>4, <2>5
<1>6. ASSUME NEW i \in 1 .. event_count, Parent(i) = p, p > 0
      PROVE  BelowGrandparent(i)'
  <2>1. /\ p \in 1 .. event_count
        /\ Parent(p) \in 0 .. event_count /\ Parent(p) # p /\ Parent(p) # idx
    BY <1>1, <1>6, ParentOf
  <2>2. ~Before(events[p], events[Parent(p)]) /\ events'[Parent(p)] = events[Parent(p)]
    BY <1>1, <1>3, <1>4, <2>1 DEF Ordered
  <2>3. CASE i = idx
    BY <1>3, <1>6, <2>2, <2>3 DEF BelowGrandparent
  <2>4. CASE i # idx
    <3>1. i # p
      BY <1>6, <2>1, ParentOf
    <3>2. ~Before(events[i], events[p])
      BY <1>4, <1>6, <2>4 DEF Ordered
    <3>3. ~Before(events[i], events[Parent(p)])
      BY <1>1, <1>3, <2>1, <2>2, <3>2, NotBeforeTransitive
    <3> QED
      BY <1>3, <1>6, <2>2, <2>4, <3>1, <3>3 DEF BelowGrandparent
  <2> QED
    BY <2>3, <2>4
<1> QED
  BY <1>2, <1>5, <1>6 DEF HeapOrder

(* Where heap_sift_up stops there is none. *)
LEMMA SiftUpEndsInOrder ==
    ASSUME TypeOK, HeapOrder, SiftUpDone
    PROVE  HeapOrder'
<1>1. /\ pc = "sift_up" /\ pc' = "idle" /\ event_count' = event_count + 1
      /\ events' = events /\ event_count \in Nat
      /\ idx > 0 => Ordered(idx)
  BY DEF SiftUpDone, TypeOK, Ordered
<1>2. \A i \in 1 .. event_count : Ordered(i)
  BY <1>1 DEF HeapOrder, TypeOK
<1> QED
  BY <1>1, <1>2 DEF HeapOrder, Ordered

(* A pop disturbs the order only below the root. *)
LEMMA PopKeepsOrder ==
    ASSUME TypeOK, HeapOrder, HeapPop
    PROVE  HeapOrder'
<1>1. /\ event_count \in Nat /\ event_count > 0 /\ event_count <= event_capacity
      /\ event_count' = event_count - 1 /\ idx' = 0 /\ pc = "idle"
      /\ \A i \in 1 .. event_count - 1 : Ordered(i)
  BY DEF HeapPop, TypeOK, HeapOrder
<1>2. CASE event_count > 1
  <2>1. pc' = "sift_down" /\ \A i \in 1 .. event_count - 1 : events'[i] = events[i]
    BY <1>1, <1>2 DEF HeapPop, TypeOK
  <2>2. ASSUME NEW i \in 1 .. event_count' - 1, Parent(i) # 0
        PROVE  Ordered(i)'
    BY <1>1, <2>1, <2>2, ParentOf DEF Ordered
  <2> QED
    BY <1>1, <2>1, <2>2 DEF HeapOrder
<1>3. CASE ~(event_count > 1)
  <2>1. pc' = "idle" /\ event_count' = 0
    BY <1>1, <1>3 DEF HeapPop
  <2> QED
    BY <2>1 DEF HeapOrder
<1> QED
  BY <1>2, <1>3

(* A turn of heap_sift_down moves the disturbance to a child. *)
LEMMA SiftDownKeepsOrder ==
    ASSUME TypeOK, HeapOrder, SiftDownSwap
    PROVE  HeapOrder'
<1> DEFINE c == Smallest(idx)
<1>1. /\ idx \in Nat /\ idx < event_count /\ event_count \in Nat
      /\ event_count <= event_capacity /\ event_capacity \in Nat
  BY DEF SiftDownSwap, TypeOK
<1>2. /\ c \in Nat /\ c > idx /\ c < event_count /\ Parent(c) = idx
      /\ Before(events[c], events[idx])
      /\ \A i \in 1 .. event_count - 1 :
            Parent(i) = idx => ~Before(events[i], events[c])
  BY <1>1, SmallestOf, ChildrenOf, ParentOf DEF SiftDownSwap
<1>3. /\ pc = "sift_down" /\ pc' = "sift_down" /\ idx' = c
      /\ event_count' = event_count
  BY DEF SiftDownSwap
<1>4. /\ events'[idx] = events[c]
      /\ events'[c] = events[idx]
      /\ \A i \in 0 .. event_count - 1 : i # idx /\ i # c => events'[i] = events[i]
      /\ \A i \in 0 .. event_count - 1 : events[i] \in Entry
  BY <1>1, <1>2 DEF SiftDownSwap, Swap, TypeOK
<1>5. /\ \A i \in 1 .. event_count - 1 : Parent(i) # idx => Ordered(i)
      /\ \A i \in 1 .. event_count - 1 :
            Parent(i) = idx /\ idx > 0 => BelowGrandparent(i)
  BY <1>3 DEF HeapOrder
<1> HIDE DEF c
<1>6. ASSUME NEW i \in 1 .. event_count - 1, Parent(i) # c
      PROVE  Ordered(i)'
  <2>1. Parent(i) \in 0 .. event_count - 1 /\ Parent(i) < i
    BY ParentOf, <1>1
  <2>2. CASE i = c
    BY <1>1, <1>2, <1>4, <2>2, BeforeAsymmetric DEF Ordered
  <2>3. CASE i = idx
    <3>1. BelowGrandparent(c)
      BY <1>1, <1>2, <1>5, <2>3
    <3> QED
      BY <1>1, <1>2, <1>4, <1>6, <2>1, <2>3, <3>1 DEF Ordered, BelowGrandparent
  <2>4. CASE i # c /\ i # idx /\ Parent(i) = idx
    BY <1>1, <1>2, <1>4, <2>4 DEF Ordered
  <2>5. CASE i # c /\ i # idx /\ Parent(i) # idx
    BY <1>4, <1>5, <1>6, <2>1, <2>5 DEF Ordered
  <2> QED
    BY <2>2, <2>3, <2>4, <2>5
<1>7. ASSUME NEW i \in 1 .. event_count - 1, Parent(i) = c
      PROVE  BelowGrandparent(i)'
  <2>1. i > c /\ i # idx /\ c # idx
    BY <1>2, <1>7, ParentOf
  <2>2. Ordered(i)
    BY <1>2, <1>5, <1>7
  <2> QED
    BY <1>2, <1>4, <1>7, <2>1, <2>2 DEF Ordered, BelowGrandparent
<1> QED
  BY <1>3, <1>6, <1>7 DEF HeapOrder

(* Where heap_sift_down stops there is none. *)
LEMMA SiftDownEndsInOrder ==
    ASSUME TypeOK, HeapOrder, SiftDownDone
    PROVE  HeapOrder'
<1>1. /\ pc = "sift_down" /\ pc' = "idle" /\ event_count' = event_count
      /\ events' = events /\ idx \in Nat /\ idx < event_count /\ Smallest(idx) = idx
      /\ event_count \in Nat
  BY DEF SiftDownDone, TypeOK
<1>2. ASSUME NEW i \in 1 .. event_count - 1
      PROVE  Ordered(i)
  <2>1. CASE Parent(i) = idx
    BY <1>1, <2>1, SmallestOf, ParentOf DEF Ordered
  <2>2. CASE Parent(i) # idx
    BY <1>1, <2>2 DEF HeapOrder
  <2> QED
    BY <2>1, <2>2
<1> QED
  BY <1>1, <1>2 DEF HeapOrder, Ordered

(* Between two turns of the loops the array is a heap except around idx.   *)
THEOREM HeapOrderInvariant == Spec => []HeapOrder
<1>1. Init => HeapOrder
  BY DEF Init, HeapOrder
<1>2. TypeOK /\ HeapOrder /\ [Next]_vars => HeapOrder'
  <2> SUFFICES ASSUME TypeOK, HeapOrder, [Next]_vars PROVE HeapOrder'
    OBVIOUS
  <2>1. CASE UNCHANGED vars
    BY <2>1 DEF vars, HeapOrder, Ordered, BelowGrandparent
  <2> QED
    BY <2>1, PushKeepsOrder, SiftUpKeepsOrder, SiftUpEndsInOrder, PopKeepsOrder,
       SiftDownKeepsOrder, SiftDownEndsInOrder DEF Next
<1> QED
  BY <1>1, <1>2, TypeCorrect, PTL DEF Spec

-----------------------------------------------------------------------------
(* In a heap no entry is before the root: the least position that held     *)
(* such an entry would have a parent that holds one too.                   *)
LEMMA HeapRoot ==
    ASSUME TypeOK, HeapOrder
    PROVE  RootIsFirst
<1> SUFFICES ASSUME pc = "idle",
                    NEW j \in 0 .. event_count - 1, Before(events[j], events[0])
             PROVE  FALSE
  BY DEF RootIsFirst
<1> DEFINE Bad == {i \in Nat : i < event_count /\ Before(events[i], events[0])}
<1>1. /\ event_count \in Nat
      /\ \A i \in Nat : i < event_count => events[i] \in Entry
  BY DEF TypeOK
<1>2. Bad \subseteq Nat /\ j \in Bad
  BY <1>1
<1>3. PICK m \in Bad : \A i \in Bad : <<i, m>> \notin OpToRel(<, Nat)
  BY <1>2, NatLessThanWellFounded, WFMin
<1>4. m \in Nat /\ m < event_count /\ Before(events[m], events[0])
  BY <1>3
<1>5. m > 0
  BY <1>1, <1>4, BeforeIrreflexive
<1>6. Parent(m) \in Nat /\ Parent(m) < m
  BY <1>4, <1>5, ParentOf
<1>7. ~Before(events[m], events[Parent(m)])
  BY <1>1, <1>4, <1>5 DEF HeapOrder, Ordered
<1>8. Parent(m) \in Bad
  BY <1>1, <1>4, <1>6, <1>7, NotBeforeTransitive
<1> QED
  BY <1>3, <1>4, <1>6, <1>8 DEF OpToRel

(* heap_pop, advance and run_until find the first event at events[0].      *)
THEOREM RootFirst == Spec => []RootIsFirst
BY TypeCorrect, HeapOrderInvariant, HeapRoot, PTL

-----------------------------------------------------------------------------
(* The heap as a set. *)

(* No two of the entries in use carry one sequence number. *)
DistinctEntries ==
    \A i, j \in 0 .. Size - 1 : events[i].seq = events[j].seq => i = j

(* What the counters say about the positions in use. *)
LEMMA SizeType ==
    ASSUME TypeOK
    PROVE  /\ Size \in Nat
           /\ \A i \in 0 .. Size - 1 : i \in 0 .. event_capacity - 1 /\ events[i] \in Entry
           /\ pc = "sift_up" => idx \in 0 .. Size - 1
           /\ pc = "sift_down" => idx \in 0 .. Size - 1
BY DEF TypeOK, Size

(* The swap of two positions in use leaves the entries as they are, and    *)
(* keeps them distinct.                                                    *)
LEMMA SwapKeepsEntries ==
    ASSUME TypeOK, NEW i \in 0 .. Size - 1, NEW j \in 0 .. Size - 1,
           events' = Swap(i, j), Size' = Size
    PROVE  /\ Pending' = Pending
           /\ DistinctEntries => DistinctEntries'
<1>1. /\ Size \in Nat
      /\ \A k \in 0 .. Size - 1 : k \in 0 .. event_capacity - 1 /\ events[k] \in Entry
  BY SizeType
<1>2. \A k \in 0 .. Size - 1 :
         events'[k] = IF k = j THEN events[i] ELSE IF k = i THEN events[j] ELSE events[k]
  BY <1>1 DEF Swap, TypeOK
<1>3. Pending' \subseteq Pending
  BY <1>2 DEF Pending
<1>4. \A k \in 0 .. Size - 1 : \E l \in 0 .. Size - 1 : events[k] = events'[l]
  BY <1>2
<1>5. Pending \subseteq Pending'
  BY <1>4 DEF Pending
<1>6. DistinctEntries => DistinctEntries'
  BY <1>2 DEF DistinctEntries
<1> QED
  BY <1>3, <1>5, <1>6

(* heap_push adds its entry. *)
LEMMA PushInserts ==
    ASSUME TypeOK, DistinctEntries, NEW e \in Entry, HeapPush(e)
    PROVE  /\ Pending' = Pending \cup {e} /\ e \notin Pending
           /\ DistinctEntries'
<1>1. Size = event_count /\ Size' = event_count + 1 /\ event_count \in Nat
  BY DEF HeapPush, Size, TypeOK
<1>2. /\ \A i \in 0 .. event_count - 1 : events'[i] = events[i]
      /\ events'[event_count] = e
  <2>1. CASE event_count >= event_capacity
    BY <1>1, <2>1 DEF HeapPush, TypeOK
  <2>2. CASE ~(event_count >= event_capacity)
    BY <1>1, <2>2 DEF HeapPush, TypeOK
  <2> QED
    BY <2>1, <2>2
<1>3. \A i \in 0 .. event_count - 1 : events[i].seq # e.seq
  BY DEF HeapPush
<1>4. e \notin Pending
  BY <1>1, <1>3 DEF Pending
<1>5. Pending' = Pending \cup {e}
  BY <1>1, <1>2 DEF Pending
<1>6. DistinctEntries'
  BY <1>1, <1>2, <1>3 DEF DistinctEntries
<1> QED
  BY <1>4, <1>5, <1>6

(* heap_pop takes the root away and nothing else, although it overwrites   *)
(* it with the last entry.                                                 *)
LEMMA PopRemovesRoot ==
    ASSUME TypeOK, DistinctEntries, HeapPop
    PROVE  /\ events[0] \in Pending
           /\ Pending' = Pending \ {events[0]}
           /\ DistinctEntries'
<1>1. /\ event_count \in Nat \ {0} /\ Size = event_count
      /\ Size' = event_count - 1 /\ event_count' = event_count - 1
  BY DEF HeapPop, Size, TypeOK
<1>2. \A i \in 0 .. event_count - 2 :
         events'[i] = IF i = 0 THEN events[event_count - 1] ELSE events[i]
  BY <1>1 DEF HeapPop, TypeOK
<1>3. Pending' \subseteq Pending \ {events[0]}
  <2> SUFFICES ASSUME NEW i \in 0 .. event_count - 2
               PROVE  /\ events'[i] \in Pending
                      /\ events'[i] # events[0]
    BY <1>1 DEF Pending
  <2>1. PICK k \in 1 .. event_count - 1 : events'[i] = events[k]
    BY <1>1, <1>2
  <2> QED
    BY <1>1, <2>1 DEF Pending, DistinctEntries
<1>4. ASSUME NEW k \in 0 .. event_count - 1, events[k] # events[0]
      PROVE  events[k] \in Pending'
  <2>1. PICK i \in 0 .. event_count - 2 : events'[i] = events[k]
    BY <1>1, <1>2, <1>4
  <2> QED
    BY <1>1, <2>1 DEF Pending
<1>5. DistinctEntries'
  BY <1>1, <1>2 DEF DistinctEntries
<1> QED
  BY <1>1, <1>3, <1>4, <1>5 DEF Pending

(* The entries stay distinct in every step. *)
LEMMA EntriesAreDistinct == Spec => []DistinctEntries
<1>1. Init => DistinctEntries
  BY DEF Init, DistinctEntries, Size
<1>2. TypeOK /\ DistinctEntries /\ [Next]_vars => DistinctEntries'
  <2> SUFFICES ASSUME TypeOK, DistinctEntries, [Next]_vars PROVE DistinctEntries'
    OBVIOUS
  <2>1. CASE SiftUpSwap
    <3>1. Parent(idx) \in 0 .. Size - 1 /\ idx \in 0 .. Size - 1
      BY <2>1, SizeType, ParentOf DEF SiftUpSwap
    <3> QED
      BY <2>1, <3>1, SwapKeepsEntries DEF SiftUpSwap, Size
  <2>2. CASE SiftDownSwap
    <3>1. Smallest(idx) \in 0 .. Size - 1 /\ idx \in 0 .. Size - 1
      BY <2>2, SizeType, SmallestOf, ChildrenOf DEF SiftDownSwap, Size
    <3> QED
      BY <2>2, <3>1, SwapKeepsEntries DEF SiftDownSwap, Size
  <2>3. CASE SiftUpDone \/ SiftDownDone \/ UNCHANGED vars
    BY <2>3 DEF SiftUpDone, SiftDownDone, vars, DistinctEntries, Size
  <2> QED
    BY <2>1, <2>2, <2>3, PushInserts, PopRemovesRoot DEF Next
<1> QED
  BY <1>1, <1>2, TypeCorrect, PTL DEF Spec

(* A step of the heap is a step of the set or none at all. *)
LEMMA HeapStepImplements ==
    ASSUME TypeOK, HeapOrder, DistinctEntries, [Next]_vars
    PROVE  [Abstract!Next]_Pending
<1>1. ASSUME NEW e \in Entry, HeapPush(e) PROVE Abstract!Insert(e)
  BY <1>1, PushInserts DEF Abstract!Insert
<1>2. CASE HeapPop
  <2>1. RootIsFirst
    BY HeapRoot
  <2>2. ASSUME NEW f \in Pending \ {events[0]}
        PROVE  Before(events[0], f)
    <3>1. Size = event_count /\ event_count \in Nat \ {0} /\ pc = "idle"
      BY <1>2 DEF HeapPop, Size, TypeOK
    <3>2. PICK k \in 0 .. event_count - 1 : f = events[k] /\ k # 0
      BY <3>1 DEF Pending
    <3>3. f \in Entry /\ events[0] \in Entry
      BY <3>1, <3>2, SizeType
    <3>4. f.seq # events[0].seq
      BY <3>1, <3>2 DEF DistinctEntries
    <3>5. ~Before(f, events[0])
      BY <2>1, <3>1, <3>2 DEF RootIsFirst
    <3> QED
      BY <3>3, <3>4, <3>5, EntryAssumption DEF Before
  <2>3. Abstract!First(events[0])
    BY <2>2 DEF Abstract!First, Before
  <2> QED
    BY <1>2, <2>3, PopRemovesRoot DEF Abstract!Next, Abstract!RemoveFirst
<1>3. CASE SiftUpSwap
  <2>1. Parent(idx) \in 0 .. Size - 1 /\ idx \in 0 .. Size - 1
    BY <1>3, SizeType, ParentOf DEF SiftUpSwap
  <2> QED
    BY <1>3, <2>1, SwapKeepsEntries DEF SiftUpSwap, Size
<1>4. CASE SiftDownSwap
  <2>1. Smallest(idx) \in 0 .. Size - 1 /\ idx \in 0 .. Size - 1
    BY <1>4, SizeType, SmallestOf, ChildrenOf DEF SiftDownSwap, Size
  <2> QED
    BY <1>4, <2>1, SwapKeepsEntries DEF SiftDownSwap, Size
<1>5. CASE SiftUpDone \/ SiftDownDone \/ UNCHANGED vars
  BY <1>5 DEF SiftUpDone, SiftDownDone, vars, Pending, Size
<1> QED
  BY <1>1, <1>2, <1>3, <1>4, <1>5 DEF Next, Abstract!Next

(* The array with its sift loops implements the set of events that gives   *)
(* up its first one, which is how ZspTimebase uses it: growth and the      *)
(* moves of heap_push and heap_pop lose, double and reorder nothing.       *)
THEOREM HeapImplementsSet == Spec => ImplementsEventSet
<1>1. Init => Abstract!Init
  BY DEF Init, Abstract!Init, Pending, Size
<1>2. TypeOK /\ HeapOrder /\ DistinctEntries /\ [Next]_vars => [Abstract!Next]_Pending
  BY HeapStepImplements
<1> QED
  BY <1>1, <1>2, TypeCorrect, HeapOrderInvariant, EntriesAreDistinct, PTL
     DEF Spec, ImplementsEventSet, Abstract!Spec

-----------------------------------------------------------------------------
(* The blocks of frames. *)

Block == Nat \ {0}
Regions == [block : Nat, lo : Nat, hi : Nat]
Sizes == {AllocaBlock, FrameBlock}

(* The type of every variable. *)
BlocksTypeOK ==
    /\ block \in [Thread -> Seq(Block)]
    /\ kept \in [Thread -> Seq(Regions)]
    /\ frames \in [Thread -> Seq(Nat \ {0})]
    /\ base \in Seq(Nat) /\ size \in Seq(Sizes) /\ Len(base) = Len(size)
    /\ free_4k \in Seq(Block) /\ free_8k \in Seq(Block)
    /\ call = << >> \/ call \in Thread \X Regions

(* Every list holds blocks that were allocated, and no others. *)
ListsHoldBlocks ==
    /\ \A t \in Thread : \A i \in DOMAIN block[t] : block[t][i] \in DOMAIN size
    /\ \A i \in DOMAIN free_4k : free_4k[i] \in DOMAIN size
    /\ \A i \in DOMAIN free_8k : free_8k[i] \in DOMAIN size

(* r is below s on a stack of blocks. *)
Below(stack, r, s) ==
    \A p, q \in DOMAIN stack :
        stack[p] = r.block /\ stack[q] = s.block =>
            p < q \/ (p = q /\ r.hi <= s.lo)

(* What a thread keeps is stacked in the order in which it was allocated,  *)
(* in blocks of its own.                                                   *)
KeptIsStacked ==
    \A t \in Thread :
        /\ \A i \in DOMAIN kept[t] :
              /\ IsIn(kept[t][i].block, block[t])
              /\ kept[t][i].hi <= base[kept[t][i].block]
              /\ kept[t][i].hi <= size[kept[t][i].block]
        /\ \A i, j \in DOMAIN kept[t] : i < j => Below(block[t], kept[t][i], kept[t][j])

(* A thread without a frame keeps nothing; the frames follow each other.   *)
FramesAreKept ==
    \A t \in Thread :
        /\ frames[t] = << >> => kept[t] = << >>
        /\ frames[t] # << >> => frames[t][1] = 1
        /\ \A i \in DOMAIN frames[t] : frames[t][i] \in DOMAIN kept[t]
        /\ \A i, j \in DOMAIN frames[t] : i < j => frames[t][i] < frames[t][j]

(* The loop finds the block of the frame it looks for, and gives back none *)
(* in which something is kept.                                             *)
LeavesKept(t, frame) ==
    \/ frame = NoFrame /\ kept[t] = << >>
    \/ /\ IsIn(frame.block, block[t])
       /\ \A i \in DOMAIN kept[t] : Below(block[t], kept[t][i], frame)

BlocksInv ==
    /\ BlocksTypeOK
    /\ ListsHoldBlocks
    /\ BlocksHaveOneOwner
    /\ KeptIsStacked
    /\ FramesAreKept
    /\ ~Idle => LeavesKept(call[1], call[2])

-----------------------------------------------------------------------------
(* The first elements of a list. *)
LEMMA PrefixOf ==
    ASSUME NEW S, NEW s \in Seq(S), NEW n \in Nat, n < Len(s)
    PROVE  /\ SubSeq(s, 1, n) \in Seq(S) /\ Len(SubSeq(s, 1, n)) = n
           /\ DOMAIN SubSeq(s, 1, n) = 1 .. n
           /\ \A i \in 1 .. n : SubSeq(s, 1, n)[i] = s[i]
<1>1. \A i \in 1 .. n : s[i] \in S
  BY LenProperties
<1>2. /\ SubSeq(s, 1, n) \in Seq(S)
      /\ Len(SubSeq(s, 1, n)) = IF 1 <= n THEN n - 1 + 1 ELSE 0
      /\ \A i \in 1 .. n - 1 + 1 : SubSeq(s, 1, n)[i] = s[1 + i - 1]
  BY <1>1, SubSeqProperties
<1> QED
  BY <1>2, LenProperties

(* The list without its head. *)
LEMMA FrontOf ==
    ASSUME NEW S, NEW s \in Seq(S), s # << >>
    PROVE  /\ Len(s) \in Nat \ {0} /\ Last(s) \in S
           /\ Front(s) \in Seq(S) /\ Len(Front(s)) = Len(s) - 1
           /\ DOMAIN Front(s) = 1 .. Len(s) - 1
           /\ \A i \in 1 .. Len(s) - 1 : Front(s)[i] = s[i]
           /\ DOMAIN s = 1 .. Len(s)
<1>1. Len(s) \in Nat \ {0} /\ DOMAIN s = 1 .. Len(s)
  BY EmptySeq, LenProperties
<1>2. Last(s) \in S
  <2>1. Len(s) \in 1 .. Len(s)
    BY <1>1
  <2> QED
    BY <2>1, ElementOfSeq DEF Last
<1>3. Len(s) - 1 \in Nat /\ Len(s) - 1 < Len(s)
  BY <1>1
<1> QED
  BY <1>1, <1>2, <1>3, PrefixOf DEF Front

(* The list with a new head. *)
LEMMA AppendOf ==
    ASSUME NEW S, NEW s \in Seq(S), NEW e \in S
    PROVE  /\ Append(s, e) \in Seq(S) /\ Len(Append(s, e)) = Len(s) + 1 /\ Len(s) \in Nat
           /\ DOMAIN Append(s, e) = 1 .. Len(s) + 1 /\ DOMAIN s = 1 .. Len(s)
           /\ \A i \in 1 .. Len(s) : Append(s, e)[i] = s[i]
           /\ Append(s, e)[Len(s) + 1] = e
           /\ Append(s, e) # << >>
           /\ \A b : IsIn(b, Append(s, e)) <=> IsIn(b, s) \/ b = e
<1>1. /\ Append(s, e) \in Seq(S) /\ Append(s, e) # << >>
      /\ Len(Append(s, e)) = Len(s) + 1
      /\ \A i \in 1 .. Len(s) : Append(s, e)[i] = s[i]
      /\ Append(s, e)[Len(s) + 1] = e
  BY AppendProperties
<1>2. /\ Len(s) \in Nat /\ DOMAIN s = 1 .. Len(s)
      /\ DOMAIN Append(s, e) = 1 .. Len(s) + 1
  BY <1>1, LenProperties
<1> QED
  BY <1>1, <1>2 DEF IsIn

(* What is on a list is its head or on the list without it. *)
LEMMA IsInFront ==
    ASSUME NEW S, NEW s \in Seq(S), s # << >>, NEW b
    PROVE  IsIn(b, s) <=> IsIn(b, Front(s)) \/ b = Last(s)
<1>1. /\ Len(s) \in Nat \ {0}
      /\ DOMAIN s = 1 .. Len(s) /\ DOMAIN Front(s) = 1 .. Len(s) - 1
      /\ \A i \in 1 .. Len(s) - 1 : Front(s)[i] = s[i]
  BY FrontOf
<1>2. \A n \in Nat : \A i \in 1 .. n : i \in 1 .. n - 1 \/ i = n
  OBVIOUS
<1>3. 1 .. Len(s) - 1 \subseteq 1 .. Len(s) /\ Len(s) \in 1 .. Len(s)
  BY <1>1
<1>4. IsIn(b, s) => IsIn(b, Front(s)) \/ b = Last(s)
  BY <1>1, <1>2 DEF IsIn, Last
<1>5. IsIn(b, Front(s)) => IsIn(b, s)
  BY <1>1, <1>3 DEF IsIn
<1>6. IsIn(Last(s), s)
  BY <1>1, <1>3 DEF IsIn, Last
<1> QED
  BY <1>4, <1>5, <1>6

-----------------------------------------------------------------------------
(* Blocks change hands. *)

(* At the start nothing is allocated. *)
LEMMA BlocksInitInv == BlocksInit => BlocksInv
<1> SUFFICES ASSUME BlocksInit PROVE BlocksInv
  OBVIOUS
<1>1. \A S : << >> \in Seq(S) /\ Len(<< >>) = 0 /\ DOMAIN << >> = {}
  BY EmptySeq
<1>2. BlocksTypeOK
  BY <1>1 DEF BlocksInit, BlocksTypeOK
<1>3. /\ DOMAIN size = {} /\ DOMAIN free_4k = {} /\ DOMAIN free_8k = {} /\ Idle
      /\ \A t \in Thread : block[t] = << >> /\ kept[t] = << >> /\ frames[t] = << >>
      /\ \A t \in Thread : DOMAIN block[t] = {} /\ DOMAIN kept[t] = {} /\ DOMAIN frames[t] = {}
  BY <1>1 DEF BlocksInit, Idle
<1>4. ListsHoldBlocks /\ BlocksHaveOneOwner
  BY <1>3 DEF ListsHoldBlocks, BlocksHaveOneOwner, Once
<1>5. KeptIsStacked /\ FramesAreKept
  BY <1>3 DEF KeptIsStacked, FramesAreKept
<1> QED
  BY <1>2, <1>3, <1>4, <1>5 DEF BlocksInv

(* What is on a list was allocated. *)
LEMMA ListedIsAllocated ==
    ASSUME ListsHoldBlocks, NEW b, NEW t \in Thread
    PROVE  IsIn(b, block[t]) \/ IsIn(b, free_4k) \/ IsIn(b, free_8k) => b \in DOMAIN size
BY DEF ListsHoldBlocks, IsIn

(* A free list without its head. *)
LEMMA FreeListWithoutHead ==
    ASSUME NEW list \in Seq(Block), list # << >>, Once(list)
    PROVE  /\ Front(list) \in Seq(Block) /\ Last(list) \in Block
           /\ IsIn(Last(list), list) /\ ~IsIn(Last(list), Front(list))
           /\ \A c : IsIn(c, Front(list)) <=> IsIn(c, list) /\ c # Last(list)
           /\ Once(Front(list))
<1>1. /\ Len(list) \in Nat \ {0} /\ Last(list) \in Block /\ Front(list) \in Seq(Block)
      /\ DOMAIN Front(list) = 1 .. Len(list) - 1 /\ DOMAIN list = 1 .. Len(list)
      /\ \A i \in 1 .. Len(list) - 1 : Front(list)[i] = list[i]
  BY FrontOf
<1>2. \A c : IsIn(c, list) <=> IsIn(c, Front(list)) \/ c = Last(list)
  BY IsInFront
<1>3. \A n \in Nat : \A i \in 1 .. n - 1 : i \in 1 .. n /\ i # n /\ (n # 0 => n \in 1 .. n)
  OBVIOUS
<1>4. ~IsIn(Last(list), Front(list))
  <2> SUFFICES ASSUME NEW i \in 1 .. Len(list) - 1, Front(list)[i] = Last(list) PROVE FALSE
    BY <1>1 DEF IsIn
  <2>1. list[i] = list[Len(list)] /\ i \in DOMAIN list /\ Len(list) \in DOMAIN list
        /\ i # Len(list)
    BY <1>1, <1>3 DEF Last
  <2> QED
    BY <2>1 DEF Once
<1>5. Once(Front(list))
  BY <1>1, <1>3 DEF Once
<1> QED
  BY <1>1, <1>2, <1>4, <1>5

(* A list with a new head that was not on it. *)
LEMMA ListWithNewHead ==
    ASSUME NEW list \in Seq(Block), NEW b \in Block, Once(list), ~IsIn(b, list)
    PROVE  Append(list, b) \in Seq(Block) /\ Once(Append(list, b))
<1>1. /\ Len(list) \in Nat /\ Append(list, b) \in Seq(Block)
      /\ DOMAIN Append(list, b) = 1 .. Len(list) + 1 /\ DOMAIN list = 1 .. Len(list)
      /\ \A i \in 1 .. Len(list) : Append(list, b)[i] = list[i]
      /\ Append(list, b)[Len(list) + 1] = b
  BY AppendOf
<1>2. \A n \in Nat : \A i \in 1 .. n + 1 : i \in 1 .. n \/ i = n + 1
  OBVIOUS
<1>3. \A i \in 1 .. Len(list) : Append(list, b)[i] # b
  BY <1>1 DEF IsIn
<1> QED
  BY <1>1, <1>2, <1>3 DEF Once

(* A block that is taken is on no stack, and is its thread's alone then. *)
LEMMA BlockIsTaken ==
    ASSUME BlocksInv, NEW t \in Thread, NEW sz \in Sizes, NEW n \in Nat,
           zsp_timebase_stack_block_alloc(t, sz, n)
    PROVE  /\ NewBlock(sz) \in Block
           /\ \A u \in Thread : ~IsIn(NewBlock(sz), block[u])
           /\ block' = [block EXCEPT ![t] = Append(@, NewBlock(sz))]
           /\ base' \in Seq(Nat) /\ size' \in Seq(Sizes) /\ Len(base') = Len(size')
           /\ free_4k' \in Seq(Block) /\ free_8k' \in Seq(Block)
           /\ \A c \in DOMAIN size :
                  /\ c \in DOMAIN size' /\ size'[c] = size[c]
                  /\ c # NewBlock(sz) => base'[c] = base[c]
           /\ NewBlock(sz) \in DOMAIN size'
           /\ base'[NewBlock(sz)] = n /\ size'[NewBlock(sz)] = sz
           /\ ListsHoldBlocks' /\ BlocksHaveOneOwner'
<1> DEFINE b == NewBlock(sz)
<1>1. /\ block \in [Thread -> Seq(Block)]
      /\ base \in Seq(Nat) /\ size \in Seq(Sizes) /\ Len(base) = Len(size)
      /\ free_4k \in Seq(Block) /\ free_8k \in Seq(Block)
  BY DEF BlocksInv, BlocksTypeOK
<1>2. /\ Len(size) \in Nat /\ DOMAIN size = 1 .. Len(size) /\ DOMAIN base = 1 .. Len(size)
  BY <1>1, LenProperties
<1>3. block' = [block EXCEPT ![t] = Append(@, b)]
  BY DEF zsp_timebase_stack_block_alloc
<1>4. /\ ListsHoldBlocks /\ BlocksHaveOneOwner
      /\ AllocaBlock # FrameBlock
  BY DEF BlocksInv, AllocaBlock, FrameBlock
(* What the three cases have in common. *)
<1>5. /\ b \in Block
      /\ \A u \in Thread : ~IsIn(b, block[u])
      /\ base' \in Seq(Nat) /\ size' \in Seq(Sizes) /\ Len(base') = Len(size')
      /\ free_4k' \in Seq(Block) /\ free_8k' \in Seq(Block)
      /\ DOMAIN size' = DOMAIN size \cup {b}
      /\ \A c \in DOMAIN size : size'[c] = size[c] /\ (c # b => base'[c] = base[c])
      /\ base'[b] = n /\ size'[b] = sz
      /\ Once(free_4k') /\ Once(free_8k')
      /\ \A c : IsIn(c, free_4k') <=> IsIn(c, free_4k) /\ c # b
      /\ \A c : IsIn(c, free_8k') <=> IsIn(c, free_8k) /\ c # b
  <2>1. CASE sz = AllocaBlock /\ free_4k # << >>
    <3>1. /\ b = Last(free_4k)
          /\ free_4k' = Front(free_4k) /\ free_8k' = free_8k
          /\ base' = [base EXCEPT ![b] = n] /\ size' = size
      BY <1>4, <2>1 DEF zsp_timebase_stack_block_alloc, NewBlock, FreeList
    <3>2. /\ free_4k' \in Seq(Block) /\ b \in Block /\ Once(free_4k') /\ IsIn(b, free_4k)
          /\ \A c : IsIn(c, free_4k') <=> IsIn(c, free_4k) /\ c # b
      BY <1>1, <1>4, <2>1, <3>1, FreeListWithoutHead DEF BlocksHaveOneOwner
    <3>3. b \in DOMAIN size
      BY <1>4, <3>2, ListedIsAllocated
    <3>4. /\ size[b] = sz /\ ~IsIn(b, free_8k) /\ Once(free_8k)
          /\ \A u \in Thread : ~IsIn(b, block[u])
      BY <1>4, <2>1, <3>2, <3>3 DEF BlocksHaveOneOwner
    <3>5. base' \in Seq(Nat) /\ Len(base') = Len(base) /\ base'[b] = n
          /\ \A c \in DOMAIN size : c # b => base'[c] = base[c]
      BY <1>1, <1>2, <3>1, <3>3, ExceptSeq
    <3> QED
      BY <1>1, <3>1, <3>2, <3>3, <3>4, <3>5
  <2>2. CASE sz = FrameBlock /\ free_8k # << >>
    <3>1. /\ b = Last(free_8k)
          /\ free_8k' = Front(free_8k) /\ free_4k' = free_4k
          /\ base' = [base EXCEPT ![b] = n] /\ size' = size
      BY <1>4, <2>2 DEF zsp_timebase_stack_block_alloc, NewBlock, FreeList
    <3>2. /\ free_8k' \in Seq(Block) /\ b \in Block /\ Once(free_8k') /\ IsIn(b, free_8k)
          /\ \A c : IsIn(c, free_8k') <=> IsIn(c, free_8k) /\ c # b
      BY <1>1, <1>4, <2>2, <3>1, FreeListWithoutHead DEF BlocksHaveOneOwner
    <3>3. b \in DOMAIN size
      BY <1>4, <3>2, ListedIsAllocated
    <3>4. /\ size[b] = sz /\ ~IsIn(b, free_4k) /\ Once(free_4k)
          /\ \A u \in Thread : ~IsIn(b, block[u])
      BY <1>4, <2>2, <3>2, <3>3 DEF BlocksHaveOneOwner
    <3>5. base' \in Seq(Nat) /\ Len(base') = Len(base) /\ base'[b] = n
          /\ \A c \in DOMAIN size : c # b => base'[c] = base[c]
      BY <1>1, <1>2, <3>1, <3>3, ExceptSeq
    <3> QED
      BY <1>1, <3>1, <3>2, <3>3, <3>4, <3>5
  <2>3. CASE FreeList(sz) = << >>
    <3>1. /\ b = Len(size) + 1
          /\ free_8k' = free_8k /\ free_4k' = free_4k
          /\ base' = Append(base, n) /\ size' = Append(size, sz)
      BY <1>4, <2>3 DEF zsp_timebase_stack_block_alloc, NewBlock, FreeList, Sizes
    <3>2. b \in Block /\ b \notin DOMAIN size
      BY <1>2, <3>1 DEF Block
    <3>3. /\ ~IsIn(b, free_4k) /\ ~IsIn(b, free_8k)
          /\ \A u \in Thread : ~IsIn(b, block[u])
      BY <1>4, <3>2, ListedIsAllocated
    <3>4. /\ base' \in Seq(Nat) /\ Len(base') = Len(base) + 1
          /\ \A i \in 1 .. Len(size) : base'[i] = base[i]
          /\ base'[Len(size) + 1] = n
      BY <1>1, <3>1, AppendOf
    <3>5. /\ size' \in Seq(Sizes) /\ Len(size') = Len(size) + 1
          /\ DOMAIN size' = 1 .. Len(size) + 1
          /\ \A i \in 1 .. Len(size) : size'[i] = size[i]
          /\ size'[Len(size) + 1] = sz
      BY <1>1, <3>1, AppendOf
    <3>6. \A k \in Nat : 1 .. k + 1 = 1 .. k \cup {k + 1}
      OBVIOUS
    <3>7. DOMAIN size' = DOMAIN size \cup {b}
      BY <1>2, <3>1, <3>5, <3>6
    <3>8. Once(free_4k) /\ Once(free_8k)
      BY <1>4 DEF BlocksHaveOneOwner
    <3> QED
      BY <1>1, <1>2, <3>1, <3>2, <3>3, <3>4, <3>5, <3>7, <3>8
  <2> QED
    BY <2>1, <2>2, <2>3 DEF FreeList, Sizes
<1>6. /\ \A u \in Thread : u # t => block'[u] = block[u]
      /\ block'[t] = Append(block[t], b) /\ block[t] \in Seq(Block)
  BY <1>1, <1>3
<1>7. \A c : IsIn(c, block'[t]) <=> IsIn(c, block[t]) \/ c = b
  BY <1>5, <1>6, AppendOf
<1>8. Once(block'[t])
  BY <1>4, <1>5, <1>6, ListWithNewHead DEF BlocksHaveOneOwner
<1>9. BlocksHaveOneOwner'
  <2>1. (\A u \in Thread : Once(block[u]))'
    BY <1>4, <1>6, <1>8 DEF BlocksHaveOneOwner
  <2>2. ASSUME NEW c \in DOMAIN size, c # b
        PROVE  /\ IsIn(c, free_4k') \/ IsIn(c, free_8k') \/ \E u \in Thread : IsIn(c, block'[u])
               /\ \A u \in Thread : IsIn(c, block'[u]) =>
                     /\ ~IsIn(c, free_4k') /\ ~IsIn(c, free_8k')
                     /\ \A v \in Thread \ {u} : ~IsIn(c, block'[v])
               /\ IsIn(c, free_4k') => size'[c] = AllocaBlock
               /\ IsIn(c, free_8k') => size'[c] = FrameBlock
    <3>1. \A u \in Thread : IsIn(c, block'[u]) <=> IsIn(c, block[u])
      BY <1>6, <1>7, <2>2
    <3>2. /\ IsIn(c, free_4k) \/ IsIn(c, free_8k) \/ \E u \in Thread : IsIn(c, block[u])
          /\ \A u \in Thread : IsIn(c, block[u]) =>
                     /\ ~IsIn(c, free_4k) /\ ~IsIn(c, free_8k)
                     /\ \A v \in Thread \ {u} : ~IsIn(c, block[v])
          /\ IsIn(c, free_4k) => size[c] = AllocaBlock
          /\ IsIn(c, free_8k) => size[c] = FrameBlock
      BY <1>4 DEF BlocksHaveOneOwner
    <3> QED
      BY <1>5, <2>2, <3>1, <3>2
  <2>3. /\ IsIn(b, block'[t]) /\ ~IsIn(b, free_4k') /\ ~IsIn(b, free_8k')
        /\ \A u \in Thread \ {t} : ~IsIn(b, block'[u])
    BY <1>5, <1>6, <1>7
  <2> QED
    BY <1>5, <2>1, <2>2, <2>3 DEF BlocksHaveOneOwner
<1>10. ListsHoldBlocks'
  <2>1. \A c : /\ IsIn(c, free_4k') \/ IsIn(c, free_8k') => c \in DOMAIN size'
               /\ \A u \in Thread : IsIn(c, block'[u]) => c \in DOMAIN size'
    BY <1>4, <1>5, <1>6, <1>7, ListedIsAllocated
  <2> QED
    BY <2>1 DEF ListsHoldBlocks, IsIn
<1> QED
  BY <1>3, <1>5, <1>9, <1>10

(* A block that is given back goes to the free list of its size. *)
LEMMA BlockIsGivenBack ==
    ASSUME BlocksInv, NEW t \in Thread, block[t] # << >>,
           zsp_timebase_stack_block_free(Last(block[t])),
           block' = [block EXCEPT ![t] = Front(@)], UNCHANGED size
    PROVE  /\ block' \in [Thread -> Seq(Block)]
           /\ free_4k' \in Seq(Block) /\ free_8k' \in Seq(Block)
           /\ ListsHoldBlocks' /\ BlocksHaveOneOwner'
<1> DEFINE b == Last(block[t])
<1>1. /\ block \in [Thread -> Seq(Block)] /\ size \in Seq(Sizes)
      /\ free_4k \in Seq(Block) /\ free_8k \in Seq(Block)
      /\ ListsHoldBlocks /\ BlocksHaveOneOwner
  BY DEF BlocksInv, BlocksTypeOK
<1>2. /\ Front(block[t]) \in Seq(Block) /\ b \in Block
      /\ IsIn(b, block[t]) /\ ~IsIn(b, Front(block[t]))
      /\ \A c : IsIn(c, Front(block[t])) <=> IsIn(c, block[t]) /\ c # b
      /\ Once(Front(block[t]))
  <2>1. block[t] \in Seq(Block) /\ Once(block[t])
    BY <1>1 DEF BlocksHaveOneOwner
  <2> QED
    BY <2>1, FreeListWithoutHead
<1>3. b \in DOMAIN size
  BY <1>1, <1>2, ListedIsAllocated
<1>4. /\ size[b] \in Sizes /\ AllocaBlock # FrameBlock
      /\ ~IsIn(b, free_4k) /\ ~IsIn(b, free_8k)
      /\ \A u \in Thread \ {t} : ~IsIn(b, block[u])
  <2>1. size[b] \in Sizes
    BY <1>1, <1>3, LenProperties, ElementOfSeq
  <2> QED
    BY <1>1, <1>2, <1>3, <2>1 DEF BlocksHaveOneOwner, AllocaBlock, FrameBlock
<1>5. /\ free_4k' \in Seq(Block) /\ free_8k' \in Seq(Block)
      /\ Once(free_4k') /\ Once(free_8k')
      /\ \A c : IsIn(c, free_4k') <=> IsIn(c, free_4k) \/ (c = b /\ size[b] = AllocaBlock)
      /\ \A c : IsIn(c, free_8k') <=> IsIn(c, free_8k) \/ (c = b /\ size[b] = FrameBlock)
  <2>1. Once(free_4k) /\ Once(free_8k)
    BY <1>1 DEF BlocksHaveOneOwner
  <2>2. CASE size[b] = AllocaBlock
    <3>1. free_4k' = Append(free_4k, b) /\ free_8k' = free_8k
      BY <2>2 DEF zsp_timebase_stack_block_free
    <3>2. free_4k' \in Seq(Block) /\ Once(free_4k')
      BY <1>1, <1>2, <1>4, <2>1, <3>1, ListWithNewHead
    <3>3. \A c : IsIn(c, free_4k') <=> IsIn(c, free_4k) \/ c = b
      BY <1>1, <1>2, <3>1, AppendOf
    <3> QED
      BY <1>1, <1>4, <2>1, <2>2, <3>1, <3>2, <3>3
  <2>3. CASE size[b] = FrameBlock
    <3>1. free_8k' = Append(free_8k, b) /\ free_4k' = free_4k
      BY <1>4, <2>3 DEF zsp_timebase_stack_block_free
    <3>2. free_8k' \in Seq(Block) /\ Once(free_8k')
      BY <1>1, <1>2, <1>4, <2>1, <3>1, ListWithNewHead
    <3>3. \A c : IsIn(c, free_8k') <=> IsIn(c, free_8k) \/ c = b
      BY <1>1, <1>2, <3>1, AppendOf
    <3> QED
      BY <1>1, <1>4, <2>1, <2>3, <3>1, <3>2, <3>3
  <2> QED
    BY <1>4, <2>2, <2>3 DEF Sizes
<1>6. /\ \A u \in Thread : u # t => block'[u] = block[u]
      /\ block'[t] = Front(block[t])
      /\ block' \in [Thread -> Seq(Block)]
  BY <1>1, <1>2
<1>7. BlocksHaveOneOwner'
  <2>1. (\A u \in Thread : Once(block[u]))'
    BY <1>1, <1>2, <1>6 DEF BlocksHaveOneOwner
  <2>2. ASSUME NEW c \in DOMAIN size, c # b
        PROVE  /\ IsIn(c, free_4k') \/ IsIn(c, free_8k') \/ \E u \in Thread : IsIn(c, block'[u])
               /\ \A u \in Thread : IsIn(c, block'[u]) =>
                     /\ ~IsIn(c, free_4k') /\ ~IsIn(c, free_8k')
                     /\ \A v \in Thread \ {u} : ~IsIn(c, block'[v])
               /\ IsIn(c, free_4k') => size'[c] = AllocaBlock
               /\ IsIn(c, free_8k') => size'[c] = FrameBlock
    <3>1. \A u \in Thread : IsIn(c, block'[u]) <=> IsIn(c, block[u])
      BY <1>2, <1>6, <2>2
    <3>2. /\ IsIn(c, free_4k) \/ IsIn(c, free_8k) \/ \E u \in Thread : IsIn(c, block[u])
          /\ \A u \in Thread : IsIn(c, block[u]) =>
                     /\ ~IsIn(c, free_4k) /\ ~IsIn(c, free_8k)
                     /\ \A v \in Thread \ {u} : ~IsIn(c, block[v])
          /\ IsIn(c, free_4k) => size[c] = AllocaBlock
          /\ IsIn(c, free_8k) => size[c] = FrameBlock
      BY <1>1 DEF BlocksHaveOneOwner
    <3> QED
      BY <1>5, <2>2, <3>1, <3>2
  <2>3. /\ \A u \in Thread : ~IsIn(b, block'[u])
        /\ IsIn(b, free_4k') <=> size[b] = AllocaBlock
        /\ IsIn(b, free_8k') <=> size[b] = FrameBlock
    BY <1>2, <1>4, <1>5, <1>6
  <2> QED
    BY <1>4, <1>5, <2>1, <2>2, <2>3 DEF BlocksHaveOneOwner, Sizes
<1>8. ListsHoldBlocks'
  <2>1. \A c : /\ IsIn(c, free_4k') \/ IsIn(c, free_8k') => c \in DOMAIN size'
               /\ \A u \in Thread : IsIn(c, block'[u]) => c \in DOMAIN size'
    BY <1>1, <1>2, <1>3, <1>5, <1>6, ListedIsAllocated
  <2> QED
    BY <2>1 DEF ListsHoldBlocks, IsIn
<1> QED
  BY <1>5, <1>6, <1>7, <1>8

-----------------------------------------------------------------------------
(* Frames and allocations. *)

(* The region that Allocate adds. *)
Added(t, sz, n) ==
    IF NeedsBlock(t, n) THEN Region(NewBlock(sz), 0, n)
    ELSE Region(Last(block[t]), base[Last(block[t])], n)

(* The block that is at hand, or the one that is taken, has room for it    *)
(* above everything else.                                                  *)
LEMMA RoomOnTop ==
    ASSUME BlocksInv, NEW t \in Thread, NEW sz \in Sizes, NEW n \in Nat, n <= sz,
           Allocate(t, sz, n), NEW r, r = Added(t, sz, n)
    PROVE  /\ r \in Regions
           /\ block' \in [Thread -> Seq(Block)]
           /\ base' \in Seq(Nat) /\ size' \in Seq(Sizes) /\ Len(base') = Len(size')
           /\ free_4k' \in Seq(Block) /\ free_8k' \in Seq(Block)
           /\ ListsHoldBlocks' /\ BlocksHaveOneOwner'
           /\ \A u \in Thread : u # t => block'[u] = block[u] /\ ~IsIn(r.block, block[u])
           /\ \A u \in Thread : \A c : IsIn(c, block[u]) =>
                 /\ IsIn(c, block'[u]) /\ base[c] <= base'[c] /\ size'[c] = size[c]
                 /\ base[c] \in Nat /\ base'[c] \in Nat
           /\ \A p \in DOMAIN block'[t] :
                 \/ p \in DOMAIN block[t] /\ block'[t][p] = block[t][p]
                 \/ block'[t][p] = r.block /\ ~IsIn(r.block, block[t])
           /\ IsIn(r.block, block'[t])
           /\ \A p, q \in DOMAIN block'[t] :
                 block'[t][q] = r.block => p < q \/ (p = q /\ (IsIn(r.block, block[t]) =>
                                                          r.lo = base[r.block]))
           /\ r.hi <= base'[r.block] /\ r.hi <= size'[r.block]
<1>1. /\ block \in [Thread -> Seq(Block)]
      /\ base \in Seq(Nat) /\ size \in Seq(Sizes) /\ Len(base) = Len(size)
      /\ free_4k \in Seq(Block) /\ free_8k \in Seq(Block)
      /\ ListsHoldBlocks /\ BlocksHaveOneOwner
  BY DEF BlocksInv, BlocksTypeOK
<1>2. DOMAIN base = DOMAIN size /\ \A c \in DOMAIN size : base[c] \in Nat /\ size[c] \in Sizes
  BY <1>1, LenProperties, ElementOfSeq
<1>3. \A u \in Thread : \A c : IsIn(c, block[u]) => c \in DOMAIN size
  BY <1>1, ListedIsAllocated
<1>4. Sizes \subseteq Nat
  BY DEF Sizes, AllocaBlock, FrameBlock
<1>5. CASE NeedsBlock(t, n)
  <2>1. /\ r = [block |-> NewBlock(sz), lo |-> 0, hi |-> n]
        /\ zsp_timebase_stack_block_alloc(t, sz, n)
    BY <1>5 DEF Allocate, Added, Region
  <2>2. /\ NewBlock(sz) \in Block
        /\ \A u \in Thread : ~IsIn(NewBlock(sz), block[u])
        /\ block' = [block EXCEPT ![t] = Append(@, NewBlock(sz))]
        /\ base' \in Seq(Nat) /\ size' \in Seq(Sizes) /\ Len(base') = Len(size')
        /\ free_4k' \in Seq(Block) /\ free_8k' \in Seq(Block)
        /\ \A c \in DOMAIN size :
               /\ c \in DOMAIN size' /\ size'[c] = size[c]
               /\ c # NewBlock(sz) => base'[c] = base[c]
        /\ base'[NewBlock(sz)] = n /\ size'[NewBlock(sz)] = sz
        /\ ListsHoldBlocks' /\ BlocksHaveOneOwner'
    BY <2>1, BlockIsTaken
  <2>3. /\ block' \in [Thread -> Seq(Block)]
        /\ \A u \in Thread : u # t => block'[u] = block[u]
        /\ block'[t] = Append(block[t], NewBlock(sz)) /\ block[t] \in Seq(Block)
    <3>1. block[t] \in Seq(Block) /\ Append(block[t], NewBlock(sz)) \in Seq(Block)
      BY <1>1, <2>2, AppendOf
    <3> QED
      BY <1>1, <2>2, <3>1
  <2>4. /\ Len(block[t]) \in Nat /\ DOMAIN block'[t] = 1 .. Len(block[t]) + 1
        /\ DOMAIN block[t] = 1 .. Len(block[t])
        /\ \A i \in 1 .. Len(block[t]) : block'[t][i] = block[t][i]
        /\ block'[t][Len(block[t]) + 1] = NewBlock(sz)
        /\ \A c : IsIn(c, block'[t]) <=> IsIn(c, block[t]) \/ c = NewBlock(sz)
    BY <2>2, <2>3, AppendOf
  <2>5. \A k \in Nat : \A p \in 1 .. k + 1 :
            /\ p \in 1 .. k \/ p = k + 1
            /\ p \in 1 .. k => p < k + 1
    OBVIOUS
  <2>6. \A i \in 1 .. Len(block[t]) : block[t][i] # NewBlock(sz)
    BY <2>2, <2>4 DEF IsIn
  <2>7. \A u \in Thread : \A c : IsIn(c, block[u]) =>
                 /\ IsIn(c, block'[u]) /\ base'[c] = base[c] /\ size'[c] = size[c]
                 /\ base[c] \in Nat
    BY <1>2, <1>3, <2>2, <2>3, <2>4
  <2>8. \A p, q \in DOMAIN block'[t] :
            block'[t][q] = NewBlock(sz) => p < q \/ p = q
    BY <2>4, <2>5, <2>6
  <2>9. r \in Regions
    BY <2>1, <2>2 DEF Regions, Block
  <2> QED
    BY <1>4, <2>1, <2>2, <2>3, <2>4, <2>5, <2>7, <2>8, <2>9
<1>6. CASE ~NeedsBlock(t, n)
  <2> DEFINE b == Last(block[t])
  <2>1. /\ r = [block |-> b, lo |-> base[b], hi |-> base[b] + n]
        /\ base' = [base EXCEPT ![b] = @ + n]
        /\ UNCHANGED <<block, size, free_4k, free_8k>>
    BY <1>6 DEF Allocate, Added, Region
  <2>2. /\ block[t] \in Seq(Block) /\ block[t] # << >>
        /\ ~(base[b] + n >= size[b] - 1)
    BY <1>1, <1>6 DEF NeedsBlock
  <2>3. Len(block[t]) \in Nat \ {0} /\ DOMAIN block[t] = 1 .. Len(block[t])
    BY <2>2, FrontOf
  <2>4. Len(block[t]) \in DOMAIN block[t] /\ IsIn(b, block[t])
    BY <2>3 DEF Last, IsIn
  <2>5. b \in DOMAIN size /\ base[b] \in Nat /\ size[b] \in Nat
    BY <1>2, <1>3, <1>4, <2>4
  <2>6. \A u \in Thread : u # t => ~IsIn(b, block[u])
    BY <1>1, <2>4, <2>5 DEF BlocksHaveOneOwner
  <2>7. /\ base' \in Seq(Nat) /\ Len(base') = Len(base)
        /\ \A c \in DOMAIN size : base'[c] = IF c = b THEN base[b] + n ELSE base[c]
    <3>1. base[b] + n \in Nat /\ b \in 1 .. Len(base)
      BY <1>1, <1>2, <2>5, LenProperties
    <3>2. base' = [base EXCEPT ![b] = base[b] + n]
      BY <2>1
    <3>3. /\ base' \in Seq(Nat) /\ Len(base') = Len(base)
          /\ \A c \in 1 .. Len(base) : base'[c] = IF c = b THEN base[b] + n ELSE base[c]
      BY <1>1, <3>1, <3>2, ExceptSeq
    <3> QED
      BY <1>1, <1>2, <3>3, LenProperties
  <2>8. \A u \in Thread : \A c : IsIn(c, block[u]) =>
                 /\ base[c] <= base'[c] /\ base[c] \in Nat /\ base'[c] \in Nat
    <3>1. \A c \in DOMAIN size : base[c] <= base'[c] /\ base[c] \in Nat /\ base'[c] \in Nat
      BY <1>2, <2>5, <2>7
    <3> QED
      BY <1>3, <3>1
  <2>9. \A p, q \in DOMAIN block[t] : block[t][q] = b => p < q \/ p = q
    <3>1. Once(block[t])
      BY <1>1 DEF BlocksHaveOneOwner
    <3>2. \A q \in DOMAIN block[t] : block[t][q] = b => q = Len(block[t])
      BY <2>4, <3>1 DEF Once, Last
    <3>3. \A k \in Nat : \A p \in 1 .. k : p < k \/ p = k
      OBVIOUS
    <3> QED
      BY <2>3, <3>2, <3>3
  <2>10. ListsHoldBlocks' /\ BlocksHaveOneOwner'
    BY <1>1, <2>1 DEF ListsHoldBlocks, BlocksHaveOneOwner
  <2>11. r \in Regions
    BY <2>1, <2>2, <2>5, <2>4, <1>1 DEF Regions, Block
  <2>12. r.hi <= base'[r.block] /\ r.hi <= size'[r.block] /\ r.block = b /\ r.lo = base[b]
    BY <2>1, <2>2, <2>5, <2>7
  <2> QED
    BY <1>1, <2>1, <2>4, <2>6, <2>7, <2>8, <2>9, <2>10, <2>11, <2>12
<1> QED
  BY <1>5, <1>6

(* The stack of what t keeps grows by n bytes at its top. *)
LEMMA AllocateOnTop ==
    ASSUME BlocksInv, NEW t \in Thread, NEW sz \in Sizes, NEW n \in Nat, n <= sz,
           Allocate(t, sz, n)
    PROVE  /\ frames' \in [Thread -> Seq(Nat \ {0})] => BlocksTypeOK'
           /\ ListsHoldBlocks' /\ BlocksHaveOneOwner' /\ KeptIsStacked'
           /\ \E r \in Regions : kept' = [kept EXCEPT ![t] = Append(@, r)]
           /\ Idle /\ Idle'
<1> DEFINE r == Added(t, sz, n)
<1>1. /\ r \in Regions
      /\ block' \in [Thread -> Seq(Block)]
      /\ base' \in Seq(Nat) /\ size' \in Seq(Sizes) /\ Len(base') = Len(size')
      /\ free_4k' \in Seq(Block) /\ free_8k' \in Seq(Block)
      /\ ListsHoldBlocks' /\ BlocksHaveOneOwner'
  BY RoomOnTop
<1>2. \A u \in Thread : u # t => block'[u] = block[u] /\ ~IsIn(r.block, block[u])
  BY RoomOnTop
<1>3. \A u \in Thread : \A c : IsIn(c, block[u]) =>
         /\ IsIn(c, block'[u]) /\ base[c] <= base'[c] /\ size'[c] = size[c]
         /\ base[c] \in Nat /\ base'[c] \in Nat
  BY RoomOnTop
<1>4. /\ \A p \in DOMAIN block'[t] :
            \/ p \in DOMAIN block[t] /\ block'[t][p] = block[t][p]
            \/ block'[t][p] = r.block /\ ~IsIn(r.block, block[t])
      /\ IsIn(r.block, block'[t])
      /\ r.hi <= base'[r.block] /\ r.hi <= size'[r.block]
  BY RoomOnTop
<1>5. \A p, q \in DOMAIN block'[t] :
         block'[t][q] = r.block => p < q \/ (p = q /\ (IsIn(r.block, block[t]) =>
                                                     r.lo = base[r.block]))
  BY RoomOnTop
<1>6. /\ kept' = [kept EXCEPT ![t] = Append(@, r)]
      /\ Idle /\ call' = call /\ Idle'
  BY DEF Allocate, Added, Idle
<1>7. KeptIsStacked /\ kept \in [Thread -> Seq(Regions)] /\ kept[t] \in Seq(Regions)
  BY DEF BlocksInv, BlocksTypeOK
<1> HIDE DEF r
<1>8. /\ kept'[t] = Append(kept[t], r)
      /\ \A u \in Thread : u # t => kept'[u] = kept[u]
  BY <1>6, <1>7
<1>9. /\ Len(kept[t]) \in Nat /\ kept'[t] \in Seq(Regions)
      /\ DOMAIN kept[t] = 1 .. Len(kept[t])
      /\ DOMAIN kept'[t] = 1 .. Len(kept[t]) + 1
      /\ \A i \in 1 .. Len(kept[t]) : kept'[t][i] = kept[t][i]
      /\ kept'[t][Len(kept[t]) + 1] = r
  BY <1>1, <1>7, <1>8, AppendOf
<1>10. \A k \in Nat : \A p, q \in 1 .. k + 1 :
            /\ p \in 1 .. k \/ p = k + 1
            /\ p < q => p \in 1 .. k /\ (q \in 1 .. k \/ q = k + 1)
  OBVIOUS
<1>11. \A u \in Thread : \A i \in DOMAIN kept[u] :
            /\ IsIn(kept[u][i].block, block[u])
            /\ kept[u][i].hi <= base[kept[u][i].block]
            /\ kept[u][i].hi <= size[kept[u][i].block]
            /\ kept[u][i].hi \in Nat
  <2>1. \A u \in Thread : \A i \in DOMAIN kept[u] : kept[u][i] \in Regions
    BY <1>7, LenProperties, ElementOfSeq
  <2> QED
    BY <1>7, <2>1 DEF KeptIsStacked, Regions
<1>12. \A u \in Thread : \A i \in DOMAIN kept[u] :
            /\ IsIn(kept[u][i].block, block'[u])
            /\ kept[u][i].hi <= base'[kept[u][i].block]
            /\ kept[u][i].hi <= size'[kept[u][i].block]
  <2> SUFFICES ASSUME NEW u \in Thread, NEW i \in DOMAIN kept[u]
               PROVE  /\ IsIn(kept[u][i].block, block'[u])
                      /\ kept[u][i].hi <= base'[kept[u][i].block]
                      /\ kept[u][i].hi <= size'[kept[u][i].block]
    OBVIOUS
  <2> DEFINE c == kept[u][i].block
  <2>1. /\ IsIn(c, block[u]) /\ kept[u][i].hi <= base[c] /\ kept[u][i].hi <= size[c]
        /\ kept[u][i].hi \in Nat
    BY <1>11
  <2>2. /\ IsIn(c, block'[u]) /\ base[c] <= base'[c] /\ size'[c] = size[c]
        /\ base[c] \in Nat /\ base'[c] \in Nat
    BY <1>3, <2>1
  <2> QED
    BY <2>1, <2>2
<1>13. ASSUME NEW u \in Thread, u # t PROVE
            \A i, j \in DOMAIN kept'[u] : i < j => Below(block'[u], kept'[u][i], kept'[u][j])
  <2>1. \A i, j \in DOMAIN kept[u] : i < j => Below(block[u], kept[u][i], kept[u][j])
    BY <1>7 DEF KeptIsStacked
  <2>2. block'[u] = block[u] /\ kept'[u] = kept[u]
    BY <1>2, <1>8, <1>13
  <2> QED
    BY <2>1, <2>2
<1>14. \A i \in DOMAIN kept[t] : Below(block'[t], kept[t][i], r)
  <2> SUFFICES ASSUME NEW i \in DOMAIN kept[t], NEW p \in DOMAIN block'[t], NEW q \in DOMAIN block'[t],
                      block'[t][p] = kept[t][i].block, block'[t][q] = r.block
               PROVE  p < q \/ (p = q /\ kept[t][i].hi <= r.lo)
    BY DEF Below
  <2>1. p < q \/ (p = q /\ (IsIn(r.block, block[t]) => r.lo = base[r.block]))
    BY <1>5
  <2>2. /\ IsIn(kept[t][i].block, block[t])
        /\ kept[t][i].hi <= base[kept[t][i].block]
    BY <1>11
  <2> QED
    BY <2>1, <2>2
<1>15. \A i, j \in DOMAIN kept[t] : i < j => Below(block'[t], kept[t][i], kept[t][j])
  <2> SUFFICES ASSUME NEW i \in DOMAIN kept[t], NEW j \in DOMAIN kept[t], i < j,
                      NEW p \in DOMAIN block'[t], NEW q \in DOMAIN block'[t],
                      block'[t][p] = kept[t][i].block, block'[t][q] = kept[t][j].block
               PROVE  p < q \/ (p = q /\ kept[t][i].hi <= kept[t][j].lo)
    BY DEF Below
  <2>1. IsIn(kept[t][i].block, block[t]) /\ IsIn(kept[t][j].block, block[t])
    BY <1>11
  <2>2. /\ p \in DOMAIN block[t] /\ block'[t][p] = block[t][p]
        /\ q \in DOMAIN block[t] /\ block'[t][q] = block[t][q]
    BY <1>4, <2>1
  <2>3. Below(block[t], kept[t][i], kept[t][j])
    BY <1>7 DEF KeptIsStacked
  <2> QED
    BY <2>2, <2>3 DEF Below
<1>16. KeptIsStacked'
  <2> SUFFICES ASSUME NEW u \in Thread
               PROVE  /\ \A i \in DOMAIN kept'[u] :
                            /\ IsIn(kept'[u][i].block, block'[u])
                            /\ kept'[u][i].hi <= base'[kept'[u][i].block]
                            /\ kept'[u][i].hi <= size'[kept'[u][i].block]
                      /\ \A i, j \in DOMAIN kept'[u] : i < j => Below(block'[u], kept'[u][i], kept'[u][j])
    BY DEF KeptIsStacked
  <2>1. CASE u # t
    BY <1>8, <1>12, <1>13, <2>1
  <2>2. CASE u = t
    <3>1. \A i \in DOMAIN kept'[t] :
              \/ i \in DOMAIN kept[t] /\ kept'[t][i] = kept[t][i]
              \/ kept'[t][i] = r
      BY <1>9, <1>10
    <3>2. \A i \in DOMAIN kept'[t] :
              /\ IsIn(kept'[t][i].block, block'[t])
              /\ kept'[t][i].hi <= base'[kept'[t][i].block]
              /\ kept'[t][i].hi <= size'[kept'[t][i].block]
      BY <1>4, <1>12, <3>1
    <3>3. ASSUME NEW i \in DOMAIN kept'[t], NEW j \in DOMAIN kept'[t], i < j
          PROVE  Below(block'[t], kept'[t][i], kept'[t][j])
      <4>1. i \in DOMAIN kept[t] /\ kept'[t][i] = kept[t][i]
        BY <1>9, <1>10, <3>3
      <4>2. CASE j \in DOMAIN kept[t]
        <5>1. kept'[t][j] = kept[t][j]
          BY <1>9, <4>2
        <5> QED
          BY <1>15, <3>3, <4>1, <4>2, <5>1
      <4>3. CASE j \notin DOMAIN kept[t]
        <5>1. kept'[t][j] = r
          BY <1>9, <1>10, <4>3
        <5> QED
          BY <1>14, <4>1, <5>1
      <4> QED
        BY <4>2, <4>3
    <3> QED
      BY <2>2, <3>2, <3>3
  <2> QED
    BY <2>1, <2>2
<1>17. kept' \in [Thread -> Seq(Regions)]
  BY <1>6, <1>7, <1>8, <1>9
<1> QED
  BY <1>1, <1>6, <1>16, <1>17 DEF BlocksTypeOK, Idle

(* A frame is pushed. *)
LEMMA AllocFrameKeepsInv ==
    ASSUME BlocksInv, NEW t \in Thread, NEW sz \in FrameSizes, zsp_timebase_alloc_frame(t, sz)
    PROVE  BlocksInv'
<1>1. /\ FrameHeader + sz \in Nat /\ FrameHeader + sz <= FrameBlock /\ FrameBlock \in Sizes
      /\ Allocate(t, FrameBlock, FrameHeader + sz)
      /\ frames' = [frames EXCEPT ![t] = Append(@, Len(kept[t]) + 1)]
  BY SizesAssumption DEF FrameHeader, FrameBlock, Sizes, zsp_timebase_alloc_frame
<1>2. /\ frames' \in [Thread -> Seq(Nat \ {0})] => BlocksTypeOK'
      /\ ListsHoldBlocks' /\ BlocksHaveOneOwner' /\ KeptIsStacked'
      /\ Idle'
  BY <1>1, AllocateOnTop
<1>3. PICK r \in Regions : kept' = [kept EXCEPT ![t] = Append(@, r)]
  BY <1>1, AllocateOnTop
<1>4. /\ kept \in [Thread -> Seq(Regions)] /\ frames \in [Thread -> Seq(Nat \ {0})]
      /\ FramesAreKept
  BY DEF BlocksInv, BlocksTypeOK
<1>5. /\ kept'[t] = Append(kept[t], r) /\ kept[t] \in Seq(Regions)
      /\ Len(kept[t]) + 1 \in Nat \ {0} /\ Len(kept[t]) \in Nat
      /\ DOMAIN kept[t] = 1 .. Len(kept[t])
      /\ DOMAIN kept'[t] = 1 .. Len(kept[t]) + 1
  <2>1. kept'[t] = Append(kept[t], r) /\ kept[t] \in Seq(Regions)
    BY <1>3, <1>4
  <2>2. Len(kept[t]) \in Nat /\ DOMAIN kept[t] = 1 .. Len(kept[t])
        /\ DOMAIN kept'[t] = 1 .. Len(kept[t]) + 1
    BY <2>1, AppendOf
  <2> QED
    BY <2>1, <2>2
<1> DEFINE n == Len(kept[t])
<1>6. /\ frames'[t] = Append(frames[t], n + 1) /\ frames[t] \in Seq(Nat \ {0})
      /\ \A u \in Thread : u # t => frames'[u] = frames[u] /\ kept'[u] = kept[u]
  BY <1>1, <1>3, <1>4
<1> HIDE DEF n
<1>7. /\ frames'[t] \in Seq(Nat \ {0}) /\ frames'[t] # << >>
      /\ Len(frames[t]) \in Nat /\ DOMAIN frames[t] = 1 .. Len(frames[t])
      /\ DOMAIN frames'[t] = 1 .. Len(frames[t]) + 1
      /\ \A i \in 1 .. Len(frames[t]) : frames'[t][i] = frames[t][i]
      /\ frames'[t][Len(frames[t]) + 1] = n + 1
  <2>1. n + 1 \in Nat \ {0}
    BY <1>5 DEF n
  <2> QED
    BY <1>6, <2>1, AppendOf
<1>8. \A k \in Nat : \A i, j \in 1 .. k + 1 :
         /\ i \in 1 .. k \/ i = k + 1
         /\ i < j => i \in 1 .. k
         /\ i \in 1 .. k => i < k + 1
         /\ k # 0 => 1 \in 1 .. k
         /\ k + 1 \in 1 .. k + 1
  OBVIOUS
<1>9. frames' \in [Thread -> Seq(Nat \ {0})]
  BY <1>1, <1>4, <1>6, <1>7
<1>10. frames'[t][1] = 1
  <2>1. CASE frames[t] = << >>
    <3>1. kept[t] = << >>
      BY <1>4, <2>1 DEF FramesAreKept
    <3>2. Len(frames[t]) = 0 /\ n = 0
      BY <2>1, <3>1 DEF n
    <3> QED
      BY <1>7, <3>2
  <2>2. CASE frames[t] # << >>
    <3>1. frames[t][1] = 1 /\ Len(frames[t]) # 0
      BY <1>4, <1>6, <2>2, EmptySeq DEF FramesAreKept
    <3> QED
      BY <1>7, <1>8, <3>1
  <2> QED
    BY <2>1, <2>2
<1>11. \A i \in DOMAIN frames'[t] : frames'[t][i] \in DOMAIN kept'[t]
  <2>1. n \in Nat /\ DOMAIN kept[t] = 1 .. n /\ DOMAIN kept'[t] = 1 .. n + 1
    BY <1>5 DEF n
  <2>2. \A i \in DOMAIN frames[t] : frames[t][i] \in DOMAIN kept[t]
    BY <1>4 DEF FramesAreKept
  <2>3. \A i \in DOMAIN frames'[t] : frames'[t][i] \in DOMAIN kept[t] \/ frames'[t][i] = n + 1
    BY <1>7, <1>8, <2>2
  <2> QED
    BY <2>1, <2>3
<1>12. \A i, j \in DOMAIN frames'[t] : i < j => frames'[t][i] < frames'[t][j]
  <2> SUFFICES ASSUME NEW i \in DOMAIN frames'[t], NEW j \in DOMAIN frames'[t], i < j
               PROVE  frames'[t][i] < frames'[t][j]
    OBVIOUS
  <2>1. i \in DOMAIN frames[t] /\ frames'[t][i] = frames[t][i]
    BY <1>7, <1>8
  <2>2. CASE j \in DOMAIN frames[t]
    <3>1. frames'[t][j] = frames[t][j]
      BY <1>7, <2>2
    <3> QED
      BY <1>4, <2>1, <2>2, <3>1 DEF FramesAreKept
  <2>3. CASE j \notin DOMAIN frames[t]
    <3>1. frames'[t][j] = n + 1
      BY <1>7, <1>8, <2>3
    <3>2. frames[t][i] \in 1 .. n /\ n \in Nat
      BY <1>4, <1>5, <2>1 DEF FramesAreKept, n
    <3> QED
      BY <2>1, <3>1, <3>2
  <2> QED
    BY <2>2, <2>3
<1>13. FramesAreKept'
  <2> SUFFICES ASSUME NEW u \in Thread
               PROVE  /\ frames'[u] = << >> => kept'[u] = << >>
                      /\ frames'[u] # << >> => frames'[u][1] = 1
                      /\ \A i \in DOMAIN frames'[u] : frames'[u][i] \in DOMAIN kept'[u]
                      /\ \A i, j \in DOMAIN frames'[u] : i < j => frames'[u][i] < frames'[u][j]
    BY DEF FramesAreKept
  <2>1. CASE u = t
    BY <1>7, <1>10, <1>11, <1>12, <2>1
  <2>2. CASE u # t
    BY <1>4, <1>6, <2>2 DEF FramesAreKept
  <2> QED
    BY <2>1, <2>2
<1> QED
  BY <1>2, <1>9, <1>13 DEF BlocksInv

(* The leaf allocates. *)
LEMMA AllocaKeepsInv ==
    ASSUME BlocksInv, NEW t \in Thread, NEW sz \in AllocaSizes, zsp_timebase_alloca(t, sz)
    PROVE  BlocksInv'
<1>1. /\ sz \in Nat /\ sz <= AllocaBlock /\ AllocaBlock \in Sizes
      /\ Allocate(t, AllocaBlock, sz)
      /\ frames' = frames /\ frames[t] # << >>
  BY SizesAssumption DEF AllocaBlock, Sizes, zsp_timebase_alloca
<1>2. /\ frames' \in [Thread -> Seq(Nat \ {0})] => BlocksTypeOK'
      /\ ListsHoldBlocks' /\ BlocksHaveOneOwner' /\ KeptIsStacked'
      /\ Idle'
  BY <1>1, AllocateOnTop
<1>3. PICK r \in Regions : kept' = [kept EXCEPT ![t] = Append(@, r)]
  BY <1>1, AllocateOnTop
<1>4. /\ kept \in [Thread -> Seq(Regions)] /\ frames \in [Thread -> Seq(Nat \ {0})]
      /\ FramesAreKept
  BY DEF BlocksInv, BlocksTypeOK
<1>5. /\ kept'[t] = Append(kept[t], r) /\ kept[t] \in Seq(Regions)
      /\ \A u \in Thread : u # t => kept'[u] = kept[u]
  BY <1>3, <1>4
<1>6. DOMAIN kept[t] \subseteq DOMAIN kept'[t]
  <2>1. /\ Len(kept[t]) \in Nat /\ DOMAIN kept[t] = 1 .. Len(kept[t])
        /\ DOMAIN kept'[t] = 1 .. Len(kept[t]) + 1
    BY <1>5, AppendOf
  <2> QED
    BY <2>1
<1>7. FramesAreKept'
  BY <1>1, <1>4, <1>5, <1>6 DEF FramesAreKept
<1> QED
  BY <1>1, <1>2, <1>4, <1>7 DEF BlocksInv

-----------------------------------------------------------------------------
(* Giving back. *)

(* The leaf frame and its allocations are dropped. *)
LEMMA ReturnKeepsInv ==
    ASSUME BlocksInv, NEW t \in Thread, zsp_timebase_return(t)
    PROVE  BlocksInv'
<1> DEFINE leaf == Last(frames[t])
           frame == kept[t][leaf]
<1>1. /\ frames[t] # << >>
      /\ call' = <<t, frame>>
      /\ kept' = [kept EXCEPT ![t] = SubSeq(@, 1, leaf - 1)]
      /\ frames' = [frames EXCEPT ![t] = Front(@)]
      /\ UNCHANGED <<block, base, size, free_4k, free_8k>>
  BY DEF zsp_timebase_return
<1>2. /\ BlocksTypeOK /\ ListsHoldBlocks /\ BlocksHaveOneOwner /\ KeptIsStacked /\ FramesAreKept
      /\ kept \in [Thread -> Seq(Regions)] /\ kept[t] \in Seq(Regions)
      /\ frames \in [Thread -> Seq(Nat \ {0})] /\ frames[t] \in Seq(Nat \ {0})
  BY DEF BlocksInv, BlocksTypeOK
<1>3. /\ Len(frames[t]) \in Nat \ {0} /\ leaf \in Nat \ {0}
      /\ Front(frames[t]) \in Seq(Nat \ {0}) /\ Len(Front(frames[t])) = Len(frames[t]) - 1
      /\ DOMAIN Front(frames[t]) = 1 .. Len(frames[t]) - 1
      /\ \A i \in 1 .. Len(frames[t]) - 1 : Front(frames[t])[i] = frames[t][i]
      /\ DOMAIN frames[t] = 1 .. Len(frames[t])
  BY <1>1, <1>2, FrontOf
<1>4. /\ leaf \in DOMAIN kept[t] /\ DOMAIN kept[t] = 1 .. Len(kept[t]) /\ Len(kept[t]) \in Nat
      /\ frame \in Regions
  <2>1. DOMAIN kept[t] = 1 .. Len(kept[t]) /\ Len(kept[t]) \in Nat
    BY <1>2, LenProperties
  <2>2. Len(frames[t]) \in DOMAIN frames[t]
    BY <1>3
  <2>3. leaf \in DOMAIN kept[t]
    BY <1>2, <2>2 DEF FramesAreKept, Last
  <2> QED
    BY <1>2, <2>1, <2>3, ElementOfSeq
<1>5. /\ SubSeq(kept[t], 1, leaf - 1) \in Seq(Regions)
      /\ Len(SubSeq(kept[t], 1, leaf - 1)) = leaf - 1
      /\ DOMAIN SubSeq(kept[t], 1, leaf - 1) = 1 .. leaf - 1
      /\ \A i \in 1 .. leaf - 1 : SubSeq(kept[t], 1, leaf - 1)[i] = kept[t][i]
  <2>1. leaf - 1 \in Nat /\ leaf - 1 < Len(kept[t])
    BY <1>3, <1>4
  <2> QED
    BY <1>2, <2>1, PrefixOf
<1>6. /\ kept'[t] \in Seq(Regions) /\ DOMAIN kept'[t] = 1 .. leaf - 1
      /\ Len(kept'[t]) = leaf - 1
      /\ \A i \in 1 .. leaf - 1 : kept'[t][i] = kept[t][i]
      /\ frames'[t] = Front(frames[t])
      /\ \A u \in Thread : u # t => kept'[u] = kept[u] /\ frames'[u] = frames[u]
  BY <1>1, <1>2, <1>5
<1>7. 1 .. leaf - 1 \subseteq DOMAIN kept[t] /\ \A i \in 1 .. leaf - 1 : i < leaf
  BY <1>3, <1>4
<1>8. BlocksTypeOK'
  <2>1. kept' \in [Thread -> Seq(Regions)]
    BY <1>1, <1>2, <1>6
  <2>2. frames' \in [Thread -> Seq(Nat \ {0})]
    BY <1>1, <1>2, <1>3, <1>6
  <2>3. call' \in Thread \X Regions
    BY <1>1, <1>4
  <2> QED
    BY <1>1, <1>2, <2>1, <2>2, <2>3 DEF BlocksTypeOK
<1>9. ListsHoldBlocks' /\ BlocksHaveOneOwner'
  BY <1>1, <1>2 DEF ListsHoldBlocks, BlocksHaveOneOwner
<1>10. KeptIsStacked'
  <2> SUFFICES ASSUME NEW u \in Thread
               PROVE  /\ \A i \in DOMAIN kept'[u] :
                            /\ IsIn(kept'[u][i].block, block[u])
                            /\ kept'[u][i].hi <= base[kept'[u][i].block]
                            /\ kept'[u][i].hi <= size[kept'[u][i].block]
                      /\ \A i, j \in DOMAIN kept'[u] : i < j => Below(block[u], kept'[u][i], kept'[u][j])
    BY <1>1 DEF KeptIsStacked
  <2>1. \A i \in DOMAIN kept'[u] : i \in DOMAIN kept[u] /\ kept'[u][i] = kept[u][i]
    BY <1>6, <1>7
  <2> QED
    BY <1>2, <2>1 DEF KeptIsStacked
<1>11. FramesAreKept'
  <2>1. \A i \in 1 .. Len(frames[t]) - 1 :
            /\ i \in DOMAIN frames[t] /\ i < Len(frames[t])
            /\ Len(frames[t]) \in DOMAIN frames[t]
    BY <1>3
  <2>2. \A i \in DOMAIN frames'[t] :
            i \in DOMAIN frames[t] /\ frames'[t][i] = frames[t][i] /\ frames[t][i] < leaf
    BY <1>2, <1>3, <1>6, <2>1 DEF FramesAreKept, Last
  <2>3. \A i \in DOMAIN frames'[t] : frames'[t][i] \in DOMAIN kept'[t]
    <3> SUFFICES ASSUME NEW i \in DOMAIN frames'[t] PROVE frames'[t][i] \in 1 .. leaf - 1
      BY <1>6
    <3>1. frames[t][i] \in 1 .. Len(kept[t])
      BY <1>2, <1>4, <2>2 DEF FramesAreKept
    <3> QED
      BY <1>3, <1>4, <2>2, <3>1
  <2>4. frames'[t] # << >> => frames'[t][1] = 1
    <3> SUFFICES ASSUME frames'[t] # << >> PROVE frames'[t][1] = 1
      OBVIOUS
    <3>1. 1 \in DOMAIN frames'[t]
      BY <1>3, <1>6, EmptySeq
    <3> QED
      BY <1>1, <1>2, <2>2, <3>1 DEF FramesAreKept
  <2>5. frames'[t] = << >> => kept'[t] = << >>
    <3> SUFFICES ASSUME frames'[t] = << >> PROVE kept'[t] = << >>
      OBVIOUS
    <3>1. Len(Front(frames[t])) = 0
      BY <1>6
    <3>2. Len(frames[t]) = 1
      <4>1. \A k \in Nat : k - 1 = 0 => k = 1
        OBVIOUS
      <4>2. Len(frames[t]) \in Nat /\ Len(frames[t]) - 1 = 0
        BY <1>3, <3>1
      <4> QED
        BY <4>1, <4>2
    <3>3. leaf = 1
      <4>1. frames[t][1] = 1
        BY <1>1, <1>2 DEF FramesAreKept
      <4> QED
        BY <3>2, <4>1 DEF Last
    <3>4. Len(kept'[t]) = 0
      BY <1>6, <3>3
    <3> QED
      BY <1>6, <3>4, EmptySeq
  <2>6. \A i, j \in DOMAIN frames'[t] : i < j => frames'[t][i] < frames'[t][j]
    BY <1>2, <2>2 DEF FramesAreKept
  <2> SUFFICES ASSUME NEW u \in Thread
               PROVE  /\ frames'[u] = << >> => kept'[u] = << >>
                      /\ frames'[u] # << >> => frames'[u][1] = 1
                      /\ \A i \in DOMAIN frames'[u] : frames'[u][i] \in DOMAIN kept'[u]
                      /\ \A i, j \in DOMAIN frames'[u] : i < j => frames'[u][i] < frames'[u][j]
    BY DEF FramesAreKept
  <2>7. CASE u = t
    BY <2>3, <2>4, <2>5, <2>6, <2>7
  <2>8. CASE u # t
    BY <1>2, <1>6, <2>8 DEF FramesAreKept
  <2> QED
    BY <2>7, <2>8
<1>12. LeavesKept(call[1], call[2])'
  <2>1. call'[1] = t /\ call'[2] = frame
    BY <1>1
  <2>2. IsIn(frame.block, block[t])
    BY <1>2, <1>4 DEF KeptIsStacked
  <2>3. \A i \in DOMAIN kept'[t] : Below(block[t], kept'[t][i], frame)
    BY <1>2, <1>4, <1>6, <1>7 DEF KeptIsStacked
  <2> QED
    BY <1>1, <2>1, <2>2, <2>3 DEF LeavesKept
<1> QED
  BY <1>8, <1>9, <1>10, <1>11, <1>12 DEF BlocksInv

(* A thread that keeps nothing gives back all its blocks. *)
LEMMA ThreadFreeKeepsInv ==
    ASSUME BlocksInv, NEW t \in Thread, zsp_timebase_thread_free(t)
    PROVE  BlocksInv'
<1>1. /\ frames[t] = << >> /\ call' = <<t, NoFrame>>
      /\ UNCHANGED <<block, kept, frames, base, size, free_4k, free_8k>>
  BY DEF zsp_timebase_thread_free
<1>2. NoFrame \in Regions /\ call'[1] = t /\ call'[2] = NoFrame /\ call' \in Thread \X Regions
  BY <1>1 DEF NoFrame, Region, Regions
<1>3. kept[t] = << >>
  BY <1>1 DEF BlocksInv, FramesAreKept
<1>4. LeavesKept(call[1], call[2])'
  BY <1>1, <1>2, <1>3 DEF LeavesKept
<1>5. BlocksTypeOK' /\ ListsHoldBlocks' /\ BlocksHaveOneOwner'
  BY <1>1, <1>2 DEF BlocksInv, BlocksTypeOK, ListsHoldBlocks, BlocksHaveOneOwner
<1>6. KeptIsStacked' /\ FramesAreKept'
  BY <1>1 DEF BlocksInv, KeptIsStacked, FramesAreKept
<1> QED
  BY <1>4, <1>5, <1>6 DEF BlocksInv

(* A block above the frame is given back: nothing is kept in it. *)
LEMMA GiveBackKeepsInv ==
    ASSUME BlocksInv, NEW t \in Thread, NEW frame \in Regions, GiveBack(t, frame)
    PROVE  BlocksInv'
<1> DEFINE b == Last(block[t])
<1>1. /\ call = <<t, frame>>
      /\ block[t] # << >> /\ b # frame.block
      /\ zsp_timebase_stack_block_free(b)
      /\ block' = [block EXCEPT ![t] = Front(@)]
      /\ UNCHANGED <<kept, frames, base, size, call>>
  BY DEF GiveBack
<1>2. /\ BlocksTypeOK /\ BlocksHaveOneOwner /\ KeptIsStacked /\ FramesAreKept
      /\ block \in [Thread -> Seq(Block)] /\ block[t] \in Seq(Block) /\ Once(block[t])
      /\ kept \in [Thread -> Seq(Regions)]
  BY DEF BlocksInv, BlocksTypeOK, BlocksHaveOneOwner
<1>3. /\ block' \in [Thread -> Seq(Block)]
      /\ free_4k' \in Seq(Block) /\ free_8k' \in Seq(Block)
      /\ ListsHoldBlocks' /\ BlocksHaveOneOwner'
  BY <1>1, BlockIsGivenBack
<1>4. LeavesKept(t, frame)
  <2>1. ~Idle /\ call[1] = t /\ call[2] = frame
    BY <1>1 DEF Idle
  <2> QED
    BY <2>1 DEF BlocksInv
<1>5. /\ block'[t] = Front(block[t])
      /\ \A u \in Thread : u # t => block'[u] = block[u]
  BY <1>1, <1>2
<1>6. /\ Len(block[t]) \in Nat \ {0}
      /\ DOMAIN block[t] = 1 .. Len(block[t])
      /\ DOMAIN block'[t] = 1 .. Len(block[t]) - 1
      /\ \A i \in 1 .. Len(block[t]) - 1 : block'[t][i] = block[t][i]
  <2>1. /\ Len(block[t]) \in Nat \ {0}
        /\ DOMAIN block[t] = 1 .. Len(block[t])
        /\ DOMAIN Front(block[t]) = 1 .. Len(block[t]) - 1
        /\ \A i \in 1 .. Len(block[t]) - 1 : Front(block[t])[i] = block[t][i]
    BY <1>1, <1>2, FrontOf
  <2> QED
    BY <1>5, <2>1
<1>7. \A c : IsIn(c, block'[t]) <=> IsIn(c, block[t]) /\ c # b
  BY <1>1, <1>2, <1>5, FreeListWithoutHead
<1>8. \A p \in DOMAIN block'[t] : p \in DOMAIN block[t] /\ block'[t][p] = block[t][p]
  <2>1. \A k \in Nat : \A p \in 1 .. k - 1 : p \in 1 .. k
    OBVIOUS
  <2> QED
    BY <1>6, <2>1
(* Below the frame, nothing lies in the topmost block. *)
<1>9. \A i \in DOMAIN kept[t] : kept[t][i].block # b
  <2> SUFFICES ASSUME NEW i \in DOMAIN kept[t], kept[t][i].block = b PROVE FALSE
    OBVIOUS
  <2>1. CASE kept[t] = << >>
    <3>1. DOMAIN kept[t] = {}
      BY <2>1, EmptySeq
    <3> QED
      BY <3>1
  <2>2. CASE kept[t] # << >>
    <3>1. IsIn(frame.block, block[t]) /\ Below(block[t], kept[t][i], frame)
      BY <1>4, <2>2 DEF LeavesKept
    <3>2. PICK q \in DOMAIN block[t] : block[t][q] = frame.block
      BY <3>1 DEF IsIn
    <3>3. Len(block[t]) \in DOMAIN block[t] /\ block[t][Len(block[t])] = b
      BY <1>6 DEF Last
    <3>4. Len(block[t]) < q \/ Len(block[t]) = q
      BY <2>2, <3>1, <3>2, <3>3 DEF Below
    <3>5. Len(block[t]) = q
      BY <1>6, <3>2, <3>4
    <3> QED
      BY <1>1, <3>2, <3>3, <3>5
  <2> QED
    BY <2>1, <2>2
<1>10. \A r, s : Below(block[t], r, s) => Below(block'[t], r, s)
  BY <1>8 DEF Below
<1>11. BlocksTypeOK'
  BY <1>1, <1>2, <1>3 DEF BlocksTypeOK
<1>12. KeptIsStacked'
  <2> SUFFICES ASSUME NEW u \in Thread
               PROVE  /\ \A i \in DOMAIN kept[u] :
                            /\ IsIn(kept[u][i].block, block'[u])
                            /\ kept[u][i].hi <= base[kept[u][i].block]
                            /\ kept[u][i].hi <= size[kept[u][i].block]
                      /\ \A i, j \in DOMAIN kept[u] : i < j => Below(block'[u], kept[u][i], kept[u][j])
    <3>1. size' = size
      BY <1>1
    <3> QED
      BY <1>1, <3>1 DEF KeptIsStacked
  <2>1. CASE u = t
    BY <1>2, <1>7, <1>9, <1>10, <2>1 DEF KeptIsStacked
  <2>2. CASE u # t
    BY <1>2, <1>5, <2>2 DEF KeptIsStacked
  <2> QED
    BY <2>1, <2>2
<1>13. FramesAreKept'
  BY <1>1, <1>2 DEF FramesAreKept
<1>14. LeavesKept(t, frame)'
  <2>1. CASE frame = NoFrame /\ kept[t] = << >>
    BY <1>1, <2>1 DEF LeavesKept
  <2>2. CASE IsIn(frame.block, block[t]) /\ \A i \in DOMAIN kept[t] : Below(block[t], kept[t][i], frame)
    <3>1. IsIn(frame.block, block'[t])
      BY <1>1, <1>7, <2>2
    <3>2. \A i \in DOMAIN kept[t] : Below(block'[t], kept[t][i], frame)
      BY <1>10, <2>2
    <3> QED
      BY <1>1, <3>1, <3>2 DEF LeavesKept
  <2> QED
    BY <1>4, <2>1, <2>2 DEF LeavesKept
<1>15. LeavesKept(call[1], call[2])'
  BY <1>1, <1>14
<1> QED
  BY <1>3, <1>11, <1>12, <1>13, <1>15 DEF BlocksInv

(* The block of the frame is used again from the frame on. *)
LEMMA RollBackKeepsInv ==
    ASSUME BlocksInv, NEW t \in Thread, NEW frame \in Regions, RollBack(t, frame)
    PROVE  BlocksInv'
<1>1. /\ call = <<t, frame>>
      /\ block[t] # << >> => Last(block[t]) = frame.block
      /\ base' = IF block[t] # << >> THEN [base EXCEPT ![frame.block] = frame.lo] ELSE base
      /\ call' = << >>
      /\ UNCHANGED <<block, kept, frames, size, free_4k, free_8k>>
  BY DEF RollBack
<1>2. /\ BlocksTypeOK /\ ListsHoldBlocks /\ BlocksHaveOneOwner /\ KeptIsStacked /\ FramesAreKept
      /\ block \in [Thread -> Seq(Block)] /\ block[t] \in Seq(Block)
      /\ base \in Seq(Nat) /\ size \in Seq(Sizes) /\ Len(base) = Len(size)
      /\ kept \in [Thread -> Seq(Regions)]
  BY DEF BlocksInv, BlocksTypeOK
<1>3. LeavesKept(t, frame)
  <2>1. ~Idle /\ call[1] = t /\ call[2] = frame
    BY <1>1 DEF Idle
  <2> QED
    BY <2>1 DEF BlocksInv
<1>4. /\ base' \in Seq(Nat) /\ Len(base') = Len(size)
      /\ \A c \in DOMAIN size : base'[c] = base[c] \/ (c = frame.block /\ base'[c] = frame.lo
                                                          /\ block[t] # << >>)
  <2>1. CASE block[t] = << >>
    BY <1>1, <1>2, <2>1
  <2>2. CASE block[t] # << >>
    <3>1. base' = [base EXCEPT ![frame.block] = frame.lo] /\ frame.lo \in Nat
      BY <1>1, <2>2 DEF Regions
    <3>2. IsIn(frame.block, block[t])
      BY <1>1, <1>2, <2>2, IsInFront
    <3>3. frame.block \in DOMAIN size
      BY <1>2, <3>2, ListedIsAllocated
    <3>4. DOMAIN size = 1 .. Len(base)
      BY <1>2, LenProperties
    <3>5. /\ base' \in Seq(Nat) /\ Len(base') = Len(base)
          /\ \A c \in 1 .. Len(base) : base'[c] = IF c = frame.block THEN frame.lo ELSE base[c]
      BY <1>2, <3>1, <3>3, <3>4, ExceptSeq
    <3> QED
      BY <1>2, <2>2, <3>4, <3>5
  <2> QED
    BY <2>1, <2>2
(* Everything else in that block lies below the frame. *)
<1>5. ASSUME NEW u \in Thread, NEW i \in DOMAIN kept[u],
             kept[u][i].block = frame.block, block[t] # << >>
      PROVE  kept[u][i].hi <= frame.lo
  <2>1. IsIn(frame.block, block[u])
    BY <1>2, <1>5 DEF KeptIsStacked
  <2>2. IsIn(frame.block, block[t])
    BY <1>1, <1>2, <1>5, IsInFront
  <2>3. u = t
    <3>1. frame.block \in DOMAIN size
      BY <1>2, <2>2, ListedIsAllocated
    <3> QED
      BY <1>2, <2>1, <2>2, <3>1 DEF BlocksHaveOneOwner
  <2>4. kept[t] # << >>
    <3>1. CASE kept[t] = << >>
      <4>1. DOMAIN kept[t] = {}
        BY <3>1, EmptySeq
      <4> QED
        BY <2>3, <4>1
    <3> QED
      BY <3>1
  <2>5. Below(block[t], kept[t][i], frame)
    BY <1>3, <2>3, <2>4 DEF LeavesKept
  <2>6. PICK p \in DOMAIN block[t] : block[t][p] = frame.block
    BY <2>2 DEF IsIn
  <2>7. p < p \/ kept[t][i].hi <= frame.lo
    BY <1>5, <2>3, <2>5, <2>6 DEF Below
  <2>8. p \in Nat
    BY <1>2, <2>6, LenProperties
  <2> QED
    BY <2>3, <2>7, <2>8
<1>6. KeptIsStacked'
  <2> SUFFICES ASSUME NEW u \in Thread, NEW i \in DOMAIN kept[u]
               PROVE  kept[u][i].hi <= base'[kept[u][i].block]
    BY <1>1, <1>2 DEF KeptIsStacked
  <2>1. IsIn(kept[u][i].block, block[u]) /\ kept[u][i].hi <= base[kept[u][i].block]
    BY <1>2 DEF KeptIsStacked
  <2>2. kept[u][i].block \in DOMAIN size
    BY <1>2, <2>1, ListedIsAllocated
  <2> QED
    BY <1>4, <1>5, <2>1, <2>2
<1>7. BlocksTypeOK' /\ Idle'
  BY <1>1, <1>2, <1>4 DEF BlocksTypeOK, Idle
<1>8. ListsHoldBlocks' /\ BlocksHaveOneOwner' /\ FramesAreKept'
  BY <1>1, <1>2 DEF ListsHoldBlocks, BlocksHaveOneOwner, FramesAreKept
<1> QED
  BY <1>6, <1>7, <1>8 DEF BlocksInv

-----------------------------------------------------------------------------
(* Every step preserves the invariant. *)
LEMMA BlocksStepKeepsInv == BlocksInv /\ [BlocksNext]_blocks => BlocksInv'
<1> SUFFICES ASSUME BlocksInv, [BlocksNext]_blocks PROVE BlocksInv'
  OBVIOUS
<1>1. ASSUME NEW t \in Thread, NEW sz \in FrameSizes, zsp_timebase_alloc_frame(t, sz)
      PROVE  BlocksInv'
  BY <1>1, AllocFrameKeepsInv
<1>2. ASSUME NEW t \in Thread, NEW sz \in AllocaSizes, zsp_timebase_alloca(t, sz)
      PROVE  BlocksInv'
  BY <1>2, AllocaKeepsInv
<1>3. ASSUME NEW t \in Thread, zsp_timebase_return(t) PROVE BlocksInv'
  BY <1>3, ReturnKeepsInv
<1>4. ASSUME NEW t \in Thread, zsp_timebase_thread_free(t) PROVE BlocksInv'
  BY <1>4, ThreadFreeKeepsInv
<1>5. ASSUME ~Idle, GiveBack(call[1], call[2]) \/ RollBack(call[1], call[2]) PROVE BlocksInv'
  <2>1. call[1] \in Thread /\ call[2] \in Regions
    BY <1>5 DEF BlocksInv, BlocksTypeOK, Idle
  <2> QED
    BY <1>5, <2>1, GiveBackKeepsInv, RollBackKeepsInv
<1>6. ASSUME UNCHANGED blocks PROVE BlocksInv'
  <2>1. UNCHANGED <<block, kept, frames, base, size, free_4k, free_8k, call>>
    BY <1>6 DEF blocks
  <2>2. BlocksTypeOK' /\ ListsHoldBlocks' /\ BlocksHaveOneOwner'
    BY <2>1 DEF BlocksInv, BlocksTypeOK, ListsHoldBlocks, BlocksHaveOneOwner
  <2>3. KeptIsStacked' /\ FramesAreKept'
    BY <2>1 DEF BlocksInv, KeptIsStacked, FramesAreKept
  <2>4. ~Idle' => LeavesKept(call[1], call[2])'
    BY <2>1 DEF BlocksInv, LeavesKept, Idle
  <2> QED
    BY <2>2, <2>3, <2>4 DEF BlocksInv
<1> QED
  BY <1>1, <1>2, <1>3, <1>4, <1>5, <1>6 DEF BlocksNext

(* The stack of what is kept and the loop that rolls it back go together:  *)
(* zsp_timebase_return finds the block of the frame on the stack of its    *)
(* thread, and nothing that stays alive is above it.                       *)
THEOREM BlocksInvHolds == BlocksSpec => []BlocksInv
<1>1. BlocksInit => BlocksInv
  BY BlocksInitInv
<1>2. BlocksInv /\ [BlocksNext]_blocks => BlocksInv'
  BY BlocksStepKeepsInv
<1> QED
  BY <1>1, <1>2, PTL DEF BlocksSpec

(* What is stacked in blocks of one owner overlaps nowhere. *)
LEMMA StackedIsExclusive == BlocksInv => LiveMemoryIsExclusive
<1> SUFFICES ASSUME BlocksInv PROVE LiveMemoryIsExclusive
  OBVIOUS
<1>1. /\ ListsHoldBlocks /\ BlocksHaveOneOwner /\ KeptIsStacked
      /\ block \in [Thread -> Seq(Block)] /\ kept \in [Thread -> Seq(Regions)]
  BY DEF BlocksInv, BlocksTypeOK
<1>2. ASSUME NEW t \in Thread, NEW u \in Thread, t # u,
             NEW i \in DOMAIN kept[t], NEW j \in DOMAIN kept[u]
      PROVE  kept[t][i].block # kept[u][j].block
  <2>1. IsIn(kept[t][i].block, block[t]) /\ IsIn(kept[u][j].block, block[u])
    BY <1>1 DEF KeptIsStacked
  <2>2. kept[t][i].block \in DOMAIN size
    BY <1>1, <2>1, ListedIsAllocated
  <2> QED
    BY <1>1, <1>2, <2>1, <2>2 DEF BlocksHaveOneOwner
<1>3. ASSUME NEW t \in Thread, NEW i \in DOMAIN kept[t], NEW j \in DOMAIN kept[t], i < j
      PROVE  Disjoint(kept[t][i], kept[t][j])
  <2> SUFFICES ASSUME kept[t][i].block = kept[t][j].block
               PROVE  kept[t][i].hi <= kept[t][j].lo
    BY DEF Disjoint
  <2>1. Below(block[t], kept[t][i], kept[t][j]) /\ IsIn(kept[t][i].block, block[t])
    BY <1>1, <1>3 DEF KeptIsStacked
  <2>2. PICK p \in DOMAIN block[t] : block[t][p] = kept[t][i].block
    BY <2>1 DEF IsIn
  <2>3. p < p \/ kept[t][i].hi <= kept[t][j].lo
    BY <2>1, <2>2 DEF Below
  <2>4. p \in Nat
    BY <1>1, <2>2, LenProperties
  <2> QED
    BY <2>3, <2>4
<1>4. ASSUME NEW t \in Thread, NEW u \in Thread,
             NEW i \in DOMAIN kept[t], NEW j \in DOMAIN kept[u]
      PROVE  (t = u /\ i = j) \/ Disjoint(kept[t][i], kept[u][j])
  <2>1. CASE t # u
    BY <1>2, <2>1 DEF Disjoint
  <2>2. CASE t = u
    <3>1. i \in Nat /\ j \in Nat
      BY <1>1, LenProperties
    <3>2. i = j \/ i < j \/ j < i
      BY <3>1
    <3>3. i < j => Disjoint(kept[t][i], kept[t][j])
      BY <1>3, <2>2
    <3>4. j < i => Disjoint(kept[t][j], kept[t][i])
      BY <1>3, <2>2
    <3>5. Disjoint(kept[t][j], kept[t][i]) => Disjoint(kept[t][i], kept[t][j])
      BY DEF Disjoint
    <3> QED
      BY <2>2, <3>2, <3>3, <3>4, <3>5
  <2> QED
    BY <2>1, <2>2
<1> QED
  BY <1>1, <1>4 DEF LiveMemoryIsExclusive, KeptIsStacked

(* Whatever the threads allocate and give back in whatever order, no two   *)
(* frames or allocations share a byte, each lies in a block of its own     *)
(* thread, and no block has two owners or none (alloc_frame, alloca,       *)
(* return and thread_free of zsp_timebase.c).                              *)
THEOREM LiveMemoryIsExclusiveHolds == BlocksSpec => []LiveMemoryIsExclusive
<1>1. BlocksInv => LiveMemoryIsExclusive
  BY StackedIsExclusive
<1> QED
  BY <1>1, BlocksInvHolds, PTL
===============================================================================
