-------------------- MODULE ZspTimebaseRefinement_proofs --------------------
(***************************************************************************)
(* The timebase implements Scheduler for any number of threads, as long as *)
(* no task calls zsp_timebase_stop and event_seq does not wrap: ready      *)
(* threads run in the order in which they became ready, delays that end    *)
(* together end in the order in which they began, and the time passes only *)
(* when there is nothing to run, to the earliest delay.                    *)
(***************************************************************************)
EXTENDS ZspTimebaseRefinement, ZspTimebase_proofs

-----------------------------------------------------------------------------
(* The ready list as a sequence. *)

Listed(s, q) == q \in Seq(Thread) /\ IsReadyList(s, Len(q), q)

Elements(q) == {q[i] : i \in 1 .. Len(q)}

(* Two lists from one ready_head do not part before one of them ends. *)
LEMMA ListedPrefix ==
    ASSUME NEW s, NEW q, NEW p, Listed(s, q), Listed(s, p)
    PROVE  \A k \in 1 .. Len(q) : k <= Len(p) /\ q[k] = p[k]
<1> DEFINE D == {k \in 1 .. Len(q) : ~(k <= Len(p) /\ q[k] = p[k])}
<1>1. /\ q \in Seq(Thread) /\ IsReadyList(s, Len(q), q)
      /\ p \in Seq(Thread) /\ IsReadyList(s, Len(p), p)
  BY DEF Listed
<1>2. /\ Len(q) \in Nat /\ Len(p) \in Nat
      /\ \A i \in 1 .. Len(q) : q[i] \in Thread
      /\ \A i \in 1 .. Len(p) : p[i] \in Thread
  BY <1>1
<1>3. SUFFICES ASSUME D # {} PROVE FALSE
  OBVIOUS
<1>4. PICK k \in D : \A j \in D : k <= j
  <2>1. D \in SUBSET Nat
    OBVIOUS
  <2> QED
    BY <2>1, <1>3, NatMinimum
<1>5. CASE k = 1
  <2>1. s.ready_head = q[1] /\ q[1] # NULL
    BY <1>1, <1>2, <1>5, ThreadAssumption DEF IsReadyList
  <2>2. Len(p) # 0 /\ p[1] = s.ready_head
    BY <2>1, <1>1 DEF IsReadyList
  <2> QED
    BY <2>1, <2>2, <1>2, <1>5
<1>6. CASE k > 1
  <2>1. k - 1 \in 1 .. Len(q) /\ k - 1 \notin D /\ k - 1 # Len(q) /\ (k - 1) + 1 = k
    BY <1>2, <1>4, <1>6
  <2>2. k - 1 \in 1 .. Len(p) /\ q[k - 1] = p[k - 1]
    BY <2>1, <1>2
  <2>3. s.next[q[k - 1]] = q[k] /\ q[k] # NULL
    BY <2>1, <1>1, <1>2, ThreadAssumption DEF IsReadyList
  <2>4. k - 1 # Len(p) /\ s.next[p[k - 1]] = p[k]
    BY <2>1, <2>2, <2>3, <1>1 DEF IsReadyList
  <2> QED
    BY <2>2, <2>3, <2>4, <1>2
<1> QED
  BY <1>2, <1>5, <1>6

(* So there is only one. *)
LEMMA ListedUnique ==
    ASSUME NEW s, NEW q, NEW p, Listed(s, q), Listed(s, p)
    PROVE  q = p
<1>1. q \in Seq(Thread) /\ p \in Seq(Thread)
  BY DEF Listed
<1>2. /\ \A k \in 1 .. Len(q) : k <= Len(p) /\ q[k] = p[k]
      /\ \A k \in 1 .. Len(p) : k <= Len(q) /\ p[k] = q[k]
  BY ListedPrefix
<1>3. Len(q) = Len(p)
  BY <1>1, <1>2
<1> QED
  BY <1>1, <1>2, <1>3, SeqEqual

(* A thread that is put on the list comes last. *)
LEMMA AddAppends ==
    ASSUME NEW s \in TimebaseState, NEW q, Listed(s, q),
           NEW t \in Thread, t \notin Elements(q)
    PROVE  Listed(ready_queue_add(s, t), Append(q, t))
<1> DEFINE p == Append(q, t)
<1>1. q \in Seq(Thread) /\ IsReadyList(s, Len(q), q)
  BY DEF Listed
<1>2. /\ p \in Seq(Thread) /\ Len(q) \in Nat /\ Len(p) = Len(q) + 1
      /\ p[Len(q) + 1] = t /\ \A i \in 1 .. Len(q) : p[i] = q[i]
      /\ q \in [1 .. Len(q) -> Thread]
  BY <1>1
<1> HIDE DEF p
<1>3. \A i \in 1 .. Len(q) : q[i] # t
  BY DEF Elements
<1>4. IsReadyList(ready_queue_add(s, t), Len(q) + 1, p)
  BY <1>1, <1>2, <1>3, AddLinks
<1> QED
  BY <1>2, <1>4 DEF Listed, p

(* The thread that is taken off the list was its first. *)
LEMMA PopTakesHead ==
    ASSUME NEW s \in TimebaseState, NEW q, Listed(s, q), s.ready_head # NULL
    PROVE  /\ q # <<>> /\ s.ready_head = Head(q)
           /\ Listed(ready_queue_pop(s), Tail(q))
<1> DEFINE p == Tail(q)
<1>1. q \in Seq(Thread) /\ IsReadyList(s, Len(q), q)
  BY DEF Listed
<1>2. Len(q) > 0
  BY <1>1 DEF IsReadyList
<1>3. /\ p \in Seq(Thread) /\ Len(q) \in Nat /\ Len(p) = Len(q) - 1
      /\ \A i \in 1 .. Len(q) - 1 : p[i] = q[i + 1]
      /\ q \in [1 .. Len(q) -> Thread] /\ q # <<>> /\ Head(q) = q[1]
  BY <1>1, <1>2
<1> HIDE DEF p
<1>4. s.ready_head = q[1] /\ IsReadyList(ready_queue_pop(s), Len(q) - 1, p)
  BY <1>1, <1>3, PopLinks
<1> QED
  BY <1>3, <1>4 DEF Listed, p

(* The list stays while the links of the threads on it do.                 *)
LEMMA ListedSame ==
    ASSUME NEW s, NEW r, NEW q, Listed(s, q),
           r.ready_head = s.ready_head, r.ready_tail = s.ready_tail,
           \A u \in Elements(q) : r.next[u] = s.next[u]
    PROVE  Listed(r, q)
<1>1. q \in Seq(Thread) /\ IsReadyList(s, Len(q), q)
  BY DEF Listed
<1>2. \A i \in 1 .. Len(q) : r.next[q[i]] = s.next[q[i]]
  BY DEF Elements
<1>3. IsReadyList(r, Len(q), q)
  BY <1>1, <1>2 DEF IsReadyList
<1> QED
  BY <1>1, <1>3 DEF Listed

(* The list is empty if and only if ready_head is NULL. *)
LEMMA EmptyList ==
    ASSUME NEW s, NEW q, Listed(s, q)
    PROVE  q = <<>> <=> s.ready_head = NULL
BY ThreadAssumption DEF Listed, IsReadyList

(* ReadyQueue is the list, of the runnable threads. *)
LEMMA QueueIsListed ==
    Inv => /\ Listed(tb, ReadyQueue)
           /\ Elements(ReadyQueue) = RunnableIn(tb, created, OnStack(exec))
<1> SUFFICES ASSUME Inv
             PROVE  /\ Listed(tb, ReadyQueue)
                    /\ Elements(ReadyQueue) = RunnableIn(tb, created, OnStack(exec))
  OBVIOUS
<1>1. HasList(tb, RunnableIn(tb, created, OnStack(exec)))
  BY DEF Inv, Consistent
<1>2. PICK n \in Nat : \E q \in [1 .. n -> Thread] :
         IsReadyList(tb, n, q) /\ RunnableIn(tb, created, OnStack(exec)) = {q[i] : i \in 1 .. n}
  BY <1>1 DEF HasList
<1>3. PICK q \in [1 .. n -> Thread] :
         IsReadyList(tb, n, q) /\ RunnableIn(tb, created, OnStack(exec)) = {q[i] : i \in 1 .. n}
  BY <1>2
<1>4. n \in 0 .. Cardinality(Thread) /\ Len(q) = n /\ q \in Seq(Thread)
  BY <1>3, ListIsShort DEF IsReadyList
<1> DEFINE Lists == UNION {[1 .. m -> Thread] : m \in 0 .. Cardinality(Thread)}
<1>5. Cardinality(Thread) \in Nat
  BY ThreadAssumption, FS_CardinalityType
<1>6. q \in Lists
  BY <1>4
<1>7. \A p \in Lists : p \in Seq(Thread)
  BY <1>5
<1>8. ReadyQueue = CHOOSE p \in Lists : IsReadyList(tb, Len(p), p)
  BY DEF ReadyQueue
<1> HIDE DEF Lists
<1>9. ReadyQueue \in Lists /\ IsReadyList(tb, Len(ReadyQueue), ReadyQueue)
  BY <1>3, <1>4, <1>6, <1>8
<1>10. Listed(tb, ReadyQueue) /\ Listed(tb, q)
  BY <1>3, <1>4, <1>7, <1>9 DEF Listed
<1>11. ReadyQueue = q
  BY <1>10, ListedUnique
<1> QED
  BY <1>3, <1>4, <1>10, <1>11 DEF Elements

(* The same after a step. *)
LEMMA QueueBecomes ==
    ASSUME Inv', NEW q, Listed(tb', q)
    PROVE  ReadyQueue' = q
<1>1. Inv' => Listed(tb, ReadyQueue)'
  BY QueueIsListed, PTL
<1>2. Listed(tb', ReadyQueue')
  BY <1>1 DEF Listed, IsReadyList
<1> QED
  BY <1>2, ListedUnique

-----------------------------------------------------------------------------
(* Events in the order of their sequence numbers. *)

DistinctSeqs(E) == \A e, f \in E : e.seq = f.seq => e = f

(* The first of some events, and the others in turn. *)
LEMMA InTurnFirst ==
    ASSUME NEW E \in SUBSET Event, IsFiniteSet(E), NEW e \in E,
           \A f \in E \ {e} : e.seq < f.seq,
           NEW p \in [1 .. Cardinality(E \ {e}) -> E \ {e}], IsInTurn(E \ {e}, p)
    PROVE  /\ p \in Seq(Event) /\ <<e>> \o p \in [1 .. Cardinality(E) -> E]
           /\ IsInTurn(E, <<e>> \o p)
<1> DEFINE n == Cardinality(E \ {e})
           q == <<e>> \o p
<1>1. n \in Nat /\ Cardinality(E) = n + 1
  <2>1. IsFiniteSet(E \ {e}) /\ Cardinality(E) \in Nat
    BY FS_Subset, FS_CardinalityType
  <2> QED
    BY <2>1, FS_RemoveElement, FS_CardinalityType
<1> HIDE DEF n
<1>2. p \in [1 .. n -> E \ {e}]
  BY DEF n
<1>3. p \in Seq(Event) /\ Len(p) = n /\ DOMAIN p = 1 .. n
  BY <1>1, <1>2
<1>4. /\ q \in Seq(Event) /\ Len(q) = n + 1 /\ q[1] = e
      /\ \A i \in 1 .. n : q[i + 1] = p[i]
  BY <1>1, <1>3
<1> HIDE DEF q
<1>5. ASSUME NEW i \in 2 .. n + 1
      PROVE  i - 1 \in 1 .. n /\ q[i] = p[i - 1] /\ q[i] \in E \ {e}
  <2>1. i - 1 \in 1 .. n /\ (i - 1) + 1 = i
    BY <1>1
  <2> QED
    BY <2>1, <1>2, <1>4
<1>6. DOMAIN q = 1 .. n + 1 /\ q \in [1 .. n + 1 -> E]
  <2>1. \A i \in 1 .. n + 1 : q[i] \in E
    <3>1. \A i \in 2 .. n + 1 : q[i] \in E
      BY <1>5
    <3> QED
      BY <1>1, <1>4, <3>1
  <2> QED
    BY <1>1, <1>4, <2>1
<1>7. ASSUME NEW i \in 1 .. n + 1, NEW j \in 1 .. n + 1, i < j
      PROVE  q[i].seq < q[j].seq
  <2>1. j - 1 \in 1 .. n /\ q[j] = p[j - 1] /\ q[j] \in E \ {e}
    <3>1. j \in 2 .. n + 1
      BY <1>1, <1>7
    <3> QED
      BY <3>1, <1>5
  <2>2. CASE i = 1
    BY <1>4, <2>1, <2>2
  <2>3. CASE i > 1
    <3>1. i \in 2 .. n + 1 /\ i - 1 < j - 1
      BY <1>1, <1>7, <2>3
    <3>2. i - 1 \in 1 .. n /\ q[i] = p[i - 1]
      BY <3>1, <1>5
    <3> QED
      BY <2>1, <3>1, <3>2, <1>3 DEF IsInTurn
  <2> QED
    BY <1>1, <2>2, <2>3
<1>8. ASSUME NEW f \in E PROVE \E i \in 1 .. n + 1 : q[i] = f
  <2>1. CASE f = e
    BY <1>1, <1>4, <2>1
  <2>2. CASE f # e
    <3>1. PICK i \in 1 .. n : p[i] = f
      BY <1>3, <2>2 DEF IsInTurn
    <3>2. i + 1 \in 1 .. n + 1
      BY <1>1
    <3>3. q[i + 1] = p[i]
      BY <1>4
    <3> QED
      BY <3>1, <3>2, <3>3
  <2> QED
    BY <2>1, <2>2
<1>9. IsInTurn(E, q)
  BY <1>6, <1>7, <1>8 DEF IsInTurn
<1> QED
  BY <1>1, <1>3, <1>6, <1>9 DEF q

(* The earliest of some events. *)
LEMMA EarliestEvent ==
    ASSUME NEW E \in SUBSET Event, DistinctSeqs(E), E # {}
    PROVE  \E e \in E : \A f \in E \ {e} : e.seq < f.seq
<1> DEFINE S == {e.seq : e \in E}
<1>1. \A e \in E : e.seq \in Nat
  BY SeqAssumption DEF Event
<1>2. S \in SUBSET Nat /\ S # {}
  BY <1>1
<1>3. PICK m \in S : \A k \in S : m <= k
  BY <1>2, NatMinimum
<1>4. PICK e \in E : e.seq = m
  BY <1>3
<1>5. ASSUME NEW f \in E \ {e} PROVE e.seq < f.seq
  <2>1. f.seq # e.seq /\ f.seq \in S
    BY DEF DistinctSeqs
  <2> QED
    BY <2>1, <1>1, <1>3, <1>4
<1> QED
  BY <1>4, <1>5

(* Any finite set of events can be put in turn: there is no smallest one   *)
(* for which this fails.                                                   *)
LEMMA InTurnExists ==
    ASSUME NEW E \in SUBSET Event, IsFiniteSet(E), DistinctSeqs(E)
    PROVE  \E q \in [1 .. Cardinality(E) -> E] : IsInTurn(E, q)
<1> DEFINE Fails(F) == /\ IsFiniteSet(F) /\ DistinctSeqs(F)
                       /\ ~ \E q \in [1 .. Cardinality(F) -> F] : IsInTurn(F, q)
           Bad == {n \in Nat : \E F \in SUBSET Event : Fails(F) /\ Cardinality(F) = n}
<1>1. SUFFICES ASSUME Fails(E) PROVE FALSE
  OBVIOUS
<1>2. Cardinality(E) \in Nat
  BY FS_CardinalityType
<1>3. Bad \in SUBSET Nat /\ Bad # {}
  BY <1>1, <1>2
<1>4. PICK n \in Bad : \A m \in Bad : n <= m
  BY <1>3, NatMinimum
<1>5. PICK F \in SUBSET Event : Fails(F) /\ Cardinality(F) = n
  BY <1>4
<1>6. CASE F = {}
  <2>1. Cardinality(F) = 0
    BY <1>6, FS_EmptySet
  <2> DEFINE q == [i \in 1 .. 0 |-> 0]
  <2>2. q \in [1 .. 0 -> F] /\ DOMAIN q = {}
    OBVIOUS
  <2> HIDE DEF q
  <2>3. IsInTurn(F, q)
    BY <1>6, <2>2 DEF IsInTurn
  <2> QED
    BY <1>5, <2>1, <2>2, <2>3
<1>7. CASE F # {}
  <2>1. PICK e \in F : \A f \in F \ {e} : e.seq < f.seq
    BY <1>5, <1>7, EarliestEvent
  <2>2. /\ IsFiniteSet(F \ {e}) /\ Cardinality(F \ {e}) \in Nat
        /\ Cardinality(F \ {e}) = n - 1 /\ n \in Nat
    <3>1. IsFiniteSet(F \ {e})
      BY <1>5, FS_Subset
    <3> QED
      BY <3>1, <1>4, <1>5, FS_RemoveElement, FS_CardinalityType
  <2>3. F \ {e} \in SUBSET Event /\ DistinctSeqs(F \ {e})
    BY <1>5 DEF DistinctSeqs
  <2>4. Cardinality(F \ {e}) \notin Bad
    BY <1>4, <2>2
  <2>5. ~Fails(F \ {e})
    BY <2>2, <2>3, <2>4
  <2>6. PICK p \in [1 .. Cardinality(F \ {e}) -> F \ {e}] : IsInTurn(F \ {e}, p)
    BY <2>2, <2>3, <2>5
  <2>7. \E q \in [1 .. Cardinality(F) -> F] : IsInTurn(F, q)
    BY <1>5, <2>1, <2>6, InTurnFirst
  <2> QED
    BY <2>7, <1>5
<1> QED
  BY <1>6, <1>7

(* And only in one way. *)
LEMMA InTurnUnique ==
    ASSUME NEW E \in SUBSET Event, NEW n \in Nat,
           NEW q \in [1 .. n -> E], NEW p \in [1 .. n -> E],
           IsInTurn(E, q), IsInTurn(E, p)
    PROVE  q = p
<1>1. \A e \in E : e.seq \in Nat
  BY SeqAssumption DEF Event
<1>2. ASSUME NEW a \in [1 .. n -> E], NEW b \in [1 .. n -> E],
             IsInTurn(E, a), IsInTurn(E, b), NEW k \in 1 .. n,
             \A j \in 1 .. n : j < k => a[j] = b[j]
      PROVE  ~(a[k].seq < b[k].seq)
  <2>1. SUFFICES ASSUME a[k].seq < b[k].seq PROVE FALSE
    OBVIOUS
  <2>2. PICK j \in 1 .. n : b[j] = a[k]
    BY <1>2 DEF IsInTurn
  <2>3. \A i, l \in 1 .. n : i < l => a[i].seq < a[l].seq /\ b[i].seq < b[l].seq
    BY <1>2 DEF IsInTurn
  <2>4. a[k].seq \in Nat /\ b[k].seq \in Nat /\ b[j].seq \in Nat /\ a[j].seq \in Nat
    BY <1>1, <1>2
  <2>5. CASE j < k
    <3>1. a[j] = a[k] /\ a[j].seq < a[k].seq
      BY <2>2, <2>3, <2>5, <1>2
    <3> QED
      BY <3>1, <2>4
  <2>6. CASE j = k
    BY <2>1, <2>2, <2>4, <2>6
  <2>7. CASE j > k
    BY <2>1, <2>2, <2>3, <2>4, <2>7
  <2> QED
    BY <2>5, <2>6, <2>7
<1> DEFINE D == {k \in 1 .. n : q[k] # p[k]}
<1>3. D = {}
  <2>1. SUFFICES ASSUME D # {} PROVE FALSE
    OBVIOUS
  <2>2. PICK k \in D : \A j \in D : k <= j
    <3>1. D \in SUBSET Nat
      OBVIOUS
    <3> QED
      BY <3>1, <2>1, NatMinimum
  <2>3. \A j \in 1 .. n : j < k => q[j] = p[j]
    BY <2>2
  <2>4. ~(q[k].seq < p[k].seq) /\ ~(p[k].seq < q[k].seq)
    BY <1>2, <2>2, <2>3
  <2>5. q[k].seq = p[k].seq
    BY <1>1, <2>2, <2>4
  <2>6. PICK j \in 1 .. n : p[j] = q[k]
    BY <2>2 DEF IsInTurn
  <2>7. p[j].seq = p[k].seq /\ p[j].seq \in Nat /\ j # k
    BY <2>2, <2>5, <2>6, <1>1
  <2>8. p[j].seq < p[k].seq \/ p[k].seq < p[j].seq
    <3>1. k \in DOMAIN p /\ j \in DOMAIN p /\ (j < k \/ k < j)
      BY <2>2, <2>7
    <3> QED
      BY <3>1 DEF IsInTurn
  <2> QED
    BY <2>7, <2>8, <1>1
<1> QED
  BY <1>3

(* BySeq puts events in turn. *)
LEMMA BySeqIs ==
    ASSUME NEW E \in SUBSET Event, IsFiniteSet(E), DistinctSeqs(E)
    PROVE  /\ BySeq(E) \in [1 .. Cardinality(E) -> E]
           /\ IsInTurn(E, BySeq(E))
           /\ BySeq(E) \in Seq(Event) /\ Len(BySeq(E)) = Cardinality(E)
<1>1. /\ BySeq(E) \in [1 .. Cardinality(E) -> E]
      /\ IsInTurn(E, BySeq(E))
  BY InTurnExists DEF BySeq
<1>2. Cardinality(E) \in Nat
  BY FS_CardinalityType
<1> QED
  BY <1>1, <1>2

(* Without its earliest event a set is in turn as before. *)
LEMMA BySeqFirst ==
    ASSUME NEW E \in SUBSET Event, IsFiniteSet(E), DistinctSeqs(E),
           NEW e \in E, \A f \in E \ {e} : e.seq < f.seq
    PROVE  BySeq(E) = <<e>> \o BySeq(E \ {e})
<1>1. E \ {e} \in SUBSET Event /\ IsFiniteSet(E \ {e}) /\ DistinctSeqs(E \ {e})
  BY FS_Subset DEF DistinctSeqs
<1>2. /\ BySeq(E \ {e}) \in [1 .. Cardinality(E \ {e}) -> E \ {e}]
      /\ IsInTurn(E \ {e}, BySeq(E \ {e}))
  BY <1>1, BySeqIs
<1>3. /\ <<e>> \o BySeq(E \ {e}) \in [1 .. Cardinality(E) -> E]
      /\ IsInTurn(E, <<e>> \o BySeq(E \ {e}))
  BY <1>2, InTurnFirst
<1>4. BySeq(E) \in [1 .. Cardinality(E) -> E] /\ IsInTurn(E, BySeq(E))
  BY BySeqIs
<1>5. Cardinality(E) \in Nat
  BY FS_CardinalityType
<1> QED
  BY <1>3, <1>4, <1>5, InTurnUnique

-----------------------------------------------------------------------------
(* What the operations do to the clock, the heap and the ready list.       *)

KeepsTime(s, m) ==
    /\ m.current_time = s.current_time /\ m.running = s.running
    /\ m.events = s.events /\ m.event_seq = s.event_seq

OthersSame(s, m, t) ==
    \A u \in Thread \ {t} : m.flags[u] = s.flags[u] /\ m.leaf[u] = s.leaf[u]

(* m differs from s in the fields of t, which is not on the list.          *)
Touches(s, m, t) ==
    /\ m \in TimebaseState
    /\ m.ready_head = s.ready_head /\ m.ready_tail = s.ready_tail
    /\ \A u \in Thread \ {t} : m.next[u] = s.next[u]
    /\ OthersSame(s, m, t)

(* m is s with t at the end of the list. *)
Appends(s, m, t) ==
    /\ m \in TimebaseState
    /\ \A q : Listed(s, q) /\ t \notin Elements(q) => Listed(m, Append(q, t))
    /\ OthersSame(s, m, t)
    /\ "BLOCKED" \notin m.flags[t]
    /\ m.leaf[t] = s.leaf[t]

(* The list stays where only a thread outside it is touched. *)
LEMMA TouchesListed ==
    ASSUME NEW s, NEW m, NEW t, Touches(s, m, t),
           NEW q, Listed(s, q), t \notin Elements(q)
    PROVE  Listed(m, q)
<1>1. \A u \in Elements(q) : u \in Thread \ {t}
  BY DEF Listed, Elements
<1> QED
  BY <1>1, ListedSame DEF Touches

(* What is touched and then appended is appended. *)
LEMMA TouchesAppends ==
    ASSUME NEW s, NEW m, NEW r, NEW t \in Thread, Touches(s, m, t), Appends(m, r, t)
    PROVE  /\ r \in TimebaseState
           /\ \A q : Listed(s, q) /\ t \notin Elements(q) => Listed(r, Append(q, t))
           /\ OthersSame(s, r, t)
           /\ "BLOCKED" \notin r.flags[t] /\ r.leaf[t] = m.leaf[t]
<1>1. ASSUME NEW q, Listed(s, q), t \notin Elements(q) PROVE Listed(r, Append(q, t))
  <2>1. Listed(m, q)
    BY <1>1, TouchesListed
  <2> QED
    BY <1>1, <2>1 DEF Appends
<1> QED
  BY <1>1 DEF Touches, Appends, OthersSame

(* Touching one thread twice is touching it. *)
LEMMA TouchesTwice ==
    ASSUME NEW s, NEW m, NEW r, NEW t \in Thread, Touches(s, m, t), Touches(m, r, t)
    PROVE  Touches(s, r, t)
BY DEF Touches, OthersSame

(* Assigning the flags of a thread. *)
LEMMA FlagsTouch ==
    ASSUME NEW s \in TimebaseState, NEW t \in Thread, NEW F \in SUBSET ThreadFlag,
           NEW m, m = [s EXCEPT !.flags = [s.flags EXCEPT ![t] = F]]
    PROVE  /\ Touches(s, m, t) /\ KeepsTime(s, m)
           /\ m.flags[t] = F /\ m.leaf = s.leaf
BY FlagsOfOne DEF Touches, OthersSame, KeepsTime

(* Assigning the frames of a thread. *)
LEMMA LeafTouches ==
    ASSUME NEW s \in TimebaseState, NEW t \in Thread, NEW k \in Nat,
           NEW m, m = [s EXCEPT !.leaf = [s.leaf EXCEPT ![t] = k]]
    PROVE  /\ Touches(s, m, t) /\ KeepsTime(s, m)
           /\ m.leaf[t] = k /\ m.flags = s.flags
<1> DEFINE leaf == [s.leaf EXCEPT ![t] = k]
<1>1. leaf \in [Thread -> Nat] /\ leaf[t] = k /\ \A u \in Thread \ {t} : leaf[u] = s.leaf[u]
  BY Fields
<1> HIDE DEF leaf
<1>2. m = [s EXCEPT !.leaf = leaf]
  BY DEF leaf
<1>3. m \in TimebaseState
  BY <1>1, <1>2, FieldTypes
<1>4. /\ m.ready_head = s.ready_head /\ m.ready_tail = s.ready_tail
      /\ m.next = s.next /\ m.flags = s.flags /\ m.leaf = leaf
      /\ m.current_time = s.current_time /\ m.running = s.running
      /\ m.events = s.events /\ m.event_seq = s.event_seq
  BY <1>2 DEF TimebaseState
<1> QED
  BY <1>1, <1>3, <1>4 DEF Touches, OthersSame, KeepsTime

(* A scheduled thread comes last. *)
LEMMA ScheduleAppends ==
    ASSUME NEW s \in TimebaseState, NEW t \in Thread,
           NEW m, m = zsp_timebase_schedule(s, t)
    PROVE  Appends(s, m, t) /\ KeepsTime(s, m)
<1> DEFINE a == [s EXCEPT !.active = s.active + 1]
<1>1. a \in TimebaseState
  <2>1. s.active + 1 \in Int
    BY Fields
  <2> QED
    BY <2>1, FieldTypes
<1>2. /\ a.ready_head = s.ready_head /\ a.ready_tail = s.ready_tail
      /\ a.next = s.next /\ a.flags = s.flags /\ a.leaf = s.leaf
      /\ a.current_time = s.current_time /\ a.running = s.running
      /\ a.events = s.events /\ a.event_seq = s.event_seq
  BY DEF TimebaseState
<1>3. m = ready_queue_add(a, t)
  BY DEF zsp_timebase_schedule
<1> HIDE DEF a
<1>4. ASSUME NEW q, Listed(s, q), t \notin Elements(q) PROVE Listed(m, Append(q, t))
  <2>1. Listed(a, q)
    BY <1>2, <1>4, ListedSame
  <2> QED
    BY <1>1, <1>3, <1>4, <2>1, AddAppends
<1>5. m \in TimebaseState
  BY <1>1, <1>3, AddType
<1>6. KeepsTime(s, m) /\ m.leaf = s.leaf
  BY <1>1, <1>2, <1>3, AddRest DEF KeepsTime
<1>7. \A u \in Thread : m.flags[u] = IF u = t THEN s.flags[u] \ {"BLOCKED"} ELSE s.flags[u]
  BY <1>1, <1>2, <1>3, AddFlags
<1> QED
  BY <1>4, <1>5, <1>6, <1>7 DEF Appends, OthersSame

(* A thread that has frames left and is not blocked is put last when its   *)
(* activation ends, INITIAL or not.                                        *)
LEMMA FinishAppends ==
    ASSUME NEW s \in TimebaseState, NEW t \in Thread,
           s.leaf[t] > 0, "BLOCKED" \notin s.flags[t],
           NEW m, m = FinishActivation(s, t)
    PROVE  Appends(s, m, t) /\ KeepsTime(s, m)
<1>0. s.flags[t] \in SUBSET ThreadFlag
  BY Fields
<1>1. ASSUME NEW c \in TimebaseState, "BLOCKED" \notin c.flags[t], m = Requeue(c, t)
      PROVE  \E d : Touches(c, d, t) /\ KeepsTime(c, d) /\ d.leaf = c.leaf
                     /\ Appends(d, m, t) /\ KeepsTime(d, m)
  <2> DEFINE F == c.flags[t] \ {"SUSPEND"}
             d == [c EXCEPT !.flags = [c.flags EXCEPT ![t] = F]]
  <2>1. F \in SUBSET ThreadFlag
    BY <1>1, Fields
  <2>2. m = zsp_timebase_schedule(d, t)
    BY <1>1 DEF Requeue
  <2> HIDE DEF F
  <2>3. Touches(c, d, t) /\ KeepsTime(c, d) /\ d.leaf = c.leaf
    BY <1>1, <2>1, FlagsTouch
  <2> HIDE DEF d
  <2>4. Appends(d, m, t) /\ KeepsTime(d, m)
    BY <2>2, <2>3, ScheduleAppends DEF Touches
  <2> QED
    BY <2>3, <2>4
<1>2. CASE "INITIAL" \notin s.flags[t]
  <2>1. m = Requeue(s, t)
    BY <1>2 DEF FinishActivation, FinishRun
  <2>2. PICK d : Touches(s, d, t) /\ KeepsTime(s, d) /\ d.leaf = s.leaf
                 /\ Appends(d, m, t) /\ KeepsTime(d, m)
    BY <2>1, <1>1
  <2> QED
    BY <2>2, TouchesAppends DEF Appends, KeepsTime
<1>3. CASE "INITIAL" \in s.flags[t]
  <2> DEFINE F == s.flags[t] \ {"INITIAL"}
             c == [s EXCEPT !.flags = [s.flags EXCEPT ![t] = F]]
  <2>1. F \in SUBSET ThreadFlag /\ "BLOCKED" \notin F
    BY <1>0
  <2>2. m = Requeue(c, t)
    BY <1>3 DEF FinishActivation, FinishInit
  <2> HIDE DEF F
  <2>3. Touches(s, c, t) /\ KeepsTime(s, c) /\ c.leaf = s.leaf
    BY <2>1, FlagsTouch
  <2>4. c.flags[t] = F
    BY DEF TimebaseState
  <2> HIDE DEF c
  <2>5. PICK d : Touches(c, d, t) /\ KeepsTime(c, d) /\ d.leaf = c.leaf
                 /\ Appends(d, m, t) /\ KeepsTime(d, m)
    BY <2>1, <2>2, <2>3, <2>4, <1>1 DEF Touches
  <2>6. Touches(s, d, t)
    BY <2>3, <2>5, TouchesTwice
  <2> QED
    BY <2>3, <2>5, <2>6, TouchesAppends DEF Appends, KeepsTime
<1> QED
  BY <1>2, <1>3

(* Any other thread is left where it is. *)
LEMMA FinishTouches ==
    ASSUME NEW s \in TimebaseState, NEW t \in Thread,
           s.leaf[t] = 0 \/ "BLOCKED" \in s.flags[t],
           NEW m, m = FinishActivation(s, t)
    PROVE  /\ Touches(s, m, t) /\ KeepsTime(s, m) /\ m.leaf = s.leaf
           /\ "BLOCKED" \in s.flags[t] => "BLOCKED" \in m.flags[t]
<1>1. /\ m \in TimebaseState
      /\ m.ready_head = s.ready_head /\ m.ready_tail = s.ready_tail
      /\ m.events = s.events /\ m.leaf = s.leaf
      /\ \A u \in Thread \ {t} : m.flags[u] = s.flags[u] /\ m.next[u] = s.next[u]
      /\ m.current_time = s.current_time /\ m.running = s.running
      /\ m.event_seq = s.event_seq
      /\ "BLOCKED" \in s.flags[t] => "BLOCKED" \in m.flags[t]
  BY FinishesAside
<1> QED
  BY <1>1 DEF Touches, OthersSame, KeepsTime

(* zsp_timebase_yield, and the end of the activation. *)
LEMMA YieldAppends ==
    ASSUME NEW s \in TimebaseState, NEW t \in Thread,
           s.leaf[t] > 0, "BLOCKED" \notin s.flags[t],
           NEW m, m = FinishActivation(zsp_timebase_yield(s, t), t)
    PROVE  Appends(s, m, t) /\ KeepsTime(s, m)
<1> DEFINE F == s.flags[t] \cup {"SUSPEND"}
           c == zsp_timebase_yield(s, t)
<1>1. F \in SUBSET ThreadFlag /\ "BLOCKED" \notin F
  BY Fields DEF ThreadFlag
<1>2. c = [s EXCEPT !.flags = [s.flags EXCEPT ![t] = F]]
  BY DEF zsp_timebase_yield
<1> HIDE DEF c
<1>3. Touches(s, c, t) /\ KeepsTime(s, c) /\ c.flags[t] = F /\ c.leaf = s.leaf
  BY <1>1, <1>2, FlagsTouch
<1> HIDE DEF F
<1>4. Appends(c, m, t) /\ KeepsTime(c, m)
  BY <1>1, <1>3, FinishAppends DEF Touches, c
<1> QED
  BY <1>3, <1>4, TouchesAppends DEF Appends, KeepsTime

(* A primitive blocks the thread, and its activation ends. *)
LEMMA BlockTouches ==
    ASSUME NEW s \in TimebaseState, NEW t \in Thread,
           NEW m, m = FinishActivation(block_thread(s, t), t)
    PROVE  /\ Touches(s, m, t) /\ KeepsTime(s, m) /\ m.leaf = s.leaf
           /\ "BLOCKED" \in m.flags[t]
<1> DEFINE F == s.flags[t] \cup {"BLOCKED"}
           c == block_thread(s, t)
<1>1. F \in SUBSET ThreadFlag /\ "BLOCKED" \in F
  BY Fields DEF ThreadFlag
<1>2. c = [s EXCEPT !.flags = [s.flags EXCEPT ![t] = F]]
  BY DEF block_thread
<1> HIDE DEF c
<1>3. Touches(s, c, t) /\ KeepsTime(s, c) /\ c.flags[t] = F /\ c.leaf = s.leaf
  BY <1>1, <1>2, FlagsTouch
<1> HIDE DEF F
<1>4. /\ Touches(c, m, t) /\ KeepsTime(c, m) /\ m.leaf = c.leaf
      /\ "BLOCKED" \in m.flags[t]
  BY <1>1, <1>3, FinishTouches DEF Touches, c
<1> QED
  BY <1>3, <1>4, TouchesTwice DEF KeepsTime

(* zsp_timebase_wait that suspends, and the end of the activation. *)
LEMMA WaitTouches ==
    ASSUME NEW s \in TimebaseState, NEW t \in Thread, NEW delay \in Nat,
           NEW r, r = FinishActivation(WaitSuspended(s, t, delay), t)
    PROVE  /\ Touches(s, r, t) /\ r.leaf = s.leaf /\ "BLOCKED" \in r.flags[t]
           /\ r.current_time = s.current_time /\ r.running = s.running
           /\ r.event_seq = (s.event_seq + 1) % SeqModulus
           /\ r.events = s.events \cup {[wake_time |-> s.current_time + delay,
                                         seq |-> s.event_seq, thread |-> t]}
<1> DEFINE F  == (s.flags[t] \cup {"BLOCKED"}) \ {"SUSPEND"}
           m  == [s EXCEPT !.flags = [s.flags EXCEPT ![t] = F]]
           e  == [wake_time |-> m.current_time + delay, seq |-> m.event_seq, thread |-> t]
           m1 == [m EXCEPT !.active = m.active + 1]
           n  == (m.event_seq + 1) % SeqModulus
           m2 == [m1 EXCEPT !.event_seq = n]
           E  == m.events \cup {e}
           b  == [m2 EXCEPT !.events = E]
<1>1. F \in SUBSET ThreadFlag /\ "BLOCKED" \in F
  BY Fields DEF ThreadFlag
<1>2. WaitSuspended(s, t, delay) = b
  BY DEF WaitSuspended, zsp_timebase_schedule_at
<1> HIDE DEF F
<1>3. Touches(s, m, t) /\ KeepsTime(s, m) /\ m.leaf = s.leaf
  BY <1>1, FlagsTouch
<1>4. m.flags[t] = F
  BY DEF TimebaseState
<1> HIDE DEF m
<1>5. m.active + 1 \in Int /\ n \in 0 .. SeqModulus - 1 /\ E \in SUBSET Event
  <2>1. /\ m.current_time \in Nat /\ m.event_seq \in 0 .. SeqModulus - 1
        /\ m.active \in Int /\ m.events \in SUBSET Event
    BY <1>3, Fields DEF Touches
  <2>2. e \in Event
    BY <2>1 DEF Event
  <2>3. m.event_seq + 1 \in Nat /\ SeqModulus \in Nat \ {0}
    BY <2>1, SeqAssumption
  <2>4. n \in 0 .. SeqModulus - 1
    BY <2>3
  <2> QED
    BY <2>1, <2>2, <2>4
<1> HIDE DEF e, n, E
<1>6. b \in TimebaseState
  <2>1. m1 \in TimebaseState
    BY <1>3, <1>5, FieldTypes DEF Touches
  <2> HIDE DEF m1
  <2>2. m2 \in TimebaseState
    BY <2>1, <1>5, FieldTypes
  <2> HIDE DEF m2
  <2> QED
    BY <2>2, <1>5, FieldTypes
<1>7. /\ b.ready_head = m.ready_head /\ b.ready_tail = m.ready_tail
      /\ b.next = m.next /\ b.leaf = m.leaf /\ b.flags = m.flags
      /\ b.current_time = m.current_time /\ b.running = m.running
      /\ b.events = E /\ b.event_seq = n
  BY <1>3 DEF TimebaseState, Touches
<1> HIDE DEF b
<1>8. Touches(s, b, t)
  BY <1>3, <1>6, <1>7 DEF Touches, OthersSame
<1>9. /\ Touches(b, r, t) /\ KeepsTime(b, r) /\ r.leaf = b.leaf
      /\ "BLOCKED" \in r.flags[t]
  BY <1>1, <1>2, <1>4, <1>6, <1>7, FinishTouches
<1>10. Touches(s, r, t)
  BY <1>8, <1>9, TouchesTwice
<1>11. e = [wake_time |-> s.current_time + delay, seq |-> s.event_seq, thread |-> t]
       /\ E = s.events \cup {e} /\ n = (s.event_seq + 1) % SeqModulus
  BY <1>3 DEF KeepsTime, e, E, n
<1> QED
  BY <1>3, <1>7, <1>9, <1>10, <1>11 DEF KeepsTime

(* zsp_timebase_return pops a frame. *)
LEMMA ReturnTouches ==
    ASSUME NEW s \in TimebaseState, NEW t \in Thread, s.leaf[t] > 0,
           NEW b, b = zsp_timebase_return(s, t)
    PROVE  /\ Touches(s, b, t) /\ KeepsTime(s, b) /\ b.leaf[t] = s.leaf[t] - 1
           /\ "BLOCKED" \in b.flags[t] <=> "BLOCKED" \in s.flags[t]
<1> DEFINE k == s.leaf[t] - 1
           m == [s EXCEPT !.leaf = [s.leaf EXCEPT ![t] = k]]
           F == IF ReturnContinues(s, t) THEN s.flags[t] \ {"SUSPEND"} ELSE s.flags[t]
           c == [m EXCEPT !.flags = [m.flags EXCEPT ![t] = F]]
<1>1. k \in Nat
  BY Fields
<1>2. F \in SUBSET ThreadFlag /\ ("BLOCKED" \in F <=> "BLOCKED" \in s.flags[t])
  BY Fields
<1> HIDE DEF k
<1>3. Touches(s, m, t) /\ KeepsTime(s, m) /\ m.flags = s.flags
  BY <1>1, LeafTouches
<1>4. m.leaf[t] = k
  BY DEF TimebaseState
<1>5. b = c
  <2> DEFINE G == IF ReturnContinues(s, t)
                  THEN [s.flags EXCEPT ![t] = s.flags[t] \ {"SUSPEND"}] ELSE s.flags
  <2>1. b = [m EXCEPT !.flags = G]
    BY DEF zsp_timebase_return, k
  <2>2. G = [s.flags EXCEPT ![t] = F]
    BY Fields
  <2> HIDE DEF G, m
  <2> QED
    BY <2>1, <2>2, <1>3
<1> HIDE DEF m, F
<1>6. Touches(m, c, t) /\ KeepsTime(m, c) /\ c.leaf = m.leaf
  BY <1>2, <1>3, FlagsTouch DEF Touches
<1>7. c.flags[t] = F
  BY <1>3 DEF Touches, TimebaseState
<1> HIDE DEF c
<1>8. Touches(s, c, t)
  BY <1>3, <1>6, TouchesTwice
<1> QED
  BY <1>2, <1>3, <1>4, <1>5, <1>6, <1>7, <1>8 DEF KeepsTime, k

(* The fields of a new thread are set. *)
LEMMA CreateTouches ==
    ASSUME NEW s \in TimebaseState, NEW t \in Thread,
           NEW m, m = thread_init_common(s, t), m \in TimebaseState
    PROVE  Touches(s, m, t) /\ KeepsTime(s, m)
<1> DEFINE next  == [s.next EXCEPT ![t] = NULL]
           flags == [s.flags EXCEPT ![t] = {"INITIAL"}]
           leaf  == [s.leaf EXCEPT ![t] = 1]
           r == [s EXCEPT !.next = next, !.flags = flags, !.leaf = leaf]
<1>1. m = r
  BY DEF thread_init_common
<1>2. \A u \in Thread \ {t} : /\ next[u] = s.next[u] /\ flags[u] = s.flags[u]
                              /\ leaf[u] = s.leaf[u]
  BY Fields
<1> HIDE DEF next, flags, leaf
<1>3. /\ r.ready_head = s.ready_head /\ r.ready_tail = s.ready_tail
      /\ r.next = next /\ r.flags = flags /\ r.leaf = leaf
      /\ r.current_time = s.current_time /\ r.running = s.running
      /\ r.events = s.events /\ r.event_seq = s.event_seq
  BY DEF TimebaseState
<1> QED
  BY <1>1, <1>2, <1>3 DEF Touches, OthersSame, KeepsTime

(* zsp_timebase_wait that advances the time itself. *)
LEMMA InlineTouches ==
    ASSUME NEW s \in TimebaseState, NEW t \in Thread, NEW delay \in Nat,
           NEW m, m = WaitInline(s, t, delay)
    PROVE  /\ Touches(s, m, t) /\ m.leaf = s.leaf
           /\ m.current_time = s.current_time + delay /\ m.running = s.running
           /\ m.events = s.events /\ m.event_seq = s.event_seq
<1> DEFINE T == s.current_time + delay
           c == [s EXCEPT !.current_time = T]
           F == c.flags[t] \cup {"SUSPEND"}
<1>1. T \in Nat
  BY Fields
<1>2. m = [c EXCEPT !.flags = [c.flags EXCEPT ![t] = F]]
  BY DEF WaitInline, zsp_timebase_yield
<1> HIDE DEF T
<1>3. c \in TimebaseState
  BY <1>1, FieldTypes
<1>4. /\ c.ready_head = s.ready_head /\ c.ready_tail = s.ready_tail
      /\ c.next = s.next /\ c.flags = s.flags /\ c.leaf = s.leaf
      /\ c.current_time = T /\ c.running = s.running
      /\ c.events = s.events /\ c.event_seq = s.event_seq
  BY DEF TimebaseState
<1> HIDE DEF c
<1>5. F \in SUBSET ThreadFlag
  BY <1>3, Fields DEF ThreadFlag
<1> HIDE DEF F
<1>6. Touches(c, m, t) /\ KeepsTime(c, m) /\ m.leaf = c.leaf
  BY <1>2, <1>3, <1>5, FlagsTouch
<1>7. Touches(s, c, t)
  BY <1>3, <1>4 DEF Touches, OthersSame
<1>8. Touches(s, m, t)
  BY <1>6, <1>7, TouchesTwice
<1> QED
  BY <1>4, <1>6, <1>8 DEF KeepsTime, T

(* Assignments to the clock and to running leave the threads alone. *)
SameThreads(s, m) ==
    /\ m.ready_head = s.ready_head /\ m.ready_tail = s.ready_tail
    /\ m.next = s.next /\ m.flags = s.flags /\ m.leaf = s.leaf
    /\ m.events = s.events /\ m.event_seq = s.event_seq

LEMMA ClockTouches ==
    ASSUME NEW s \in TimebaseState
    PROVE  /\ SameThreads(s, [s EXCEPT !.running = TRUE])
           /\ [s EXCEPT !.running = TRUE].running
           /\ [s EXCEPT !.running = TRUE].current_time = s.current_time
           /\ SameThreads(s, BeginAdvance(s))
           /\ BeginAdvance(s).running = s.running
           /\ BeginAdvance(s).current_time = FirstEvent(s).wake_time
           /\ \A end \in Nat :
                 /\ SameThreads(s, FinishRunUntil(s, end))
                 /\ FinishRunUntil(s, end).current_time =
                       IF s.current_time < end THEN end ELSE s.current_time
BY DEF TimebaseState, SameThreads, BeginAdvance, FinishRunUntil

(* zsp_timebase_run takes the first thread of the list. *)
LEMMA RunTakesHead ==
    ASSUME NEW s \in TimebaseState, NEW q, Listed(s, q), s.ready_head # NULL,
           NEW m, m = BeginRun(s)
    PROVE  /\ q # <<>> /\ s.ready_head = Head(q) /\ Listed(m, Tail(q))
           /\ KeepsTime(s, m) /\ m.flags = s.flags /\ m.leaf = s.leaf
<1> DEFINE c == [s EXCEPT !.active = s.active - 1]
<1>1. c \in TimebaseState
  <2>1. s.active - 1 \in Int
    BY Fields
  <2> QED
    BY <2>1, FieldTypes
<1>2. /\ c.ready_head = s.ready_head /\ c.ready_tail = s.ready_tail
      /\ c.next = s.next /\ c.flags = s.flags /\ c.leaf = s.leaf
      /\ c.current_time = s.current_time /\ c.running = s.running
      /\ c.events = s.events /\ c.event_seq = s.event_seq
  BY DEF TimebaseState
<1>3. m = ready_queue_pop(c)
  BY DEF BeginRun
<1> HIDE DEF c
<1>4. Listed(c, q)
  BY <1>2, ListedSame
<1>5. q # <<>> /\ c.ready_head = Head(q) /\ Listed(m, Tail(q))
  BY <1>1, <1>2, <1>3, <1>4, PopTakesHead
<1>6. /\ m.current_time = c.current_time /\ m.running = c.running
      /\ m.events = c.events /\ m.event_seq = c.event_seq
      /\ m.flags = c.flags /\ m.leaf = c.leaf
  BY <1>1, <1>2, <1>3, PopRest
<1> QED
  BY <1>2, <1>5, <1>6 DEF KeepsTime

(* One turn of the loop of zsp_timebase_advance puts the thread of the     *)
(* first event last.                                                       *)
LEMMA MoveAppends ==
    ASSUME NEW s \in TimebaseState, NEW e \in s.events, e = FirstEvent(s),
           NEW m, m = MoveDue(s)
    PROVE  /\ Appends(s, m, e.thread)
           /\ m.events = s.events \ {e} /\ m.event_seq = s.event_seq
           /\ m.current_time = s.current_time /\ m.running = s.running
<1> DEFINE E == s.events \ {e}
           c == [s EXCEPT !.events = E]
           t == e.thread
<1>1. t \in Thread /\ E \in SUBSET Event
  BY Fields DEF Event
<1>2. m = ready_queue_add(c, t)
  BY DEF MoveDue
<1> HIDE DEF E, t
<1>3. c \in TimebaseState
  BY <1>1, FieldTypes
<1>4. /\ c.ready_head = s.ready_head /\ c.ready_tail = s.ready_tail
      /\ c.next = s.next /\ c.flags = s.flags /\ c.leaf = s.leaf
      /\ c.current_time = s.current_time /\ c.running = s.running
      /\ c.events = E /\ c.event_seq = s.event_seq
  BY DEF TimebaseState
<1> HIDE DEF c
<1>5. ASSUME NEW q, Listed(s, q), t \notin Elements(q) PROVE Listed(m, Append(q, t))
  <2>1. Listed(c, q)
    BY <1>4, <1>5, ListedSame
  <2> QED
    BY <1>1, <1>2, <1>3, <1>5, <2>1, AddAppends
<1>6. m \in TimebaseState
  BY <1>1, <1>2, <1>3, AddType
<1>7. /\ m.events = c.events /\ m.leaf = c.leaf /\ m.event_seq = c.event_seq
      /\ m.current_time = c.current_time /\ m.running = c.running
  BY <1>1, <1>2, <1>3, AddRest
<1>8. \A u \in Thread : m.flags[u] = IF u = t THEN s.flags[u] \ {"BLOCKED"} ELSE s.flags[u]
  BY <1>1, <1>2, <1>3, <1>4, AddFlags
<1>9. Appends(s, m, t)
  BY <1>1, <1>4, <1>5, <1>6, <1>7, <1>8 DEF Appends, OthersSame
<1> QED
  BY <1>4, <1>7, <1>9 DEF E, t

-----------------------------------------------------------------------------
(* The abstract state of a thread.                                         *)

Advancing == {"main_advance", "until_advance"}

(* Where a thread is while no due events are being moved. *)
Where(s, C, P, X, t) ==
    IF t \notin C THEN "absent"
    ELSE IF t \in X THEN "running"
    ELSE IF s.leaf[t] = 0 THEN "done"
    ELSE IF t \in P THEN "parked"
    ELSE IF "BLOCKED" \notin s.flags[t] THEN "ready"
    ELSE "timed"

Places == [t \in Thread |-> Where(tb, created, parked, OnStack(exec), t)]

(* The empty set is in turn as the empty sequence. *)
LEMMA NothingInTurn == BySeq({}) \in Seq(Event) /\ Len(BySeq({})) = 0
<1>1. {} \in SUBSET Event /\ IsFiniteSet({}) /\ DistinctSeqs({}) /\ Cardinality({}) = 0
  BY FS_EmptySet DEF DistinctSeqs
<1> QED
  BY <1>1, BySeqIs

(* Outside zsp_timebase_advance the ready sequence is the list, and the    *)
(* state of a thread is where it is.                                       *)
LEMMA Settled ==
    Inv /\ pc \notin Advancing =>
        DueNow = {} /\ AbstractReady = ReadyQueue /\ AbstractState = Places
<1> SUFFICES ASSUME Inv, pc \notin Advancing
             PROVE  DueNow = {} /\ AbstractReady = ReadyQueue /\ AbstractState = Places
  OBVIOUS
<1>1. DueNow = {}
  BY DEF DueNow, Advancing
<1>2. AbstractReady = ReadyQueue
  <2>1. ReadyQueue \in Seq(Thread)
    BY QueueIsListed DEF Listed
  <2>2. ThreadsOf(BySeq(DueNow)) = <<>>
    BY <1>1, NothingInTurn DEF ThreadsOf
  <2> QED
    BY <2>1, <2>2 DEF AbstractReady
<1>3. \A t \in Thread : InExec(t) <=> t \in OnStack(exec)
  BY DEF InExec, OnStack
<1>4. AbstractState = Places
  BY <1>1, <1>3 DEF AbstractState, Places, Where
<1> QED
  BY <1>1, <1>2, <1>4

(* The same after a step. *)
LEMMA SettledNext ==
    ASSUME Inv', pc' \notin Advancing
    PROVE  DueNow' = {} /\ AbstractReady' = ReadyQueue' /\ AbstractState' = Places'
<1>1. Inv' /\ (pc \notin Advancing)' =>
         (DueNow = {} /\ AbstractReady = ReadyQueue /\ AbstractState = Places)'
  BY Settled, PTL
<1> QED
  BY <1>1

(* What a step on behalf of t leaves alone. *)
OthersStay(t) ==
    /\ OthersSame(tb, tb', t)
    /\ \A u \in Thread \ {t} : /\ u \in created' <=> u \in created
                               /\ u \in parked' <=> u \in parked
                               /\ u \in OnStack(exec') <=> u \in OnStack(exec)

(* Then t is the only thread whose place changes. *)
LEMMA OnePlace ==
    ASSUME NEW t \in Thread, OthersStay(t)
    PROVE  Places' = [Places EXCEPT ![t] = Places'[t]]
<1>1. ASSUME NEW u \in Thread \ {t} PROVE Places'[u] = Places[u]
  BY DEF Places, Where, OthersStay, OthersSame
<1> DEFINE p == Places
           r == Places'
<1>2. DOMAIN p = Thread /\ DOMAIN r = Thread /\ p = [u \in Thread |-> p[u]]
      /\ r = [u \in Thread |-> r[u]]
  BY DEF Places
<1>3. \A u \in Thread \ {t} : r[u] = p[u]
  BY <1>1
<1> HIDE DEF p, r
<1>4. r = [p EXCEPT ![t] = r[t]]
  BY <1>2, <1>3
<1> QED
  BY <1>4 DEF p, r

(* A step in the abstract scheduler that moves t. *)
LEMMA MovesOne ==
    ASSUME Inv, Inv', pc \notin Advancing, pc' \notin Advancing,
           NEW t \in Thread, OthersStay(t)
    PROVE  Abstract!Move(t, Places[t], Places'[t])
<1>1. AbstractState = Places
  BY Settled
<1>2. AbstractState' = Places'
  BY SettledNext
<1>3. Places' = [Places EXCEPT ![t] = Places'[t]]
  BY OnePlace
<1> QED
  BY <1>1, <1>2, <1>3 DEF Abstract!Move

(* Where no thread executes, none runs in the abstract scheduler. *)
LEMMA IdleRuns ==
    ASSUME Inv, pc \notin Advancing, exec = <<>>
    PROVE  Abstract!NoneRunning
<1>1. AbstractState = Places
  BY Settled
<1>2. OnStack(exec) = {}
  BY DEF OnStack
<1>3. \A t \in Thread : Places[t] # "running"
  BY <1>2 DEF Places, Where
<1> QED
  BY <1>1, <1>3 DEF Abstract!NoneRunning

(* An executing thread is running, and not on the list. *)
LEMMA ExecutingRuns ==
    ASSUME Inv, NEW t \in Thread, Executing(t)
    PROVE  /\ Places[t] = "running" /\ t \in OnStack(exec) /\ t \in created
           /\ t \notin parked /\ t \notin Elements(ReadyQueue)
           /\ tb \in TimebaseState /\ tb.leaf[t] \in Nat /\ tb.leaf[t] > 0
           /\ "BLOCKED" \notin tb.flags[t] /\ exec # <<>>
<1>1. t \in OnStack(exec)
  BY StackPop DEF Inv, Executing
<1>2. /\ t \in created /\ t \notin parked /\ t \notin RunnableIn(tb, created, OnStack(exec))
      /\ tb \in TimebaseState /\ tb.leaf[t] > 0 /\ "BLOCKED" \notin tb.flags[t]
  BY <1>1, NotWaiting DEF Inv
<1>3. tb.leaf[t] \in Nat
  BY <1>2, Fields
<1> QED
  BY <1>1, <1>2, <1>3, QueueIsListed DEF Places, Where, Executing

-----------------------------------------------------------------------------
(* The order of the delays.                                                *)

(* Nothing executes while due events are moved and none of them is in the  *)
(* past; run_until is running; the sequence numbers of the events are      *)
(* below the next one, and distinct.                                       *)
OrderInv ==
    /\ pc \in Advancing => /\ exec = <<>>
                           /\ \A e \in tb.events : tb.current_time <= e.wake_time
    /\ pc \in {"until", "until_advance"} => tb.running /\ end_ticks \in EndTimes
    /\ \A e \in tb.events : e.seq < tb.event_seq
    /\ DistinctSeqs(tb.events)

(* Steps of tasks that leave the heap alone keep the order. *)
LEMMA KeepsOrder ==
    ASSUME OrderInv, pc \notin Advancing, UNCHANGED <<pc, end_ticks>>,
           tb'.running = tb.running, tb'.events = tb.events,
           tb'.event_seq = tb.event_seq
    PROVE  OrderInv'
BY DEF OrderInv, DistinctSeqs

(* A task executes only outside zsp_timebase_advance. *)
LEMMA ExecutesOutside ==
    ASSUME OrderInv, exec # <<>>
    PROVE  pc \notin Advancing
BY DEF OrderInv

(* A step that puts t at the end of the list makes it ready. *)
LEMMA AppendedIsReady ==
    ASSUME Inv, Inv', pc \notin Advancing, pc' \notin Advancing,
           NEW t \in Thread, OthersStay(t), KeepsTime(tb, tb'),
           Listed(tb', Append(ReadyQueue, t)), Places'[t] = "ready"
    PROVE  Abstract!BecomeReady(t, Places[t])
<1>1. ReadyQueue' = Append(ReadyQueue, t)
  BY QueueBecomes
<1>2. DueNow = {} /\ AbstractReady = ReadyQueue
  BY Settled
<1>3. DueNow' = {} /\ AbstractReady' = ReadyQueue'
  BY SettledNext
<1>4. Abstract!Move(t, Places[t], "ready")
  BY MovesOne
<1> QED
  BY <1>1, <1>2, <1>3, <1>4 DEF Abstract!BecomeReady, KeepsTime

(* A step that touches only t, which is not on the list, leaves the ready  *)
(* sequence alone.                                                         *)
LEMMA TouchedReady ==
    ASSUME Inv, Inv', pc \notin Advancing, pc' \notin Advancing,
           NEW t, Touches(tb, tb', t), t \notin Elements(ReadyQueue)
    PROVE  DueNow = {} /\ DueNow' = {} /\ AbstractReady' = AbstractReady
<1>1. Listed(tb, ReadyQueue)
  BY QueueIsListed
<1>2. Listed(tb', ReadyQueue)
  BY <1>1, TouchesListed
<1>3. ReadyQueue' = ReadyQueue
  BY <1>2, QueueBecomes
<1> QED
  BY <1>3, Settled, SettledNext

(* If it leaves the time alone too, only the state of t changes. *)
LEMMA TouchedMoves ==
    ASSUME Inv, Inv', pc \notin Advancing, pc' \notin Advancing,
           NEW t \in Thread, OthersStay(t), KeepsTime(tb, tb'),
           Touches(tb, tb', t), t \notin Elements(ReadyQueue)
    PROVE  /\ Abstract!Move(t, Places[t], Places'[t])
           /\ UNCHANGED <<tb.current_time, AbstractReady, tb.events \ DueNow,
                          tb.event_seq>>
BY TouchedReady, MovesOne DEF KeepsTime

-----------------------------------------------------------------------------
(* Each call implements a step of the scheduler.                           *)

(* zsp_timebase_yield. *)
LEMMA YieldStep ==
    ASSUME Inv, Inv', OrderInv, NEW t \in Thread, TaskYield(t)
    PROVE  OrderInv' /\ Abstract!Suspend(t)
<1>1. /\ Executing(t) /\ Leave(zsp_timebase_yield(tb, t), t)
      /\ UNCHANGED <<created, parked, pc, end_ticks>>
  BY DEF TaskYield, Leave
<1>2. /\ Places[t] = "running" /\ t \in created /\ t \notin parked
      /\ t \notin Elements(ReadyQueue) /\ tb \in TimebaseState
      /\ tb.leaf[t] > 0 /\ "BLOCKED" \notin tb.flags[t] /\ exec # <<>>
  BY <1>1, ExecutingRuns
<1>3. tb' = FinishActivation(zsp_timebase_yield(tb, t), t)
      /\ OnStack(exec') = OnStack(exec) \ {t}
  BY <1>1, LeaveStep
<1>4. Appends(tb, tb', t) /\ KeepsTime(tb, tb')
  BY <1>2, <1>3, YieldAppends
<1>5. Listed(tb', Append(ReadyQueue, t))
  BY <1>2, <1>4, QueueIsListed DEF Appends
<1>6. pc \notin Advancing /\ pc' \notin Advancing
  BY <1>1, <1>2, ExecutesOutside
<1>7. OthersStay(t)
  BY <1>1, <1>3, <1>4 DEF OthersStay, Appends
<1>8. Places'[t] = "ready"
  BY <1>1, <1>2, <1>3, <1>4 DEF Places, Where, Appends
<1>9. Abstract!Suspend(t)
  BY <1>2, <1>4, <1>5, <1>6, <1>7, <1>8, AppendedIsReady DEF Abstract!Suspend
<1>10. OrderInv'
  BY <1>1, <1>4, <1>6, KeepsOrder DEF KeepsTime
<1> QED
  BY <1>9, <1>10

(* A primitive blocks the executing thread. *)
LEMMA BlockStep ==
    ASSUME Inv, Inv', OrderInv, NEW t \in Thread, TaskBlock(t)
    PROVE  OrderInv' /\ Abstract!Park(t)
<1>1. /\ Executing(t) /\ Leave(block_thread(tb, t), t)
      /\ parked' = parked \cup {t} /\ UNCHANGED <<created, pc, end_ticks>>
  BY DEF TaskBlock, Leave
<1>2. /\ Places[t] = "running" /\ t \in created /\ t \notin Elements(ReadyQueue)
      /\ tb \in TimebaseState /\ tb.leaf[t] > 0 /\ exec # <<>>
  BY <1>1, ExecutingRuns
<1>3. tb' = FinishActivation(block_thread(tb, t), t)
      /\ OnStack(exec') = OnStack(exec) \ {t}
  BY <1>1, LeaveStep
<1>4. Touches(tb, tb', t) /\ KeepsTime(tb, tb') /\ tb'.leaf = tb.leaf
  BY <1>2, <1>3, BlockTouches
<1>5. pc \notin Advancing /\ pc' \notin Advancing
  BY <1>1, <1>2, ExecutesOutside
<1>6. OthersStay(t)
  BY <1>1, <1>3, <1>4 DEF OthersStay, Touches
<1>7. Places'[t] = "parked"
  BY <1>1, <1>2, <1>3, <1>4 DEF Places, Where
<1>8. Abstract!Park(t)
  BY <1>2, <1>4, <1>5, <1>6, <1>7, TouchedMoves DEF Abstract!Park
<1>9. OrderInv'
  BY <1>1, <1>4, <1>5, KeepsOrder DEF KeepsTime
<1> QED
  BY <1>8, <1>9

(* zsp_timebase_schedule of a thread that was on a wait list. *)
LEMMA WakeStep ==
    ASSUME Inv, Inv', OrderInv, NEW t \in Thread, Wake(t)
    PROVE  OrderInv' /\ Abstract!Wake(t)
<1>1. /\ CanCall /\ t \in parked /\ parked' = parked \ {t}
      /\ tb' = zsp_timebase_schedule(tb, t)
      /\ UNCHANGED <<created, exec, pc, end_ticks>>
  BY DEF Wake
<1>2. /\ t \in created /\ t \notin OnStack(exec) /\ "BLOCKED" \in tb.flags[t]
      /\ tb \in TimebaseState /\ tb.leaf[t] > 0
  BY <1>1 DEF Inv, Consistent, Accounted, Waits
<1>3. t \notin Elements(ReadyQueue)
  BY <1>2, QueueIsListed DEF RunnableIn
<1>4. Appends(tb, tb', t) /\ KeepsTime(tb, tb')
  BY <1>1, <1>2, ScheduleAppends
<1>5. Listed(tb', Append(ReadyQueue, t))
  BY <1>3, <1>4, QueueIsListed DEF Appends
<1>6. pc \notin Advancing /\ pc' \notin Advancing
  BY <1>1, ExecutesOutside DEF CanCall, Advancing
<1>7. OthersStay(t)
  BY <1>1, <1>4 DEF OthersStay, Appends
<1>8. tb.leaf[t] # 0
  BY <1>2, Fields
<1>9. Places[t] = "parked"
  BY <1>1, <1>2, <1>8 DEF Places, Where
<1>10. Places'[t] = "ready"
  BY <1>1, <1>2, <1>4, <1>8 DEF Places, Where, Appends
<1>11. Abstract!Wake(t)
  BY <1>4, <1>5, <1>6, <1>7, <1>9, <1>10, AppendedIsReady DEF Abstract!Wake
<1>12. OrderInv'
  BY <1>1, <1>4, <1>6, KeepsOrder DEF KeepsTime
<1> QED
  BY <1>11, <1>12

(* A thread is created and enters its function. *)
LEMMA CreateStep ==
    ASSUME Inv, Inv', OrderInv, NEW t \in Thread, ThreadCreate(t)
    PROVE  OrderInv' /\ Abstract!Start(t)
<1>1. /\ CanCall /\ t \notin created /\ created' = created \cup {t}
      /\ tb' = thread_init_common(tb, t) /\ exec' = Append(exec, t)
      /\ UNCHANGED <<parked, pc, end_ticks>>
  BY DEF ThreadCreate
<1>2. tb \in TimebaseState /\ tb' \in TimebaseState /\ t \notin OnStack(exec)
  BY <1>1 DEF Inv, Consistent
<1>3. OnStack(exec') = OnStack(exec) \cup {t}
  BY <1>1, <1>2, StackPush DEF Inv
<1>4. Touches(tb, tb', t) /\ KeepsTime(tb, tb')
  BY <1>1, <1>2, CreateTouches
<1>5. t \notin Elements(ReadyQueue)
  BY <1>1, QueueIsListed DEF RunnableIn
<1>6. pc \notin Advancing /\ pc' \notin Advancing
  BY <1>1, ExecutesOutside DEF CanCall, Advancing
<1>7. OthersStay(t)
  BY <1>1, <1>3, <1>4 DEF OthersStay, Touches
<1>8. Places[t] = "absent" /\ Places'[t] = "running"
  BY <1>1, <1>3 DEF Places, Where
<1>9. Abstract!Start(t)
  BY <1>4, <1>5, <1>6, <1>7, <1>8, TouchedMoves DEF Abstract!Start
<1>10. OrderInv'
  BY <1>1, <1>4, <1>6, KeepsOrder DEF KeepsTime
<1> QED
  BY <1>9, <1>10

(* zsp_timebase_thread_free of a thread that has completed. *)
LEMMA FreeStep ==
    ASSUME Inv, Inv', OrderInv, NEW t \in Thread, ThreadFree(t)
    PROVE  OrderInv' /\ Abstract!Free(t)
<1>1. /\ pc = "main" /\ t \in created /\ tb.leaf[t] = 0 /\ created' = created \ {t}
      /\ UNCHANGED <<tb, parked, exec, pc, end_ticks>>
  BY DEF ThreadFree
<1>2. tb \in TimebaseState /\ t \notin OnStack(exec)
  BY <1>1 DEF Inv, Consistent
<1>3. Touches(tb, tb', t) /\ KeepsTime(tb, tb') /\ OthersStay(t)
  BY <1>1, <1>2 DEF Touches, KeepsTime, OthersSame, OthersStay
<1>4. t \notin Elements(ReadyQueue)
  BY <1>1, QueueIsListed DEF RunnableIn
<1>5. pc \notin Advancing /\ pc' \notin Advancing
  BY <1>1 DEF Advancing
<1>6. Places[t] = "done" /\ Places'[t] = "absent"
  BY <1>1, <1>2 DEF Places, Where
<1>7. Abstract!Free(t)
  BY <1>3, <1>4, <1>5, <1>6, TouchedMoves DEF Abstract!Free
<1>8. OrderInv'
  BY <1>1, <1>3, <1>5, KeepsOrder DEF KeepsTime
<1> QED
  BY <1>7, <1>8

(* A delay that the executing thread waits for in the heap. *)
LEMMA WaitStep ==
    ASSUME Inv, Inv', OrderInv, MaxSeq \in Nat, MaxSeq < SeqModulus,
           NEW t \in Thread, NEW delay \in Delays, TaskWait(t, delay)
    PROVE  OrderInv' /\ Abstract!Sleep(t, delay)
<1> DEFINE e == [wake_time |-> tb.current_time + delay, seq |-> tb.event_seq, thread |-> t]
<1>1. /\ Executing(t) /\ Leave(zsp_timebase_wait(tb, t, delay), t)
      /\ ~WaitsInline(tb, t, delay) /\ tb.event_seq < MaxSeq
      /\ UNCHANGED <<created, parked, pc, end_ticks>> /\ delay \in Nat
  BY TimeAssumption DEF TaskWait, Leave
<1>2. /\ Places[t] = "running" /\ t \in created /\ t \notin parked
      /\ t \notin Elements(ReadyQueue)
      /\ tb \in TimebaseState /\ tb.leaf[t] > 0 /\ exec # <<>>
  BY <1>1, ExecutingRuns
<1>3. tb' = FinishActivation(WaitSuspended(tb, t, delay), t)
      /\ OnStack(exec') = OnStack(exec) \ {t}
  BY <1>1, LeaveStep DEF zsp_timebase_wait
<1>4. /\ Touches(tb, tb', t) /\ tb'.leaf = tb.leaf /\ "BLOCKED" \in tb'.flags[t]
      /\ tb'.current_time = tb.current_time /\ tb'.running = tb.running
      /\ tb'.event_seq = (tb.event_seq + 1) % SeqModulus
      /\ tb'.events = tb.events \cup {e}
  BY <1>1, <1>2, <1>3, WaitTouches
<1>5. tb'.event_seq = tb.event_seq + 1 /\ tb.event_seq \in Nat
  <2>1. tb.event_seq \in 0 .. SeqModulus - 1
    BY <1>2, Fields
  <2>2. /\ tb.event_seq + 1 \in 0 .. SeqModulus - 1 /\ SeqModulus \in Nat \ {0}
        /\ tb.event_seq \in Nat
    BY <2>1, <1>1, SeqAssumption
  <2>3. \A n \in 0 .. SeqModulus - 1 : n % SeqModulus = n
    BY SeqAssumption
  <2> QED
    BY <2>2, <2>3, <1>4
<1>6. pc \notin Advancing /\ pc' \notin Advancing
  BY <1>1, <1>2, ExecutesOutside
<1>7. OthersStay(t)
  BY <1>1, <1>3, <1>4 DEF OthersStay, Touches
<1>8. Places'[t] = "timed"
  <2>1. tb'.leaf[t] # 0
    BY <1>2, <1>4, Fields
  <2> QED
    BY <1>1, <1>2, <1>3, <1>4, <2>1 DEF Places, Where
<1>9. Abstract!Move(t, "running", "timed")
  BY <1>2, <1>6, <1>7, <1>8, MovesOne
<1>10. DueNow = {} /\ DueNow' = {} /\ AbstractReady' = AbstractReady
  BY <1>2, <1>4, <1>6, TouchedReady
<1>11. tb'.events \ DueNow' = (tb.events \ DueNow) \cup
          {[thread |-> t, wake_time |-> tb.current_time + delay, seq |-> tb.event_seq]}
  BY <1>4, <1>10
<1>12. Abstract!Sleep(t, delay)
  BY <1>4, <1>5, <1>9, <1>10, <1>11 DEF Abstract!Sleep
<1>13. OrderInv'
  <2>1. \A f \in tb.events : f.seq \in Nat /\ f.seq < tb.event_seq
    <3>1. \A f \in tb.events : f.seq \in Nat
      BY <1>2, Fields, SeqAssumption DEF Event
    <3> QED
      BY <3>1 DEF OrderInv
  <2>2. \A f \in tb'.events : f.seq < tb'.event_seq
    BY <2>1, <1>4, <1>5
  <2>3. DistinctSeqs(tb'.events)
    <3>1. DistinctSeqs(tb.events)
      BY DEF OrderInv
    <3>2. ASSUME NEW f \in tb'.events, NEW g \in tb'.events, f.seq = g.seq PROVE f = g
      <4>1. f \in tb.events \/ f = e
        BY <1>4
      <4>2. g \in tb.events \/ g = e
        BY <1>4
      <4> QED
        BY <4>1, <4>2, <3>1, <3>2, <2>1, <1>5 DEF DistinctSeqs
    <3> QED
      BY <3>2 DEF DistinctSeqs
  <2> QED
    BY <2>2, <2>3, <1>1, <1>4, <1>6 DEF OrderInv
<1> QED
  BY <1>12, <1>13

(* A delay that passes without a switch. *)
LEMMA WaitInlineStep ==
    ASSUME Inv, Inv', OrderInv, NEW t \in Thread, NEW delay \in Delays,
           TaskWaitInline(t, delay)
    PROVE  OrderInv' /\ Abstract!SleepInline(t, delay)
<1>1. /\ Executing(t) /\ WaitsInline(tb, t, delay) /\ delay \in Nat
      /\ tb' = WaitInline(tb, t, delay)
      /\ UNCHANGED <<created, parked, exec, pc, end_ticks>>
  BY TimeAssumption DEF TaskWaitInline, zsp_timebase_wait
<1>2. /\ Places[t] = "running" /\ t \in created /\ t \in OnStack(exec)
      /\ t \notin Elements(ReadyQueue) /\ tb \in TimebaseState /\ exec # <<>>
  BY <1>1, ExecutingRuns
<1>3. /\ Touches(tb, tb', t)
      /\ tb'.current_time = tb.current_time + delay /\ tb'.running = tb.running
      /\ tb'.events = tb.events /\ tb'.event_seq = tb.event_seq
  BY <1>1, <1>2, InlineTouches
<1>4. pc \notin Advancing /\ pc' \notin Advancing
  BY <1>1, <1>2, ExecutesOutside
<1>5. OthersStay(t)
  BY <1>1, <1>3 DEF OthersStay, Touches
<1>6. Places' = Places
  <2>1. Places'[t] = "running"
    BY <1>1, <1>2 DEF Places, Where
  <2> QED
    BY <2>1, <1>2, <1>5, OnePlace DEF Places
<1>7. DueNow = {} /\ DueNow' = {} /\ AbstractReady' = AbstractReady
  BY <1>2, <1>3, <1>4, TouchedReady
<1>8. AbstractReady = <<>>
  BY <1>1, <1>4, QueueIsListed, EmptyList, Settled DEF WaitsInline
<1>9. AbstractState = Places /\ AbstractState' = AbstractState
  BY <1>4, <1>6, Settled, SettledNext
<1>10. \A e \in tb.events : e.wake_time > tb.current_time + delay
  <2>1. tb.current_time \in Nat /\ \A e \in tb.events : e.wake_time \in Nat
    BY <1>2, Fields DEF Event
  <2> QED
    BY <2>1, <1>1 DEF WaitsInline, EventAtOrBefore
<1>11. Abstract!SleepInline(t, delay)
  BY <1>2, <1>3, <1>7, <1>8, <1>9, <1>10
     DEF Abstract!SleepInline, Abstract!AllTimersAfter
<1>12. OrderInv'
  BY <1>1, <1>3, <1>4, KeepsOrder
<1> QED
  BY <1>11, <1>12

(* A step that touches only t and leaves it in its place is no step of the *)
(* scheduler.                                                              *)
LEMMA TouchedStutters ==
    ASSUME Inv, Inv', pc \notin Advancing, pc' \notin Advancing,
           NEW t \in Thread, OthersStay(t), KeepsTime(tb, tb'),
           Touches(tb, tb', t), t \notin Elements(ReadyQueue),
           Places'[t] = Places[t]
    PROVE  UNCHANGED Abstract!vars
<1>1. Places' = Places
  BY OnePlace DEF Places
<1>2. AbstractState = Places /\ AbstractState' = Places'
  BY Settled, SettledNext
<1>3. DueNow = {} /\ DueNow' = {} /\ AbstractReady' = AbstractReady
  BY TouchedReady
<1> QED
  BY <1>1, <1>2, <1>3 DEF Abstract!vars, KeepsTime

(* A task calls a subtask. *)
LEMMA CallStep ==
    ASSUME Inv, Inv', OrderInv, NEW t \in Thread, TaskCall(t)
    PROVE  OrderInv' /\ UNCHANGED Abstract!vars
<1>1. /\ Executing(t) /\ UNCHANGED <<created, parked, exec, pc, end_ticks>>
      /\ tb' = [tb EXCEPT !.leaf = [tb.leaf EXCEPT ![t] = tb.leaf[t] + 1]]
  BY DEF TaskCall
<1>2. /\ Places[t] = "running" /\ t \in created /\ t \in OnStack(exec)
      /\ t \notin Elements(ReadyQueue) /\ tb \in TimebaseState
      /\ tb.leaf[t] \in Nat /\ exec # <<>>
  BY <1>1, ExecutingRuns
<1>3. tb.leaf[t] + 1 \in Nat
  BY <1>2
<1>4. Touches(tb, tb', t) /\ KeepsTime(tb, tb')
  BY <1>1, <1>2, <1>3, LeafTouches
<1>5. pc \notin Advancing /\ pc' \notin Advancing
  BY <1>1, <1>2, ExecutesOutside
<1>6. OthersStay(t)
  BY <1>1, <1>4 DEF OthersStay, Touches
<1>7. Places'[t] = "running"
  BY <1>1, <1>2 DEF Places, Where
<1>8. UNCHANGED Abstract!vars
  BY <1>2, <1>4, <1>5, <1>6, <1>7, TouchedStutters
<1>9. OrderInv'
  BY <1>1, <1>4, <1>5, KeepsOrder DEF KeepsTime
<1> QED
  BY <1>8, <1>9

(* A subtask returns to its caller. *)
LEMMA ReturnToCallerStep ==
    ASSUME Inv, Inv', OrderInv, NEW t \in Thread, TaskReturnToCaller(t)
    PROVE  OrderInv' /\ UNCHANGED Abstract!vars
<1>1. /\ Executing(t) /\ UNCHANGED <<created, parked, exec, pc, end_ticks>>
      /\ tb' = zsp_timebase_return(tb, t)
  BY DEF TaskReturnToCaller
<1>2. /\ Places[t] = "running" /\ t \in created /\ t \in OnStack(exec)
      /\ t \notin Elements(ReadyQueue) /\ tb \in TimebaseState
      /\ tb.leaf[t] > 0 /\ exec # <<>>
  BY <1>1, ExecutingRuns
<1>3. Touches(tb, tb', t) /\ KeepsTime(tb, tb')
  BY <1>1, <1>2, ReturnTouches
<1>4. pc \notin Advancing /\ pc' \notin Advancing
  BY <1>1, <1>2, ExecutesOutside
<1>5. OthersStay(t)
  BY <1>1, <1>3 DEF OthersStay, Touches
<1>6. Places'[t] = "running"
  BY <1>1, <1>2 DEF Places, Where
<1>7. UNCHANGED Abstract!vars
  BY <1>2, <1>3, <1>4, <1>5, <1>6, TouchedStutters
<1>8. OrderInv'
  BY <1>1, <1>3, <1>4, KeepsOrder DEF KeepsTime
<1> QED
  BY <1>7, <1>8

(* A task returns to the scheduler: its thread has completed, or a subtask *)
(* returned while the thread was being created.                            *)
LEMMA ReturnStep ==
    ASSUME Inv, Inv', OrderInv, NEW t \in Thread, TaskReturn(t)
    PROVE  OrderInv' /\ (Abstract!Finish(t) \/ Abstract!Suspend(t))
<1> DEFINE b == zsp_timebase_return(tb, t)
<1>1. /\ Executing(t) /\ Leave(b, t) /\ UNCHANGED <<parked, pc, end_ticks>>
      /\ created' \in {created, created \ {t}}
      /\ tb.leaf[t] # 1 => created' = created
  BY DEF TaskReturn, Leave
<1>2. /\ Places[t] = "running" /\ t \in created /\ t \in OnStack(exec)
      /\ t \notin parked /\ t \notin Elements(ReadyQueue) /\ tb \in TimebaseState
      /\ tb.leaf[t] \in Nat /\ tb.leaf[t] > 0 /\ exec # <<>>
      /\ "BLOCKED" \notin tb.flags[t]
  BY <1>1, ExecutingRuns
<1>3. tb' = FinishActivation(b, t) /\ OnStack(exec') = OnStack(exec) \ {t}
  BY <1>1, LeaveStep
<1>4. /\ Touches(tb, b, t) /\ KeepsTime(tb, b) /\ b.leaf[t] = tb.leaf[t] - 1
      /\ "BLOCKED" \notin b.flags[t]
  BY <1>2, ReturnTouches
<1>5. b \in TimebaseState
  BY <1>4 DEF Touches
<1> HIDE DEF b
<1>6. pc \notin Advancing /\ pc' \notin Advancing
  BY <1>1, <1>2, ExecutesOutside
<1>7. CASE tb.leaf[t] = 1
  <2>1. b.leaf[t] = 0
    BY <1>4, <1>7
  <2>2. Touches(b, tb', t) /\ KeepsTime(b, tb') /\ tb'.leaf = b.leaf
    BY <1>3, <1>5, <2>1, FinishTouches
  <2>3. Touches(tb, tb', t) /\ KeepsTime(tb, tb')
    BY <1>4, <2>2, TouchesTwice DEF KeepsTime
  <2>4. OthersStay(t)
    BY <1>1, <1>3, <2>3 DEF OthersStay, Touches
  <2>5. Places'[t] \in {"done", "absent"}
    BY <1>1, <1>3, <2>1, <2>2 DEF Places, Where
  <2>6. Abstract!Finish(t)
    BY <1>2, <1>6, <2>3, <2>4, <2>5, TouchedMoves DEF Abstract!Finish
  <2>7. OrderInv'
    BY <1>1, <1>6, <2>3, KeepsOrder DEF KeepsTime
  <2> QED
    BY <2>6, <2>7
<1>8. CASE tb.leaf[t] # 1
  <2>1. b.leaf[t] > 0
    BY <1>2, <1>4, <1>8
  <2>2. Appends(b, tb', t) /\ KeepsTime(b, tb')
    BY <1>3, <1>4, <1>5, <2>1, FinishAppends
  <2>3. /\ \A q : Listed(tb, q) /\ t \notin Elements(q) => Listed(tb', Append(q, t))
        /\ OthersSame(tb, tb', t) /\ "BLOCKED" \notin tb'.flags[t]
        /\ tb'.leaf[t] = b.leaf[t] /\ KeepsTime(tb, tb')
    BY <1>4, <2>2, TouchesAppends DEF KeepsTime
  <2>4. Listed(tb', Append(ReadyQueue, t))
    BY <1>2, <2>3, QueueIsListed
  <2>5. OthersStay(t)
    BY <1>1, <1>3, <1>8, <2>3 DEF OthersStay
  <2>6. tb'.leaf[t] # 0
    BY <2>1, <2>3
  <2>7. Places'[t] = "ready"
    BY <1>1, <1>2, <1>3, <1>8, <2>3, <2>6 DEF Places, Where
  <2>8. Abstract!Suspend(t)
    BY <1>2, <1>6, <2>3, <2>4, <2>5, <2>7, AppendedIsReady DEF Abstract!Suspend
  <2>9. OrderInv'
    BY <1>1, <1>6, <2>3, KeepsOrder DEF KeepsTime
  <2> QED
    BY <2>8, <2>9
<1> QED
  BY <1>7, <1>8

-----------------------------------------------------------------------------
(* The scheduler's loops.                                                  *)

(* Steps between tasks that change neither threads nor list nor heap. *)
LEMMA SameThreadsSettled ==
    ASSUME Inv, Inv', pc \notin Advancing, SameThreads(tb, tb'),
           UNCHANGED <<created, parked, exec>>
    PROVE  /\ ReadyQueue' = ReadyQueue /\ Places' = Places
           /\ pc' \notin Advancing =>
                 /\ AbstractReady' = AbstractReady /\ AbstractState' = AbstractState
                 /\ tb'.events \ DueNow' = tb.events \ DueNow
<1>1. Listed(tb, ReadyQueue)
  BY QueueIsListed
<1>2. Listed(tb', ReadyQueue)
  BY <1>1, ListedSame DEF SameThreads
<1>3. ReadyQueue' = ReadyQueue
  BY <1>2, QueueBecomes
<1>4. Places' = Places
  BY DEF Places, Where, SameThreads
<1>5. DueNow = {} /\ AbstractReady = ReadyQueue /\ AbstractState = Places
  BY Settled
<1>6. ASSUME pc' \notin Advancing
      PROVE  DueNow' = {} /\ AbstractReady' = ReadyQueue' /\ AbstractState' = Places'
  BY <1>6, SettledNext
<1> QED
  BY <1>3, <1>4, <1>5, <1>6 DEF SameThreads

(* zsp_timebase_run_until begins. *)
LEMMA RunUntilStep ==
    ASSUME Inv, Inv', OrderInv, NEW end \in EndTimes, RunUntil(end)
    PROVE  OrderInv' /\ UNCHANGED Abstract!vars
<1>1. /\ pc = "main" /\ pc' = "until" /\ end_ticks' = end
      /\ tb' = [tb EXCEPT !.running = TRUE] /\ UNCHANGED <<created, parked, exec>>
      /\ tb \in TimebaseState
  BY DEF RunUntil, Inv, Consistent
<1>2. SameThreads(tb, tb') /\ tb'.running /\ tb'.current_time = tb.current_time
  BY <1>1, ClockTouches
<1>3. pc \notin Advancing /\ pc' \notin Advancing
  BY <1>1 DEF Advancing
<1>4. UNCHANGED Abstract!vars
  BY <1>1, <1>2, <1>3, SameThreadsSettled DEF Abstract!vars, SameThreads
<1>5. OrderInv'
  BY <1>1, <1>2, <1>3 DEF OrderInv, DistinctSeqs, SameThreads
<1> QED
  BY <1>4, <1>5

(* zsp_timebase_run enters the first thread of the list. *)
LEMMA RunStep ==
    ASSUME Inv, Inv', OrderInv, Run
    PROVE  OrderInv' /\ Abstract!Dispatch
<1> DEFINE t == tb.ready_head
<1>1. /\ exec = <<>> /\ tb.ready_head # NULL /\ exec' = <<t>> /\ tb' = BeginRun(tb)
      /\ pc \notin Advancing /\ pc' \notin Advancing
      /\ UNCHANGED <<created, parked, pc, end_ticks>> /\ tb \in TimebaseState
  BY DEF Run, Idle, Advancing, Inv, Consistent
<1>2. Listed(tb, ReadyQueue)
  BY QueueIsListed
<1>3. /\ ReadyQueue # <<>> /\ t = Head(ReadyQueue) /\ Listed(tb', Tail(ReadyQueue))
      /\ KeepsTime(tb, tb') /\ tb'.flags = tb.flags /\ tb'.leaf = tb.leaf
  BY <1>1, <1>2, RunTakesHead
<1>4. t \in Elements(ReadyQueue)
  BY <1>2, <1>3 DEF Elements, Listed
<1>5. /\ t \in created /\ t \in Thread /\ tb.leaf[t] > 0 /\ tb.leaf[t] \in Nat
      /\ t \notin OnStack(exec) /\ t \notin parked /\ "BLOCKED" \notin tb.flags[t]
  BY <1>1, <1>4, QueueIsListed, Fields
     DEF RunnableIn, Inv, Consistent, Accounted, Waits
<1> HIDE DEF t
<1>6. OnStack(exec) = {} /\ OnStack(exec') = {t}
  BY <1>1 DEF OnStack
<1>7. OthersStay(t)
  BY <1>1, <1>3, <1>6 DEF OthersStay, OthersSame
<1>8. Places[t] = "ready" /\ Places'[t] = "running"
  BY <1>1, <1>5, <1>6 DEF Places, Where
<1>9. Abstract!Move(t, "ready", "running")
  BY <1>1, <1>5, <1>7, <1>8, MovesOne
<1>10. ReadyQueue' = Tail(ReadyQueue)
  BY <1>3, QueueBecomes
<1>11. DueNow = {} /\ AbstractReady = ReadyQueue
  BY <1>1, Settled
<1>12. DueNow' = {} /\ AbstractReady' = ReadyQueue'
  BY <1>1, SettledNext
<1>13. Abstract!NoneRunning
  BY <1>1, IdleRuns
<1>14. Abstract!Dispatch
  BY <1>3, <1>9, <1>10, <1>11, <1>12, <1>13 DEF Abstract!Dispatch, KeepsTime
<1>15. OrderInv'
  BY <1>1, <1>3, KeepsOrder DEF KeepsTime
<1> QED
  BY <1>14, <1>15

(* The thread of an event waits for it, and for nothing else. *)
LEMMA HeldWaits ==
    ASSUME Inv, NEW e \in tb.events
    PROVE  /\ e.thread \in Thread /\ e.thread \in created /\ e.thread \notin parked
           /\ e.thread \notin OnStack(exec)
           /\ tb.leaf[e.thread] \in Nat /\ tb.leaf[e.thread] > 0
           /\ "BLOCKED" \in tb.flags[e.thread]
           /\ \A f \in tb.events : f.thread = e.thread => f = e
<1> DEFINE t == e.thread
<1>1. tb \in TimebaseState /\ t \in Thread
  BY Fields DEF Inv, Consistent, Event
<1>2. /\ Accounted(tb, created, parked, t) /\ e \in HeldBy(tb, t)
      /\ \A x \in OnStack(exec) : "BLOCKED" \notin tb.flags[x]
  BY <1>1 DEF Inv, Consistent, HeldBy
<1>3. Waits(tb, created, t) /\ t \notin parked /\ HeldBy(tb, t) = {e}
  BY <1>2 DEF Accounted
<1>4. \A f \in tb.events : f.thread = t => f \in HeldBy(tb, t)
  BY DEF HeldBy
<1> QED
  BY <1>1, <1>2, <1>3, <1>4, Fields DEF Waits

(* While no thread executes, those of the due events are ready and the     *)
(* others are where they are.                                              *)
LEMMA DueState ==
    Inv /\ exec = <<>> =>
        AbstractState = [t \in Thread |-> IF \E v \in DueNow : v.thread = t
                                          THEN "ready" ELSE Places[t]]
<1> SUFFICES ASSUME Inv, exec = <<>>, NEW t \in Thread
             PROVE  AbstractState[t] = IF \E v \in DueNow : v.thread = t
                                       THEN "ready" ELSE Places[t]
  BY DEF AbstractState
<1>1. ~InExec(t) /\ t \notin OnStack(exec)
  BY DEF InExec, OnStack
<1>2. CASE \E v \in DueNow : v.thread = t
  <2>1. PICK v \in DueNow : v.thread = t
    BY <1>2
  <2>2. v \in tb.events
    BY DEF DueNow
  <2>3. t \in created /\ t \notin parked /\ tb.leaf[t] # 0
    BY <2>1, <2>2, HeldWaits
  <2> QED
    BY <1>1, <1>2, <2>3 DEF AbstractState
<1>3. CASE ~ \E v \in DueNow : v.thread = t
  BY <1>1, <1>3 DEF AbstractState, Places, Where
<1> QED
  BY <1>2, <1>3

(* The same after a step. *)
LEMMA DueStateNext ==
    ASSUME Inv', exec' = <<>>
    PROVE  AbstractState' = [t \in Thread |-> IF \E v \in DueNow' : v.thread = t
                                              THEN "ready" ELSE Places'[t]]
<1>1. Inv' /\ (exec = <<>>)' =>
        (AbstractState = [t \in Thread |-> IF \E v \in DueNow : v.thread = t
                                          THEN "ready" ELSE Places[t]])'
  BY DueState, PTL
<1> QED
  BY <1>1

(* Events in turn, as the sequence of their threads. *)
LEMMA ThreadsInTurn ==
    ASSUME Inv, OrderInv, NEW E \in SUBSET tb.events
    PROVE  /\ IsFiniteSet(E) /\ DistinctSeqs(E) /\ E \in SUBSET Event
           /\ BySeq(E) \in [1 .. Cardinality(E) -> E] /\ IsInTurn(E, BySeq(E))
           /\ BySeq(E) \in Seq(Event) /\ DOMAIN BySeq(E) = 1 .. Len(BySeq(E))
           /\ ThreadsOf(BySeq(E)) \in Seq(Thread)
<1>1. E \in SUBSET Event /\ IsFiniteSet(E) /\ DistinctSeqs(E)
  <2>1. tb \in TimebaseState /\ IsFiniteSet(tb.events) /\ DistinctSeqs(tb.events)
    BY DEF Inv, Consistent, OrderInv
  <2> QED
    BY <2>1, Fields, FS_Subset DEF DistinctSeqs
<1>2. /\ BySeq(E) \in [1 .. Cardinality(E) -> E] /\ IsInTurn(E, BySeq(E))
      /\ BySeq(E) \in Seq(Event) /\ Len(BySeq(E)) = Cardinality(E)
  BY <1>1, BySeqIs
<1>3. \A f \in Event : f.thread \in Thread
  BY DEF Event
<1>4. ThreadsOf(BySeq(E)) \in Seq(Thread)
  BY <1>2, <1>3 DEF ThreadsOf
<1> QED
  BY <1>1, <1>2, <1>4

(* zsp_timebase_advance sets the time. *)
LEMMA AdvanceStep ==
    ASSUME Inv, Inv', OrderInv, UntilAdvance \/ MainAdvance
    PROVE  OrderInv' /\ Abstract!Tick
<1> DEFINE w   == FirstEvent(tb)
           due == {v \in tb.events : v.wake_time = w.wake_time}
           q   == BySeq(due)
<1>1. /\ exec = <<>> /\ tb.ready_head = NULL /\ tb.events # {}
      /\ pc \notin Advancing /\ pc' \in Advancing
      /\ pc' = "until_advance" => pc = "until"
      /\ tb' = BeginAdvance(tb) /\ tb \in TimebaseState
      /\ UNCHANGED <<created, parked, exec, end_ticks>>
  BY DEF UntilAdvance, MainAdvance, InnerLoopDone, Idle, EventAtOrBefore, Advancing,
         OrderInv, Inv, Consistent
<1>2. w \in tb.events /\ \A v \in tb.events : w.wake_time <= v.wake_time
  BY <1>1, FirstEventIn
<1>3. /\ SameThreads(tb, tb') /\ tb'.running = tb.running
      /\ tb'.current_time = w.wake_time
  BY <1>1, ClockTouches
<1> HIDE DEF w
<1>4. DueNow = {} /\ AbstractReady = ReadyQueue /\ AbstractState = Places
  BY <1>1, Settled
<1>5. ReadyQueue' = ReadyQueue /\ Places' = Places
  BY <1>1, <1>3, SameThreadsSettled
<1>6. ReadyQueue = <<>>
  BY <1>1, QueueIsListed, EmptyList
<1>7. DueNow' = due
  BY <1>1, <1>3 DEF DueNow, Advancing, SameThreads
<1>8. /\ q \in [1 .. Cardinality(due) -> due] /\ IsInTurn(due, q)
      /\ DOMAIN q = 1 .. Len(q) /\ ThreadsOf(q) \in Seq(Thread)
  BY ThreadsInTurn
<1>9. AbstractReady' = ThreadsOf(q)
  <2>1. AbstractReady' = <<>> \o ThreadsOf(q)
    BY <1>5, <1>6, <1>7 DEF AbstractReady, ThreadsOf
  <2>2. \A p \in Seq(Thread) : <<>> \o p = p
    BY ConcatEmptySeq
  <2> QED
    BY <2>1, <2>2, <1>8
<1>10. Abstract!InTurn(due, AbstractReady')
  <2> DEFINE r == ThreadsOf(q)
  <2>1. r \in Seq(Thread) /\ DOMAIN r = DOMAIN q /\ \A i \in DOMAIN r : r[i] = q[i].thread
    BY <1>8 DEF ThreadsOf
  <2>2. q \in [DOMAIN q -> due]
    BY <1>8
  <2> HIDE DEF q, r, due
  <2>3. Abstract!InTurn(due, r)
    BY <1>8, <2>1, <2>2 DEF Abstract!InTurn, IsInTurn
  <2> QED
    BY <2>3, <1>9 DEF r
<1>11. AbstractState' = [t \in Thread |-> IF \E v \in due : v.thread = t
                                          THEN "ready" ELSE AbstractState[t]]
  BY <1>1, <1>4, <1>5, <1>7, DueStateNext
<1>12. Abstract!NoneRunning
  BY <1>1, IdleRuns
<1>13. tb'.events \ DueNow' = (tb.events \ DueNow) \ due
  BY <1>3, <1>4, <1>7 DEF SameThreads
<1> HIDE DEF q
<1>14. Abstract!Tick
  <2>1. due = {v \in tb.events \ DueNow : v.wake_time = w.wake_time}
    BY <1>4
  <2>2. /\ w \in tb.events \ DueNow
        /\ \A v \in tb.events \ DueNow : w.wake_time <= v.wake_time
    BY <1>2, <1>4
  <2> HIDE DEF due
  <2> QED
    BY <1>3, <1>4, <1>6, <1>10, <1>11, <1>12, <1>13, <2>1, <2>2
       DEF Abstract!Tick, SameThreads
<1>15. OrderInv'
  BY <1>1, <1>2, <1>3 DEF OrderInv, DistinctSeqs, SameThreads, Advancing
<1> QED
  BY <1>14, <1>15

(* One turn of its loop: the first due event leaves the heap for the list, *)
(* where the abstract scheduler already has its thread.                    *)
LEMMA MoveStep ==
    ASSUME Inv, Inv', OrderInv, AdvanceMove
    PROVE  OrderInv' /\ UNCHANGED Abstract!vars
<1> DEFINE e == FirstEvent(tb)
           t == e.thread
           D == DueNow
           p == BySeq(D \ {e})
<1>1. /\ pc \in Advancing /\ pc' = pc /\ exec = <<>> /\ tb.events # {}
      /\ e.wake_time = tb.current_time /\ tb' = MoveDue(tb) /\ tb \in TimebaseState
      /\ UNCHANGED <<created, parked, exec, end_ticks>>
  BY DEF AdvanceMove, IsDue, Advancing, OrderInv, Inv, Consistent
<1>2. e \in tb.events /\ \A f \in tb.events \ {e} : ~heap_compare(f, e)
  BY <1>1, FirstEventIn
<1>3. /\ Appends(tb, tb', t)
      /\ tb'.events = tb.events \ {e} /\ tb'.event_seq = tb.event_seq
      /\ tb'.current_time = tb.current_time /\ tb'.running = tb.running
  BY <1>1, <1>2, MoveAppends
<1> HIDE DEF e
<1>4. D = {f \in tb.events : f.wake_time = tb.current_time}
  BY <1>1 DEF DueNow, Advancing
<1>5. DueNow' = D \ {e}
  BY <1>1, <1>3, <1>4 DEF DueNow, Advancing
<1>6. e \in D
  BY <1>1, <1>2, <1>4
<1> HIDE DEF D
<1>7. /\ IsFiniteSet(D) /\ DistinctSeqs(D) /\ D \in SUBSET Event
      /\ BySeq(D) \in Seq(Event) /\ p \in Seq(Event)
      /\ ThreadsOf(BySeq(D)) \in Seq(Thread) /\ ThreadsOf(p) \in Seq(Thread)
  <2>1. D \in SUBSET tb.events /\ D \ {e} \in SUBSET tb.events
    BY <1>4
  <2> QED
    BY <2>1, ThreadsInTurn
<1>8. \A f \in D \ {e} : e.seq < f.seq
  <2>1. \A f \in D : f.seq \in Nat /\ f.wake_time \in Nat
    BY <1>7, SeqAssumption DEF Event
  <2>2. \A f \in D \ {e} : ~heap_compare(f, e) /\ f.wake_time = e.wake_time
    BY <1>1, <1>2, <1>4
  <2>3. \A f \in D \ {e} : f.seq # e.seq
    BY <1>6, <1>7 DEF DistinctSeqs
  <2> QED
    BY <1>6, <2>1, <2>2, <2>3 DEF heap_compare
<1>9. BySeq(D) = <<e>> \o p
  BY <1>6, <1>7, <1>8, BySeqFirst
<1>10. e \in Event
  BY <1>6, <1>7
<1> HIDE DEF p
<1>11. ThreadsOf(BySeq(D)) = <<t>> \o ThreadsOf(p)
  <2>1. /\ Len(p) \in Nat /\ Len(BySeq(D)) = Len(p) + 1
        /\ \A i \in 1 .. Len(p) + 1 : BySeq(D)[i] = IF i = 1 THEN e ELSE p[i - 1]
    BY <1>7, <1>9, <1>10
  <2>2. /\ Len(ThreadsOf(p)) = Len(p) /\ \A i \in 1 .. Len(p) : ThreadsOf(p)[i] = p[i].thread
        /\ Len(ThreadsOf(BySeq(D))) = Len(p) + 1
        /\ \A i \in 1 .. Len(p) + 1 : ThreadsOf(BySeq(D))[i] = BySeq(D)[i].thread
    BY <2>1, <1>7 DEF ThreadsOf
  <2>3. t \in Thread
    BY <1>10 DEF Event
  <2> DEFINE a == ThreadsOf(BySeq(D))
             b == ThreadsOf(p)
             c == <<t>> \o b
  <2>4. a \in Seq(Thread) /\ b \in Seq(Thread)
    BY <1>7
  <2> HIDE DEF a, b
  <2>5. /\ c \in Seq(Thread) /\ Len(c) = Len(b) + 1
        /\ \A i \in 1 .. Len(b) + 1 : c[i] = IF i = 1 THEN t ELSE b[i - 1]
    BY <2>3, <2>4
  <2>6. Len(a) = Len(p) + 1 /\ Len(b) = Len(p)
    BY <2>2 DEF a, b
  <2>7. ASSUME NEW i \in 1 .. Len(p) + 1 PROVE a[i] = c[i]
    <3>1. a[i] = BySeq(D)[i].thread
      BY <2>2 DEF a
    <3>2. CASE i = 1
      BY <2>1, <2>5, <2>6, <3>1, <3>2
    <3>3. CASE i # 1
      <4>1. i - 1 \in 1 .. Len(p)
        BY <2>1, <3>3
      <4>2. b[i - 1] = p[i - 1].thread
        BY <4>1, <2>2 DEF b
      <4> QED
        BY <4>2, <2>1, <2>5, <2>6, <3>1, <3>3
    <3> QED
      BY <3>2, <3>3
  <2> HIDE DEF c
  <2>8. a = c
    BY <2>4, <2>5, <2>6, <2>7, SeqEqual
  <2> QED
    BY <2>8 DEF a, b, c
<1>12. /\ t \in Thread /\ t \in created /\ t \notin parked /\ t \notin OnStack(exec)
       /\ tb.leaf[t] \in Nat /\ tb.leaf[t] > 0 /\ "BLOCKED" \in tb.flags[t]
  BY <1>2, HeldWaits
<1> HIDE DEF t
<1>13. t \notin Elements(ReadyQueue)
  BY <1>12, QueueIsListed DEF RunnableIn
<1>14. ReadyQueue' = Append(ReadyQueue, t) /\ ReadyQueue \in Seq(Thread)
  <2>1. Listed(tb, ReadyQueue)
    BY QueueIsListed
  <2>2. Listed(tb', Append(ReadyQueue, t))
    BY <1>3, <1>13, <2>1 DEF Appends, t
  <2> QED
    BY <2>1, <2>2, QueueBecomes DEF Listed
<1>15. AbstractReady' = AbstractReady
  <2> DEFINE R == ReadyQueue
             P == ThreadsOf(p)
  <2>1. AbstractReady = R \o (<<t>> \o P)
    BY <1>11 DEF AbstractReady, D
  <2>2. AbstractReady' = Append(R, t) \o P
    BY <1>5, <1>14 DEF AbstractReady, ThreadsOf, p
  <2>3. R \in Seq(Thread) /\ P \in Seq(Thread) /\ <<t>> \in Seq(Thread)
    BY <1>7, <1>12, <1>14
  <2> HIDE DEF R, P
  <2>4. Append(R, t) = R \o <<t>>
    BY <2>3, <1>12, AppendIsConcat
  <2>5. (R \o <<t>>) \o P = R \o (<<t>> \o P)
    BY <2>3, ConcatAssociative
  <2> QED
    BY <2>1, <2>2, <2>4, <2>5
<1>16. AbstractState' = AbstractState
  <2>1. OthersStay(t)
    BY <1>1, <1>3 DEF OthersStay, Appends, t
  <2>2. Places'[t] = "ready"
    <3>1. "BLOCKED" \notin tb'.flags[t] /\ tb'.leaf[t] = tb.leaf[t]
      BY <1>3 DEF Appends, t
    <3> QED
      BY <3>1, <1>1, <1>12 DEF Places, Where
  <2>3. \A u \in Thread \ {t} : Places'[u] = Places[u]
    BY <1>12, <2>1, OnePlace DEF Places
  <2>4. \A u \in Thread \ {t} :
           (\E v \in DueNow' : v.thread = u) <=> (\E v \in D : v.thread = u)
    BY <1>5 DEF t
  <2>5. \E v \in D : v.thread = t
    BY <1>6 DEF t
  <2>6. AbstractState = [u \in Thread |-> IF \E v \in D : v.thread = u
                                          THEN "ready" ELSE Places[u]]
    BY <1>1, DueState DEF D
  <2>7. AbstractState' = [u \in Thread |-> IF \E v \in DueNow' : v.thread = u
                                           THEN "ready" ELSE Places'[u]]
    BY <1>1, DueStateNext
  <2>8. ASSUME NEW u \in Thread PROVE AbstractState'[u] = AbstractState[u]
    <3>1. AbstractState'[u] = IF \E v \in DueNow' : v.thread = u THEN "ready" ELSE Places'[u]
      BY <2>7
    <3>2. AbstractState[u] = IF \E v \in D : v.thread = u THEN "ready" ELSE Places[u]
      BY <2>6
    <3> QED
      BY <2>2, <2>3, <2>4, <2>5, <3>1, <3>2
  <2> QED
    BY <2>6, <2>7, <2>8
<1>17. tb'.events \ DueNow' = tb.events \ DueNow
  BY <1>3, <1>5, <1>6 DEF D
<1>18. OrderInv'
  BY <1>1, <1>3 DEF OrderInv, DistinctSeqs, Advancing
<1> QED
  BY <1>3, <1>15, <1>16, <1>17, <1>18 DEF Abstract!vars

(* It ends when no event is due. *)
LEMMA AdvanceReturnStep ==
    ASSUME Inv, Inv', OrderInv, AdvanceReturn
    PROVE  OrderInv' /\ UNCHANGED Abstract!vars
<1>1. /\ pc \in Advancing /\ pc' \in {"main", "until"} /\ exec = <<>>
      /\ pc' = "until" => pc = "until_advance"
      /\ ~IsDue(tb) /\ tb' = tb /\ tb \in TimebaseState
      /\ UNCHANGED <<created, parked, exec, end_ticks>>
  BY DEF AdvanceReturn, Advancing, OrderInv, Inv, Consistent
<1>2. DueNow = {}
  <2>1. SUFFICES ASSUME NEW f \in DueNow PROVE FALSE
    OBVIOUS
  <2>2. f \in tb.events /\ f.wake_time = tb.current_time
    BY <1>1 DEF DueNow
  <2>3. /\ FirstEvent(tb) \in tb.events /\ FirstEvent(tb).wake_time <= f.wake_time
    BY <1>1, <2>2, FirstEventIn
  <2>4. tb.current_time <= FirstEvent(tb).wake_time
    BY <1>1, <2>3 DEF OrderInv
  <2>5. tb.current_time \in Nat /\ FirstEvent(tb).wake_time \in Nat
    BY <1>1, <2>3, Fields DEF Event
  <2>6. FirstEvent(tb).wake_time = tb.current_time
    BY <2>2, <2>3, <2>4, <2>5
  <2> QED
    BY <2>2, <2>6, <1>1 DEF IsDue
<1>3. pc' \notin Advancing
  BY <1>1 DEF Advancing
<1>4. DueNow' = {} /\ AbstractReady' = ReadyQueue' /\ AbstractState' = Places'
  BY <1>3, SettledNext
<1>5. ReadyQueue' = ReadyQueue
  <2>1. Listed(tb', ReadyQueue)
    BY <1>1, QueueIsListed
  <2> QED
    BY <2>1, QueueBecomes
<1>6. AbstractReady = ReadyQueue
  <2>1. ReadyQueue \in Seq(Thread)
    BY QueueIsListed DEF Listed
  <2>2. ThreadsOf(BySeq(DueNow)) = <<>>
    BY <1>2, NothingInTurn DEF ThreadsOf
  <2> QED
    BY <2>1, <2>2 DEF AbstractReady
<1>7. AbstractState = Places /\ Places' = Places
  BY <1>1, <1>2, DueState DEF Places, Where
<1>8. UNCHANGED Abstract!vars
  BY <1>1, <1>2, <1>4, <1>5, <1>6, <1>7 DEF Abstract!vars
<1>9. OrderInv'
  BY <1>1, <1>3 DEF OrderInv, DistinctSeqs, Advancing
<1> QED
  BY <1>8, <1>9

(* zsp_timebase_run_until ends, at its end time unless it is already past. *)
LEMMA UntilReturnStep ==
    ASSUME Inv, Inv', OrderInv, UntilReturn
    PROVE  /\ OrderInv'
           /\ \/ \E end \in EndTimes : Abstract!ReachEnd(end)
              \/ UNCHANGED Abstract!vars
<1>1. /\ exec = <<>> /\ pc = "until" /\ pc' = "main" /\ tb.ready_head = NULL
      /\ end_ticks \in EndTimes /\ ~EventAtOrBefore(tb, end_ticks)
      /\ tb' = FinishRunUntil(tb, end_ticks) /\ tb \in TimebaseState
      /\ end_ticks \in Nat /\ UNCHANGED <<created, parked, exec, end_ticks>>
  BY DEF UntilReturn, InnerLoopDone, Idle, OrderInv, Inv, Consistent
<1>2. /\ SameThreads(tb, tb')
      /\ tb'.current_time = IF tb.current_time < end_ticks
                            THEN end_ticks ELSE tb.current_time
  BY <1>1, ClockTouches
<1>3. pc \notin Advancing /\ pc' \notin Advancing
  BY <1>1 DEF Advancing
<1>4. /\ AbstractReady' = AbstractReady /\ AbstractState' = AbstractState
      /\ tb'.events \ DueNow' = tb.events \ DueNow
  BY <1>1, <1>2, <1>3, SameThreadsSettled
<1>5. DueNow = {} /\ AbstractReady = <<>>
  BY <1>1, <1>3, Settled, QueueIsListed, EmptyList
<1>6. \A f \in tb.events : f.wake_time > end_ticks
  <2>1. \A f \in tb.events : f.wake_time \in Nat
    BY <1>1, Fields DEF Event
  <2> QED
    BY <2>1, <1>1 DEF EventAtOrBefore
<1>7. Abstract!NoneRunning
  BY <1>1, <1>3, IdleRuns
<1>8. CASE tb.current_time < end_ticks
  <2>1. Abstract!ReachEnd(end_ticks)
    BY <1>2, <1>4, <1>5, <1>6, <1>7, <1>8
       DEF Abstract!ReachEnd, Abstract!AllTimersAfter, SameThreads
  <2> QED
    BY <1>1, <1>2, <1>3, <2>1 DEF OrderInv, DistinctSeqs, SameThreads
<1>9. CASE ~(tb.current_time < end_ticks)
  <2>1. UNCHANGED Abstract!vars
    BY <1>2, <1>4, <1>9 DEF Abstract!vars, SameThreads
  <2> QED
    BY <1>1, <1>2, <1>3, <2>1 DEF OrderInv, DistinctSeqs, SameThreads
<1> QED
  BY <1>8, <1>9

-----------------------------------------------------------------------------
(* The refinement.                                                         *)

(* No task calls zsp_timebase_stop: a thread that does runs on while       *)
(* run_until, which has been stopped, may move the time.                   *)
NeverStops == "stop" \notin Calls

(* event_seq does not wrap. *)
SeqsSuffice == MaxSeq \in Nat /\ MaxSeq < SeqModulus

(* The timebase starts as the scheduler does. *)
LEMMA InitImplements == Init => OrderInv /\ Abstract!Init
<1> SUFFICES ASSUME Init PROVE OrderInv /\ Abstract!Init
  OBVIOUS
<1>1. Inv /\ pc = "main" /\ created = {} /\ tb = zsp_timebase_init
  BY InitInv DEF Init
<1>2. /\ tb.current_time = 0 /\ tb.events = {} /\ tb.event_seq = 0 /\ tb.ready_head = NULL
  BY <1>1 DEF zsp_timebase_init
<1>3. pc \notin Advancing
  BY <1>1 DEF Advancing
<1>4. AbstractReady = <<>>
  BY <1>1, <1>2, <1>3, Settled, QueueIsListed, EmptyList
<1>5. AbstractState = [t \in Thread |-> "absent"]
  BY <1>1, <1>3, Settled DEF Places, Where
<1>6. OrderInv
  BY <1>1, <1>2, <1>3 DEF OrderInv, DistinctSeqs
<1> QED
  BY <1>2, <1>4, <1>5, <1>6 DEF Abstract!Init

(* Every step of the timebase is one of the scheduler or none. *)
LEMMA NextImplements ==
    ASSUME NeverStops, SeqsSuffice, Inv, Inv', OrderInv, [Next]_vars
    PROVE  OrderInv' /\ [Abstract!Next]_Abstract!vars
<1>1. ASSUME Scheduler PROVE OrderInv' /\ [Abstract!Next]_Abstract!vars
  <2>1. CASE Run
    BY <2>1, RunStep DEF Abstract!Next
  <2>2. CASE UntilAdvance
    BY <2>2, AdvanceStep DEF Abstract!Next
  <2>3. CASE UntilReturn
    BY <2>3, UntilReturnStep DEF Abstract!Next
  <2>4. CASE AdvanceMove
    BY <2>4, MoveStep
  <2>5. CASE AdvanceReturn
    BY <2>5, AdvanceReturnStep
  <2> QED
    BY <1>1, <2>1, <2>2, <2>3, <2>4, <2>5 DEF Scheduler
<1>2. ASSUME Main PROVE OrderInv' /\ [Abstract!Next]_Abstract!vars
  <2>1. ASSUME NEW end \in EndTimes, RunUntil(end)
        PROVE  OrderInv' /\ [Abstract!Next]_Abstract!vars
    BY <2>1, RunUntilStep
  <2>2. CASE MainAdvance
    BY <2>2, AdvanceStep DEF Abstract!Next
  <2>3. ASSUME NEW t \in Thread, ThreadFree(t)
        PROVE  OrderInv' /\ [Abstract!Next]_Abstract!vars
    BY <2>3, FreeStep DEF Abstract!Next
  <2> QED
    BY <1>2, <2>1, <2>2, <2>3 DEF Main
<1>3. ASSUME NEW t \in Thread, ThreadCreate(t) \/ Wake(t) \/ Task(t)
      PROVE  OrderInv' /\ [Abstract!Next]_Abstract!vars
  <2>1. CASE ThreadCreate(t)
    BY <2>1, CreateStep DEF Abstract!Next
  <2>2. CASE Wake(t)
    BY <2>2, WakeStep DEF Abstract!Next
  <2>3. CASE TaskYield(t)
    BY <2>3, YieldStep DEF Abstract!Next
  <2>4. ASSUME NEW delay \in Delays, TaskWaitInline(t, delay)
        PROVE  OrderInv' /\ [Abstract!Next]_Abstract!vars
    BY <2>4, WaitInlineStep DEF Abstract!Next
  <2>5. ASSUME NEW delay \in Delays, TaskWait(t, delay)
        PROVE  OrderInv' /\ [Abstract!Next]_Abstract!vars
    BY <2>5, WaitStep DEF Abstract!Next, SeqsSuffice
  <2>6. CASE TaskBlock(t)
    BY <2>6, BlockStep DEF Abstract!Next
  <2>7. CASE TaskCall(t)
    BY <2>7, CallStep
  <2>8. CASE TaskReturnToCaller(t)
    BY <2>8, ReturnToCallerStep
  <2>9. CASE TaskReturn(t)
    BY <2>9, ReturnStep DEF Abstract!Next
  <2>10. ~TaskStop(t)
    BY DEF TaskStop, NeverStops
  <2> QED
    BY <1>3, <2>1, <2>2, <2>3, <2>4, <2>5, <2>6, <2>7, <2>8, <2>9, <2>10 DEF Task
<1>4. CASE UNCHANGED vars
  <2>1. OrderInv'
    BY <1>4 DEF OrderInv, DistinctSeqs, vars
  <2>2. UNCHANGED Abstract!vars
    BY <1>4 DEF Abstract!vars, vars, AbstractReady, AbstractState, ReadyQueue, DueNow,
       BySeq, ThreadsOf, InExec, IsReadyList, IsInTurn
  <2> QED
    BY <2>1, <2>2
<1> QED
  BY <1>1, <1>2, <1>3, <1>4 DEF Next

(* The timebase implements the abstract scheduler: for any threads, delays *)
(* and end times and all interleavings of main program and tasks, ready    *)
(* threads run first in, first out, delays that end together end in the    *)
(* order in which they began, and time never passes a delay.               *)
THEOREM TimebaseImplementsScheduler ==
    ASSUME NeverStops, SeqsSuffice
    PROVE  Spec => ImplementsScheduler
<1>1. Inv /\ Inv' /\ OrderInv /\ [Next]_vars => OrderInv' /\ [Abstract!Next]_Abstract!vars
  BY NextImplements
<1>2. Init => OrderInv /\ Abstract!Init
  BY InitImplements
<1> QED
  BY <1>1, <1>2, InvHolds, PTL DEF Spec, ImplementsScheduler, Abstract!Spec
=============================================================================
