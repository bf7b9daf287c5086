-------------------------- MODULE ZspChannel_proofs ---------------------------
(***************************************************************************)
(* For every capacity, every set of putters and getters and all calls: the *)
(* two wait lists of a channel and the ready queue, three lists threaded   *)
(* through the same field of the threads, stay apart, no wakeup is lost,   *)
(* and the channel with its blocking tasks implements a bounded FIFO.      *)
(* Lemmas about wait lists come first, then those about what the steps of  *)
(* the timebase leave alone, then the invariant, then the refinement.      *)
(***************************************************************************)
EXTENDS ZspChannel, ZspTimebase_proofs

(* Following next from first, one meets the threads q[1] .. q[n] of S, each *)
(* once.                                                                   *)
WaitListIs(next, first, S, n, q) ==
    /\ \A i, j \in 1 .. n : q[i] = q[j] => i = j
    /\ first = IF n = 0 THEN NULL ELSE q[1]
    /\ \A i \in 1 .. n : next[q[i]] = IF i = n THEN NULL ELSE q[i + 1]
    /\ S = {q[i] : i \in 1 .. n}

WaitList(next, first, S) ==
    \E n \in Nat : \E q \in [1 .. n -> Thread] : WaitListIs(next, first, S, n, q)

(* Only the links of the threads on the list matter. *)
LEMMA SameWaitList ==
    ASSUME NEW next, NEW first, NEW S, WaitList(next, first, S),
           NEW other, \A u \in S : other[u] = next[u]
    PROVE  WaitList(other, first, S)
<1>0. PICK n \in Nat : \E q \in [1 .. n -> Thread] : WaitListIs(next, first, S, n, q)
  BY DEF WaitList
<1>1. PICK q \in [1 .. n -> Thread] : WaitListIs(next, first, S, n, q)
  BY <1>0
<1>2. WaitListIs(other, first, S, n, q)
  BY <1>1 DEF WaitListIs
<1> QED
  BY <1>2 DEF WaitList

(* The list without threads starts at NULL, and only that list does. *)
LEMMA EmptyWaitList ==
    ASSUME NEW next
    PROVE  /\ WaitList(next, NULL, {})
           /\ \A first, S : WaitList(next, first, S) =>
                 /\ S \subseteq Thread
                 /\ first = NULL <=> S = {}
                 /\ first # NULL => first \in S
<1>1. WaitList(next, NULL, {})
  <2> DEFINE q == [i \in 1 .. 0 |-> NULL]
  <2>1. q \in [1 .. 0 -> Thread] /\ {q[i] : i \in 1 .. 0} = {}
    OBVIOUS
  <2> HIDE DEF q
  <2>2. WaitListIs(next, NULL, {}, 0, q)
    BY <2>1 DEF WaitListIs
  <2>3. 0 \in Nat
    OBVIOUS
  <2> QED
    BY <2>1, <2>2, <2>3 DEF WaitList
<1>2. ASSUME NEW first, NEW S, WaitList(next, first, S)
      PROVE  /\ S \subseteq Thread
             /\ first = NULL <=> S = {}
             /\ first # NULL => first \in S
  <2>0. PICK n \in Nat :
           \E q \in [1 .. n -> Thread] : WaitListIs(next, first, S, n, q)
    BY <1>2 DEF WaitList
  <2>1. PICK q \in [1 .. n -> Thread] : WaitListIs(next, first, S, n, q)
    BY <2>0
  <2>2. CASE n = 0
    BY <2>1, <2>2 DEF WaitListIs
  <2>3. CASE n > 0
    <3>1. 1 \in 1 .. n
      BY <2>3
    <3>2. S \subseteq Thread
      BY <2>1 DEF WaitListIs
    <3>3. first = q[1] /\ q[1] \in S
      BY <2>1, <2>3, <3>1 DEF WaitListIs
    <3> QED
      BY <3>2, <3>3, ThreadAssumption
  <2> QED
    BY <2>2, <2>3
<1> QED
  BY <1>1, <1>2

(* Taking the first thread off. *)
LEMMA PopWaitList ==
    ASSUME NEW next, NEW first, NEW S, WaitList(next, first, S), first # NULL
    PROVE  WaitList(next, next[first], S \ {first})
<1>0. PICK n \in Nat : \E q \in [1 .. n -> Thread] : WaitListIs(next, first, S, n, q)
  BY DEF WaitList
<1>1. PICK q \in [1 .. n -> Thread] : WaitListIs(next, first, S, n, q)
  BY <1>0
<1>2. n > 0 /\ first = q[1]
  BY <1>1 DEF WaitListIs
<1>3. n - 1 \in Nat /\ \A i \in 1 .. n - 1 : i \in 1 .. n /\ i + 1 \in 1 .. n
  BY <1>2
<1> DEFINE p == [i \in 1 .. n - 1 |-> q[i + 1]]
<1>4. p \in [1 .. n - 1 -> Thread]
  BY <1>3
<1>5. \A i \in 1 .. n - 1 : p[i] = q[i + 1]
  OBVIOUS
<1> HIDE DEF p
<1>6. \A i \in 2 .. n : q[i] # q[1]
  BY <1>1 DEF WaitListIs
<1>7. S \ {first} = {p[i] : i \in 1 .. n - 1}
  <2>1. \A i \in 2 .. n : i - 1 \in 1 .. n - 1 /\ q[i] = p[i - 1]
    BY <1>5
  <2>2. ASSUME NEW x \in S \ {first}
        PROVE  x \in {p[i] : i \in 1 .. n - 1}
    <3>1. PICK i \in 1 .. n : x = q[i]
      BY <1>1 DEF WaitListIs
    <3>2. i \in 2 .. n
      BY <3>1, <1>2
    <3> QED
      BY <3>1, <3>2, <2>1
  <2>3. ASSUME NEW i \in 1 .. n - 1
        PROVE  p[i] \in S \ {first}
    <3>1. i + 1 \in 2 .. n /\ i + 1 \in 1 .. n /\ p[i] = q[i + 1]
      BY <1>3, <1>5
    <3>2. q[i + 1] \in S
      BY <3>1, <1>1 DEF WaitListIs
    <3> QED
      BY <3>1, <3>2, <1>2, <1>6
  <2> QED
    BY <2>2, <2>3
<1>8. \A i, j \in 1 .. n - 1 : p[i] = p[j] => i = j
  BY <1>1, <1>3, <1>5 DEF WaitListIs
<1>9. next[first] = IF n - 1 = 0 THEN NULL ELSE p[1]
  <2>1. 1 \in 1 .. n
    BY <1>2
  <2>2. next[q[1]] = IF n = 1 THEN NULL ELSE q[2]
    BY <2>1, <1>1 DEF WaitListIs
  <2>3. n # 1 => p[1] = q[2]
    BY <1>2, <1>5
  <2> QED
    BY <1>2, <2>2, <2>3
<1>10. \A i \in 1 .. n - 1 : next[p[i]] = IF i = n - 1 THEN NULL ELSE p[i + 1]
  <2> SUFFICES ASSUME NEW i \in 1 .. n - 1
               PROVE  next[p[i]] = IF i = n - 1 THEN NULL ELSE p[i + 1]
    OBVIOUS
  <2>1. p[i] = q[i + 1] /\ i + 1 \in 2 .. n /\ i + 1 \in 1 .. n
    BY <1>5
  <2>2. next[q[i + 1]] = IF i + 1 = n THEN NULL ELSE q[(i + 1) + 1]
    BY <2>1, <1>1 DEF WaitListIs
  <2>3. i # n - 1 => p[i + 1] = q[(i + 1) + 1]
    BY <1>5
  <2> QED
    BY <2>1, <2>2, <2>3
<1>11. WaitListIs(next, next[first], S \ {first}, n - 1, p)
  BY <1>7, <1>8, <1>9, <1>10 DEF WaitListIs
<1> QED
  BY <1>3, <1>4, <1>11 DEF WaitList

(* Following next from the first thread, one stays among those of a set    *)
(* that contains it and with a thread the next one: in particular the list *)
(* is such a set, so the walk of the code ends where the list does.        *)
LEMMA LastOfList ==
    ASSUME NEW s, NEW first, NEW S, NEW n \in Nat, NEW q \in [1 .. n -> Thread],
           WaitListIs(s.next, first, S, n, q), n > 0
    PROVE  LastOf(s, first) = q[n]
<1>1. /\ first = q[1] /\ S = {q[i] : i \in 1 .. n} /\ S \subseteq Thread
      /\ n \in 1 .. n /\ 1 \in 1 .. n
      /\ \A i \in 1 .. n : s.next[q[i]] = IF i = n THEN NULL ELSE q[i + 1]
  BY DEF WaitListIs
<1>2. ASSUME NEW Z \in SUBSET Thread, first \in Z,
             \A u \in Z : s.next[u] # NULL => s.next[u] \in Z
      PROVE  q[n] \in Z
  <2> DEFINE Missing == {i \in 1 .. n : q[i] \notin Z}
  <2> SUFFICES ASSUME Missing # {} PROVE FALSE
    BY <1>1
  <2>1. Missing \in SUBSET Nat
    OBVIOUS
  <2>2. PICK m \in Missing : \A k \in Missing : m <= k
    BY <2>1, NatMinimum
  <2>3. m \in 1 .. n /\ q[m] \notin Z /\ m # 1
    BY <2>2, <1>1, <1>2
  <2>4. m - 1 \in 1 .. n /\ m - 1 # n /\ (m - 1) + 1 = m /\ ~(m <= m - 1)
    BY <2>3
  <2>5. q[m - 1] \in Z
    BY <2>2, <2>4
  <2>6. s.next[q[m - 1]] = q[m] /\ q[m] \in Thread
    BY <2>3, <2>4, <1>1
  <2> QED
    BY <1>2, <2>3, <2>5, <2>6, ThreadAssumption
<1>3. Reaches(s, first, q[n]) /\ s.next[q[n]] = NULL /\ q[n] \in Thread
  BY <1>1, <1>2 DEF Reaches
<1>4. ASSUME NEW t \in Thread, Reaches(s, first, t), s.next[t] = NULL
      PROVE  t = q[n]
  <2>1. \A u \in S : s.next[u] # NULL => s.next[u] \in S
    <3> SUFFICES ASSUME NEW i \in 1 .. n, s.next[q[i]] # NULL
                 PROVE  s.next[q[i]] \in S
      BY <1>1
    <3>1. i # n /\ s.next[q[i]] = q[i + 1]
      BY <1>1
    <3>2. i + 1 \in 1 .. n
      BY <3>1
    <3> QED
      BY <3>1, <3>2, <1>1
  <2>2. t \in S
    BY <1>1, <1>4, <2>1 DEF Reaches
  <2>3. PICK i \in 1 .. n : t = q[i]
    BY <2>2, <1>1
  <2>4. i # n => i + 1 \in 1 .. n
    OBVIOUS
  <2> QED
    BY <2>3, <2>4, <1>1, <1>4, ThreadAssumption
<1> QED
  BY <1>3, <1>4 DEF LastOf

(* A thread whose link is empty is put behind the last one. *)
LEMMA AppendWaitList ==
    ASSUME NEW s, s.next \in [Thread -> Thread \cup {NULL}],
           NEW first, first # NULL, NEW S, WaitList(s.next, first, S),
           NEW t \in Thread, t \notin S, s.next[t] = NULL
    PROVE  /\ LastOf(s, first) \in S
           /\ WaitList([s.next EXCEPT ![LastOf(s, first)] = t], first, S \cup {t})
<1>0. PICK n \in Nat : \E q \in [1 .. n -> Thread] : WaitListIs(s.next, first, S, n, q)
  BY DEF WaitList
<1>1. PICK q \in [1 .. n -> Thread] : WaitListIs(s.next, first, S, n, q)
  BY <1>0
<1>2. n > 0 /\ n \in 1 .. n /\ 1 \in 1 .. n /\ first = q[1]
  BY <1>1 DEF WaitListIs
<1>3. LastOf(s, first) = q[n] /\ q[n] \in S
  <2>0. n > 0
    BY <1>2
  <2>1. LastOf(s, first) = q[n]
    BY <2>0, <1>1, LastOfList, Zenon
  <2>2. q[n] \in S
    BY <1>1, <1>2 DEF WaitListIs
  <2> QED
    BY <2>1, <2>2
<1> DEFINE p == [i \in 1 .. n + 1 |-> IF i = n + 1 THEN t ELSE q[i]]
           r == [s.next EXCEPT ![q[n]] = t]
<1>4. p \in [1 .. n + 1 -> Thread]
  OBVIOUS
<1>5. p[n + 1] = t /\ \A i \in 1 .. n : p[i] = q[i]
  OBVIOUS
<1> HIDE DEF p
<1>6. S \cup {t} = {p[i] : i \in 1 .. n + 1}
  BY <1>1, <1>5 DEF WaitListIs
<1>7. \A i \in 1 .. n : q[i] # t
  BY <1>1 DEF WaitListIs
<1>8. \A i, j \in 1 .. n + 1 : p[i] = p[j] => i = j
  <2>1. \A i, j \in 1 .. n : p[i] = p[j] => i = j
    BY <1>1, <1>5 DEF WaitListIs
  <2>2. \A i \in 1 .. n : p[i] # p[n + 1]
    BY <1>5, <1>7
  <2> QED
    BY <2>1, <2>2
<1>9. \A u \in Thread : r[u] = IF u = q[n] THEN t ELSE s.next[u]
  OBVIOUS
<1> HIDE DEF r
<1>10. \A i \in 1 .. n + 1 : r[p[i]] = IF i = n + 1 THEN NULL ELSE p[i + 1]
  <2> SUFFICES ASSUME NEW i \in 1 .. n + 1
               PROVE  r[p[i]] = IF i = n + 1 THEN NULL ELSE p[i + 1]
    OBVIOUS
  <2>1. CASE i = n + 1
    BY <2>1, <1>2, <1>5, <1>7, <1>9
  <2>2. CASE i = n
    BY <2>2, <1>2, <1>5, <1>9
  <2>3. CASE i < n
    <3>1. i \in 1 .. n /\ i # n /\ i + 1 \in 1 .. n /\ i # n + 1
      BY <2>3
    <3>2. p[i] = q[i] /\ p[i + 1] = q[i + 1] /\ q[i] \in Thread /\ q[i] # q[n]
      BY <3>1, <1>1, <1>2, <1>5 DEF WaitListIs
    <3>3. s.next[q[i]] = q[i + 1]
      BY <3>1, <1>1 DEF WaitListIs
    <3> QED
      BY <3>1, <3>2, <3>3, <1>9
  <2> QED
    BY <2>1, <2>2, <2>3
<1>11. WaitListIs(r, first, S \cup {t}, n + 1, p)
  <2>1. first = IF n + 1 = 0 THEN NULL ELSE p[1]
    BY <1>2, <1>5
  <2> QED
    BY <2>1, <1>6, <1>8, <1>10 DEF WaitListIs
<1>12. n + 1 \in Nat
  OBVIOUS
<1>13. WaitList(r, first, S \cup {t})
  BY <1>4, <1>11, <1>12 DEF WaitList
<1>14. r = [s.next EXCEPT ![LastOf(s, first)] = t]
  BY <1>3 DEF r
<1> QED
  BY <1>3, <1>13, <1>14

-----------------------------------------------------------------------------
(* What the operators of the timebase leave alone of the links.            *)

(* The ends of the ready queue are on it. *)
LEMMA EndsAreListed ==
    ASSUME NEW s, NEW S, HasList(s, S)
    PROVE  s.ready_head \in S \cup {NULL} /\ s.ready_tail \in S \cup {NULL}
<1>0. PICK n \in Nat : \E q \in [1 .. n -> Thread] :
         IsReadyList(s, n, q) /\ S = {q[i] : i \in 1 .. n}
  BY DEF HasList
<1>1. PICK q \in [1 .. n -> Thread] :
         IsReadyList(s, n, q) /\ S = {q[i] : i \in 1 .. n}
  BY <1>0
<1>2. n # 0 => n \in 1 .. n /\ 1 \in 1 .. n
  OBVIOUS
<1> QED
  BY <1>1, <1>2 DEF IsReadyList

(* A thread that waits is blocked: it neither runs nor is it ready. *)
LEMMA ParkedIsApart ==
    ASSUME NEW s, NEW C, NEW P, NEW X, Consistent(s, C, P, X), NEW u \in P
    PROVE  /\ u \in Thread /\ u \in C /\ u \notin X
           /\ u \notin RunnableIn(s, C, X)
           /\ u # s.ready_head /\ u # s.ready_tail
           /\ HeldBy(s, u) = {}
<1>1. u \in Thread /\ Waits(s, C, u) /\ HeldBy(s, u) = {}
  BY DEF Consistent, Accounted
<1>2. u \in C /\ "BLOCKED" \in s.flags[u]
  BY <1>1 DEF Waits
<1>3. u \notin X /\ u \notin RunnableIn(s, C, X)
  BY <1>2 DEF Consistent, RunnableIn
<1>4. /\ s.ready_head \in RunnableIn(s, C, X) \cup {NULL}
      /\ s.ready_tail \in RunnableIn(s, C, X) \cup {NULL}
  BY EndsAreListed DEF Consistent
<1> QED
  BY <1>1, <1>2, <1>3, <1>4, ThreadAssumption

(* Links of threads that are not on the ready list may change. *)
LEMMA Relinks ==
    ASSUME NEW s, NEW C, NEW P, NEW X, Consistent(s, C, P, X),
           NEW r \in TimebaseState,
           r.ready_head = s.ready_head, r.ready_tail = s.ready_tail,
           r.events = s.events, r.active = s.active,
           r.leaf = s.leaf, r.flags = s.flags,
           \A u \in RunnableIn(s, C, X) : r.next[u] = s.next[u]
    PROVE  Consistent(r, C, P, X)
<1>1. s \in TimebaseState /\ HasList(s, RunnableIn(s, C, X))
  BY DEF Consistent
<1>2. RunnableIn(r, C, X) = RunnableIn(s, C, X)
  BY DEF RunnableIn
<1>3. HasList(r, RunnableIn(r, C, X))
  BY <1>1, <1>2, SameList
<1>4. ASSUME NEW t \in Thread PROVE Accounted(r, C, P, t)
  <2>1. HeldBy(r, t) = HeldBy(s, t)
    BY DEF HeldBy
  <2>2. Waits(r, C, t) <=> Waits(s, C, t)
    BY DEF Waits
  <2> QED
    BY <2>1, <2>2 DEF Consistent, Accounted
<1> QED
  BY <1>2, <1>3, <1>4 DEF Consistent

(* ready_queue_add with one field the list does not depend on changed. *)
LEMMA AddKeepsNext ==
    ASSUME NEW s \in TimebaseState, NEW t \in Thread,
           NEW m \in TimebaseState, m.next = s.next, m.ready_tail = s.ready_tail,
           NEW u \in Thread, u # t, u # s.ready_tail
    PROVE  ready_queue_add(m, t).next[u] = s.next[u]
BY AddNext

(* The end of an activation touches the link of its thread and of the last *)
(* thread of the ready queue.                                              *)
LEMMA FinishKeepsNext ==
    ASSUME NEW s \in TimebaseState, NEW t \in Thread,
           NEW u \in Thread, u # t, u # s.ready_tail
    PROVE  FinishActivation(s, t).next[u] = s.next[u]
<1>1. ASSUME NEW m \in TimebaseState, m.next = s.next, m.ready_tail = s.ready_tail
      PROVE  Requeue(m, t).next[u] = s.next[u]
  <2> DEFINE m1 == [m EXCEPT !.flags = [m.flags EXCEPT ![t] = m.flags[t] \ {"SUSPEND"}]]
             m2 == [m1 EXCEPT !.active = m1.active + 1]
  <2>1. m1 \in TimebaseState /\ m1.next = s.next /\ m1.ready_tail = s.ready_tail
    <3>1. m.flags[t] \ {"SUSPEND"} \in SUBSET ThreadFlag
      BY <1>1, Fields
    <3> QED
      BY <1>1, <3>1, FlagsOfOne
  <2>2. Requeue(m, t) = IF "BLOCKED" \in m.flags[t] THEN clear_next(m, t)
                        ELSE ready_queue_add(m2, t)
    BY DEF Requeue, zsp_timebase_schedule
  <2> HIDE DEF m1
  <2>3. m1.active + 1 \in Int
    BY <2>1, Fields
  <2>4. m2 \in TimebaseState
    BY <2>1, <2>3, FieldTypes
  <2>5. m2.next = s.next /\ m2.ready_tail = s.ready_tail
    BY <2>1 DEF TimebaseState
  <2> HIDE DEF m2
  <2>6. ready_queue_add(m2, t).next[u] = s.next[u]
    BY <2>4, <2>5, AddKeepsNext
  <2>7. clear_next(m, t).next[u] = s.next[u]
    BY <1>1, ClearNext
  <2> QED
    BY <2>2, <2>6, <2>7
<1> DEFINE F == s.flags[t] \ {"INITIAL"}
           called == [s EXCEPT !.flags = [s.flags EXCEPT ![t] = F]]
           G == called.flags[t] \cup {"BLOCKED"}
           b == [called EXCEPT !.flags = [called.flags EXCEPT ![t] = G]]
<1>2. F \in SUBSET ThreadFlag
  BY Fields
<1>3. called \in TimebaseState /\ called.next = s.next /\ called.ready_tail = s.ready_tail
  BY <1>2, FlagsOfOne
<1>4. FinishInit(s, t) = IF s.leaf[t] > 0 THEN Requeue(called, t) ELSE clear_next(b, t)
  BY DEF FinishInit, block_thread
<1> HIDE DEF called
<1>5. b \in TimebaseState /\ b.next = s.next
  <2>1. G \in SUBSET ThreadFlag
    BY <1>3, Fields DEF ThreadFlag
  <2> HIDE DEF G
  <2> QED
    BY <1>3, <2>1, FlagsOfOne
<1> HIDE DEF b
<1>6. clear_next(b, t).next[u] = s.next[u]
  BY <1>5, ClearNext
<1>7. FinishInit(s, t).next[u] = s.next[u]
  BY <1>1, <1>3, <1>4, <1>6
<1>8. FinishRun(s, t).next[u] = s.next[u]
  BY <1>1 DEF FinishRun
<1> QED
  BY <1>7, <1>8 DEF FinishActivation

(* The links of the threads of P are those they were. *)
KeepsLinks(s, r, P) == \A u \in P : r.next[u] = s.next[u]

(* The end of an activation that blocked empties its thread's link. *)
LEMMA FinishClearsBlocked ==
    ASSUME NEW s \in TimebaseState, NEW t \in Thread,
           "BLOCKED" \in s.flags[t], s.leaf[t] > 0
    PROVE  FinishActivation(s, t).next[t] = NULL
<1> DEFINE F == s.flags[t] \ {"INITIAL"}
           called == [s EXCEPT !.flags = [s.flags EXCEPT ![t] = F]]
<1>1. F \in SUBSET ThreadFlag /\ "BLOCKED" \in F
  BY Fields
<1>2. called \in TimebaseState /\ "BLOCKED" \in called.flags[t]
  BY <1>1, FlagsOfOne
<1>3. FinishInit(s, t) = Requeue(called, t)
  BY DEF FinishInit
<1> HIDE DEF called
<1>4. ASSUME NEW m \in TimebaseState, "BLOCKED" \in m.flags[t]
      PROVE  Requeue(m, t).next[t] = NULL
  BY <1>4, Fields DEF Requeue, clear_next, TimebaseState
<1>5. FinishInit(s, t).next[t] = NULL
  BY <1>2, <1>3, <1>4
<1>6. FinishRun(s, t).next[t] = NULL
  BY <1>4 DEF FinishRun
<1> QED
  BY <1>5, <1>6 DEF FinishActivation

(* The list of one thread. *)
LEMMA OneWaits ==
    ASSUME NEW next, NEW t \in Thread, next[t] = NULL
    PROVE  WaitList(next, t, {t})
<1> DEFINE q == [i \in 1 .. 1 |-> t]
<1>1. q \in [1 .. 1 -> Thread] /\ \A i \in 1 .. 1 : q[i] = t /\ i = 1
  OBVIOUS
<1>2. 1 \in 1 .. 1 /\ 1 \in Nat
  OBVIOUS
<1> HIDE DEF q
<1>3. WaitListIs(next, t, {t}, 1, q)
  BY <1>1, <1>2 DEF WaitListIs
<1> QED
  BY <1>1, <1>2, <1>3 DEF WaitList

(* zsp_channel_add_get_waiter and zsp_channel_add_put_waiter: t leaves the *)
(* processor, is behind the threads of S, and of the other waiting threads *)
(* no link changes.                                                        *)
LEMMA Enlists ==
    ASSUME NEW s, NEW C, NEW P, NEW X, Consistent(s, C, P, X), NEW t \in X,
           NEW S \in SUBSET P, NEW first, WaitList(s.next, first, S),
           NEW r, r = FinishActivation(AddWaiter(s, first, t), t)
    PROVE  /\ Consistent(r, C, P \cup {t}, X \ {t})
           /\ WaitList(r.next, IF first = NULL THEN t ELSE first, S \cup {t})
           /\ KeepsLinks(s, r, P \ S)
<1> DEFINE c == clear_next(s, t)
           l == LastOf(c, first)
           d == [c EXCEPT !.next = [c.next EXCEPT ![l] = t]]
           m == IF first = NULL THEN c ELSE d
           b == block_thread(m, t)
           head == IF first = NULL THEN t ELSE first
<1>1. /\ s \in TimebaseState /\ t \in Thread /\ t \notin P /\ t \notin S
      /\ s.leaf[t] > 0 /\ P \subseteq Thread
      /\ \A u \in P : u \in Thread /\ u # s.ready_tail /\ u # t
      /\ \A u \in RunnableIn(s, C, X) : u \in Thread /\ u \notin P /\ u # t
  <2>1. s \in TimebaseState /\ t \in Thread /\ t \notin P /\ s.leaf[t] > 0
    BY NotWaiting
  <2>2. \A u \in P : u \in Thread /\ u # s.ready_tail /\ u \notin RunnableIn(s, C, X)
    BY ParkedIsApart
  <2>3. \A u \in RunnableIn(s, C, X) : u \in Thread /\ u # t
    BY DEF RunnableIn, Consistent
  <2> QED
    BY <2>1, <2>2, <2>3
<1>2. /\ c \in TimebaseState /\ c.next[t] = NULL
      /\ c.ready_head = s.ready_head /\ c.ready_tail = s.ready_tail
      /\ c.events = s.events /\ c.active = s.active
      /\ c.leaf = s.leaf /\ c.flags = s.flags
      /\ \A u \in Thread \ {t} : c.next[u] = s.next[u]
  <2>1. c.next[t] = NULL
    BY <1>1, Fields DEF clear_next, TimebaseState
  <2> QED
    BY <1>1, <2>1, ClearNext
<1>3. b = AddWaiter(s, first, t)
  BY DEF AddWaiter
<1> HIDE DEF c
<1>4. WaitList(c.next, first, S)
  BY <1>1, <1>2, SameWaitList
<1>5. first # NULL => l \in S /\ WaitList([c.next EXCEPT ![l] = t], first, S \cup {t})
  BY <1>1, <1>2, <1>4, AppendWaitList, Fields
<1> HIDE DEF l
<1>6. /\ m \in TimebaseState /\ m.next[t] = NULL
      /\ m.ready_head = s.ready_head /\ m.ready_tail = s.ready_tail
      /\ m.events = s.events /\ m.active = s.active
      /\ m.leaf = s.leaf /\ m.flags = s.flags
      /\ \A u \in Thread \ {t} : u \notin S => m.next[u] = s.next[u]
      /\ WaitList(m.next, head, S \cup {t})
  <2>1. CASE first = NULL
    <3>1. m = c /\ head = t /\ S \cup {t} = {t}
      BY <2>1, <1>4, EmptyWaitList
    <3>2. WaitList(c.next, t, {t})
      BY <1>1, <1>2, OneWaits
    <3> HIDE DEF m, head
    <3> QED
      BY <1>2, <3>1, <3>2
  <2>2. CASE first # NULL
    <3> DEFINE next == [c.next EXCEPT ![l] = t]
    <3>1. m = d /\ head = first
      BY <2>2
    <3>2. l \in Thread /\ l # t /\ c.next \in [Thread -> Thread \cup {NULL}]
      BY <2>2, <1>1, <1>2, <1>5, Fields
    <3>3. /\ next \in [Thread -> Thread \cup {NULL}] /\ next[t] = NULL
          /\ \A u \in Thread \ {t} : u # l => next[u] = s.next[u]
      BY <3>2, <1>1, <1>2
    <3>4. WaitList(next, first, S \cup {t})
      BY <2>2, <1>5
    <3>5. d = [c EXCEPT !.next = next]
      OBVIOUS
    <3> HIDE DEF next, d, m, head
    <3>6. d \in TimebaseState
      BY <1>2, <3>3, <3>5, FieldTypes
    <3>7. /\ d.next = next
          /\ d.ready_head = c.ready_head /\ d.ready_tail = c.ready_tail
          /\ d.events = c.events /\ d.active = c.active
          /\ d.leaf = c.leaf /\ d.flags = c.flags
      BY <1>2, <3>5 DEF TimebaseState
    <3> QED
      BY <2>2, <1>2, <1>5, <3>1, <3>3, <3>4, <3>6, <3>7
  <2> QED
    BY <2>1, <2>2
<1> HIDE DEF m, head
<1>7. Consistent(m, C, P, X)
  BY <1>1, <1>6, Relinks
<1>8. Consistent(r, C, P \cup {t}, X \ {t})
  BY <1>3, <1>7, Blocks
<1>9. /\ b \in TimebaseState /\ b.next = m.next /\ b.ready_tail = s.ready_tail
      /\ "BLOCKED" \in b.flags[t] /\ b.leaf[t] > 0
  <2> DEFINE G == m.flags[t] \cup {"BLOCKED"}
  <2>1. G \in SUBSET ThreadFlag /\ "BLOCKED" \in G
    BY <1>1, <1>6, Fields DEF ThreadFlag
  <2>2. b = [m EXCEPT !.flags = [m.flags EXCEPT ![t] = G]]
    BY DEF block_thread
  <2> HIDE DEF G, b
  <2> QED
    BY <1>1, <1>6, <2>1, <2>2, FlagsOfOne
<1>10. r.next[t] = NULL /\ \A u \in P : r.next[u] = m.next[u]
  BY <1>1, <1>3, <1>9, FinishClearsBlocked, FinishKeepsNext
<1>11. WaitList(r.next, head, S \cup {t})
  BY <1>6, <1>10, SameWaitList
<1>12. \A u \in P \ S : r.next[u] = s.next[u]
  BY <1>1, <1>6, <1>10
<1> QED
  BY <1>8, <1>11, <1>12 DEF head, KeepsLinks

(* The timebase after one turn of the loops that wake. *)
Woken(s, t) == zsp_timebase_schedule(clear_next(s, t), t)

(* One turn of the loops that wake: the first thread of S leaves its list  *)
(* for the ready queue, and of the other waiting threads no link changes.  *)
LEMMA Delists ==
    ASSUME NEW s, NEW C, NEW P, NEW X, Consistent(s, C, P, X),
           NEW S \in SUBSET P, NEW t, t # NULL, WaitList(s.next, t, S)
    PROVE  /\ t \in S
           /\ Consistent(Woken(s, t), C, P \ {t}, X)
           /\ WaitList(Woken(s, t).next, s.next[t], S \ {t})
           /\ KeepsLinks(s, Woken(s, t), P \ {t})
<1> DEFINE r == Woken(s, t)
           c == clear_next(s, t)
           m == [c EXCEPT !.active = c.active + 1]
<1>1. t \in S
  BY EmptyWaitList
<1>2. /\ s \in TimebaseState /\ t \in Thread
      /\ \A u \in P : u \in Thread /\ u # s.ready_tail
      /\ \A u \in RunnableIn(s, C, X) : u \in Thread /\ u # t
  <2>1. \A u \in P : u \in Thread /\ u # s.ready_tail /\ u \notin RunnableIn(s, C, X)
    BY ParkedIsApart
  <2>2. \A u \in RunnableIn(s, C, X) : u \in Thread
    BY DEF RunnableIn, Consistent
  <2> QED
    BY <1>1, <2>1, <2>2 DEF Consistent
<1>3. /\ c \in TimebaseState
      /\ c.ready_head = s.ready_head /\ c.ready_tail = s.ready_tail
      /\ c.events = s.events /\ c.active = s.active
      /\ c.leaf = s.leaf /\ c.flags = s.flags
      /\ \A u \in Thread \ {t} : c.next[u] = s.next[u]
  BY <1>2, ClearNext
<1> HIDE DEF c, r
<1>4. Consistent(c, C, P, X)
  BY <1>2, <1>3, Relinks
<1>5. Consistent(r, C, P \ {t}, X)
  BY <1>1, <1>4, Wakes DEF c, r, Woken
<1>6. m \in TimebaseState /\ m.next = c.next /\ m.ready_tail = c.ready_tail
  <2>1. c.active + 1 \in Int
    BY <1>3, Fields
  <2>2. m \in TimebaseState
    BY <1>3, <2>1, FieldTypes
  <2> QED
    BY <1>3, <2>2 DEF TimebaseState
<1>7. r = ready_queue_add(m, t)
  BY DEF zsp_timebase_schedule, c, r, Woken
<1> HIDE DEF m
<1>8. \A u \in P \ {t} : r.next[u] = s.next[u]
  BY <1>2, <1>3, <1>6, <1>7, AddKeepsNext
<1>9. WaitList(s.next, s.next[t], S \ {t})
  BY PopWaitList
<1>10. WaitList(r.next, s.next[t], S \ {t})
  BY <1>8, <1>9, SameWaitList
<1> QED
  BY <1>1, <1>5, <1>8, <1>10 DEF r, KeepsLinks

-----------------------------------------------------------------------------
(* The steps of the timebase and what tasks do between their calls of the  *)
(* channel leave the wait lists alone.                                     *)

(* Setting a field other than next. *)
LEMMA ClockKeepsLinks ==
    ASSUME NEW s \in TimebaseState, NEW P
    PROVE  /\ \A x : KeepsLinks(s, [s EXCEPT !.current_time = x], P)
           /\ \A x : KeepsLinks(s, [s EXCEPT !.running = x], P)
           /\ KeepsLinks(s, BeginAdvance(s), P)
           /\ \A x : KeepsLinks(s, FinishRunUntil(s, x), P)
BY DEF KeepsLinks, BeginAdvance, FinishRunUntil, TimebaseState

(* The scheduler takes a thread off the ready queue. *)
LEMMA RunKeepsLinks ==
    ASSUME NEW s, NEW C, NEW P, NEW X, Consistent(s, C, P, X), s.ready_head # NULL
    PROVE  KeepsLinks(s, BeginRun(s), P)
<1> DEFINE m == [s EXCEPT !.active = s.active - 1]
<1>1. s \in TimebaseState
  BY DEF Consistent
<1>2. m \in TimebaseState /\ m.next = s.next /\ m.ready_head = s.ready_head
  <2>1. s.active - 1 \in Int
    BY <1>1, Fields
  <2>2. m \in TimebaseState
    BY <1>1, <2>1, FieldTypes
  <2> QED
    BY <1>1, <2>2 DEF TimebaseState
<1>3. BeginRun(s) = ready_queue_pop(m)
  BY DEF BeginRun
<1> HIDE DEF m
<1>4. BeginRun(s).next = [s.next EXCEPT ![s.ready_head] = NULL]
  BY <1>2, <1>3, PopEnds
<1>5. \A u \in P : u \in Thread /\ u # s.ready_head
  BY ParkedIsApart
<1> QED
  BY <1>1, <1>4, <1>5, Fields DEF KeepsLinks

(* A delay ends. *)
LEMMA MoveKeepsLinks ==
    ASSUME NEW s, NEW C, NEW P, NEW X, Consistent(s, C, P, X), s.events # {}
    PROVE  KeepsLinks(s, MoveDue(s), P)
<1> DEFINE e == FirstEvent(s)
           t == e.thread
           m == [s EXCEPT !.events = s.events \ {e}]
<1>1. s \in TimebaseState
  BY DEF Consistent
<1>2. e \in s.events /\ e \in Event /\ t \in Thread
  BY <1>1, FirstEventIn, Fields DEF Event
<1>3. MoveDue(s) = ready_queue_add(m, t)
  BY DEF MoveDue
<1> HIDE DEF e
<1>4. m \in TimebaseState /\ m.next = s.next /\ m.ready_tail = s.ready_tail
  <2>1. s.events \ {e} \in SUBSET Event
    BY <1>1, Fields
  <2>2. m \in TimebaseState
    BY <1>1, <2>1, FieldTypes
  <2> QED
    BY <1>1, <2>2 DEF TimebaseState
<1> HIDE DEF m, t
<1>5. \A u \in P : u \in Thread /\ u # s.ready_tail /\ u # t
  <2>1. \A u \in P : u \in Thread /\ u # s.ready_tail /\ HeldBy(s, u) = {}
    BY ParkedIsApart
  <2>2. HeldBy(s, t) # {}
    BY <1>2 DEF HeldBy, t
  <2> QED
    BY <2>1, <2>2
<1> QED
  BY <1>1, <1>2, <1>3, <1>4, <1>5, AddKeepsNext DEF KeepsLinks

(* A thread is created. *)
LEMMA CreateKeepsLinks ==
    ASSUME NEW s, NEW C, NEW P, NEW X, Consistent(s, C, P, X), NEW t \in Thread \ C
    PROVE  KeepsLinks(s, thread_init_common(s, t), P)
<1>1. \A u \in P : u \in Thread /\ u # t
  BY ParkedIsApart
<1>2. s \in TimebaseState /\ s.next \in [Thread -> Thread \cup {NULL}]
  BY Fields DEF Consistent
<1>3. thread_init_common(s, t).next = [s.next EXCEPT ![t] = NULL]
  BY <1>2 DEF thread_init_common, TimebaseState
<1> QED
  BY <1>1, <1>2, <1>3 DEF KeepsLinks

(* An activation of t ends, with the timebase in m. *)
LEMMA FinishKeepsLinks ==
    ASSUME NEW s, NEW C, NEW P, NEW X, Consistent(s, C, P, X), NEW t \in X,
           NEW m \in TimebaseState, m.next = s.next, m.ready_tail = s.ready_tail
    PROVE  KeepsLinks(s, FinishActivation(m, t), P)
<1>1. t \in Thread /\ \A u \in P : u \in Thread /\ u # s.ready_tail /\ u # t
  BY ParkedIsApart, NotWaiting
<1> QED
  BY <1>1, FinishKeepsNext DEF KeepsLinks

(* A task that yields, waits or returns changes no link before it leaves   *)
(* the processor.                                                          *)
LEMMA CallsKeepNext ==
    ASSUME NEW s \in TimebaseState, NEW t \in Thread, s.leaf[t] > 0, NEW delay \in Nat,
           NEW m, m \in {zsp_timebase_yield(s, t), WaitSuspended(s, t, delay),
                         zsp_timebase_return(s, t)}
    PROVE  m \in TimebaseState /\ m.next = s.next /\ m.ready_tail = s.ready_tail
<1>1. CASE m = zsp_timebase_yield(s, t)
  <2> DEFINE F == s.flags[t] \cup {"SUSPEND"}
  <2>1. F \in SUBSET ThreadFlag
    BY Fields DEF ThreadFlag
  <2>2. m = [s EXCEPT !.flags = [s.flags EXCEPT ![t] = F]]
    BY <1>1 DEF zsp_timebase_yield
  <2> HIDE DEF F
  <2> QED
    BY <2>1, <2>2, FlagsOfOne
<1>2. CASE m = WaitSuspended(s, t, delay)
  <2> DEFINE F  == (s.flags[t] \cup {"BLOCKED"}) \ {"SUSPEND"}
             a  == [s EXCEPT !.flags = [s.flags EXCEPT ![t] = F]]
             E  == a.events \cup {[wake_time |-> a.current_time + delay,
                                   seq |-> a.event_seq, thread |-> t]}
             k  == (a.event_seq + 1) % SeqModulus
             a1 == [a EXCEPT !.active = a.active + 1]
             a2 == [a1 EXCEPT !.event_seq = k]
  <2>1. F \in SUBSET ThreadFlag
    BY Fields DEF ThreadFlag
  <2>2. m = [a2 EXCEPT !.events = E]
    BY <1>2 DEF WaitSuspended, zsp_timebase_schedule_at
  <2> HIDE DEF F
  <2>3. a \in TimebaseState /\ a.next = s.next /\ a.ready_tail = s.ready_tail
    BY <2>1, FlagsOfOne
  <2> HIDE DEF a
  <2>4. k \in 0 .. SeqModulus - 1
    <3>1. a.event_seq + 1 \in Nat /\ SeqModulus \in Nat \ {0}
      BY <2>3, SeqAssumption, Fields
    <3> QED
      BY <3>1
  <2>5. a.active + 1 \in Int /\ E \in SUBSET Event
    <3>1. a.current_time + delay \in Nat /\ a.event_seq \in 0 .. SeqModulus - 1
      BY <2>3, Fields
    <3>2. [wake_time |-> a.current_time + delay, seq |-> a.event_seq, thread |-> t] \in Event
      BY <3>1 DEF Event
    <3> QED
      BY <2>3, <3>2, Fields
  <2> HIDE DEF k, E
  <2>6. m \in TimebaseState
    <3>1. a1 \in TimebaseState
      BY <2>3, <2>5, FieldTypes
    <3> HIDE DEF a1
    <3>2. a2 \in TimebaseState
      BY <2>4, <3>1, FieldTypes
    <3> HIDE DEF a2
    <3> QED
      BY <2>2, <2>5, <3>2, FieldTypes
  <2>7. m.next = a.next /\ m.ready_tail = a.ready_tail
    BY <2>2, <2>3 DEF TimebaseState
  <2> QED
    BY <2>3, <2>6, <2>7
<1>3. CASE m = zsp_timebase_return(s, t)
  <2> DEFINE leaf == [s.leaf EXCEPT ![t] = s.leaf[t] - 1]
             F == s.flags[t] \ {"SUSPEND"}
             flags == IF ReturnContinues(s, t) THEN [s.flags EXCEPT ![t] = F] ELSE s.flags
             a == [s EXCEPT !.leaf = leaf]
  <2>1. leaf \in [Thread -> Nat]
    BY Fields
  <2>2. flags \in [Thread -> SUBSET ThreadFlag]
    <3>1. s.flags \in [Thread -> SUBSET ThreadFlag] /\ F \in SUBSET ThreadFlag
      BY Fields
    <3> HIDE DEF F
    <3> QED
      BY <3>1
  <2>3. m = [a EXCEPT !.flags = flags]
    BY <1>3 DEF zsp_timebase_return
  <2> HIDE DEF leaf, flags
  <2>4. m \in TimebaseState
    <3>1. a \in TimebaseState
      BY <2>1, FieldTypes
    <3> HIDE DEF a
    <3> QED
      BY <2>2, <2>3, <3>1, FieldTypes
  <2>5. m.next = s.next /\ m.ready_tail = s.ready_tail
    BY <2>3 DEF TimebaseState
  <2> QED
    BY <2>4, <2>5
<1> QED
  BY <1>1, <1>2, <1>3

(* A task that executes is on the C stack and waits on no list. *)
LEMMA ExecutingThread ==
    ASSUME Inv, NEW t \in Thread, Executing(t)
    PROVE  /\ t \in OnStack(exec) /\ t \notin parked /\ t \in created
           /\ tb \in TimebaseState /\ tb.leaf[t] > 0 /\ tb.leaf[t] \in Nat
<1>1. t \in OnStack(exec)
  BY StackPop DEF Inv, Executing
<1> QED
  BY <1>1, NotWaiting, Fields DEF Inv

(* A call of a task after which it leaves the processor. *)
LEMMA LeaveKeepsLinks ==
    ASSUME Inv, NEW t \in Thread, Executing(t), NEW delay \in Nat,
           NEW m \in {zsp_timebase_yield(tb, t), WaitSuspended(tb, t, delay),
                      zsp_timebase_return(tb, t)},
           Leave(m, t)
    PROVE  KeepsLinks(tb, tb', parked)
<1>1. /\ t \in OnStack(exec) /\ tb \in TimebaseState /\ tb.leaf[t] > 0
      /\ Consistent(tb, created, parked, OnStack(exec))
      /\ tb' = FinishActivation(m, t)
  BY ExecutingThread, LeaveStep DEF Inv
<1>2. m \in TimebaseState /\ m.next = tb.next /\ m.ready_tail = tb.ready_tail
  BY <1>1, CallsKeepNext
<1> QED
  BY <1>1, <1>2, FinishKeepsLinks

(* The scheduler, run_until and the creation of threads preserve the       *)
(* invariant of the timebase and leave every waiting thread where it is.   *)
LEMMA TimebaseStepKeeps ==
    ASSUME Inv, TimebaseStep
    PROVE  Inv' /\ parked' = parked /\ KeepsLinks(tb, tb', parked)
<1> DEFINE X == OnStack(exec)
<1>0. /\ Consistent(tb, created, parked, X) /\ tb \in TimebaseState
      /\ parked \subseteq Thread
  BY DEF Inv, Consistent
<1>1. Inv'
  <2>1. \A t \in Putters \cup Getters : t \in Thread
    BY ChannelAssumption
  <2>2. Next
    BY <2>1 DEF TimebaseStep, Next, Main
  <2> QED
    BY <2>2, NextInv
<1>2. ASSUME NEW end \in EndTimes, RunUntil(end)
      PROVE  parked' = parked /\ KeepsLinks(tb, tb', parked)
  BY <1>0, <1>2, ClockKeepsLinks DEF RunUntil
<1>3. CASE Run
  <2>1. KeepsLinks(tb, BeginRun(tb), parked)
    BY <1>0, <1>3, RunKeepsLinks DEF Run
  <2> QED
    BY <1>1, <1>3, <2>1 DEF Run
<1>4. CASE UntilAdvance
  BY <1>0, <1>1, <1>4, ClockKeepsLinks DEF UntilAdvance
<1>5. CASE UntilReturn
  BY <1>0, <1>1, <1>5, ClockKeepsLinks DEF UntilReturn
<1>6. CASE AdvanceMove
  <2>1. KeepsLinks(tb, MoveDue(tb), parked)
    BY <1>0, <1>6, MoveKeepsLinks DEF AdvanceMove, IsDue
  <2> QED
    BY <1>1, <1>6, <2>1 DEF AdvanceMove
<1>7. CASE AdvanceReturn
  <2>1. KeepsLinks(tb, tb, parked)
    BY DEF KeepsLinks
  <2> QED
    BY <1>0, <1>1, <1>7, <2>1, ClockKeepsLinks DEF AdvanceReturn
<1>8. ASSUME NEW t \in Putters \cup Getters, ThreadCreate(t)
      PROVE  parked' = parked /\ KeepsLinks(tb, tb', parked)
  <2>1. t \in Thread \ created
    BY <1>8, ChannelAssumption DEF ThreadCreate
  <2>2. KeepsLinks(tb, thread_init_common(tb, t), parked)
    BY <1>0, <2>1, CreateKeepsLinks
  <2> QED
    BY <1>8, <2>2 DEF ThreadCreate
<1> QED
  BY <1>1, <1>2, <1>3, <1>4, <1>5, <1>6, <1>7, <1>8 DEF TimebaseStep, Scheduler

(* So does a task between its puts and gets. *)
LEMMA TaskItselfKeeps ==
    ASSUME Inv, NEW t \in Thread, TaskItself(t)
    PROVE  Inv' /\ parked' = parked /\ KeepsLinks(tb, tb', parked)
<1>1. Inv'
  <2>1. Next
    BY DEF TaskItself, Next, Task
  <2> QED
    BY <2>1, NextInv
<1>2. CASE TaskYield(t)
  <2>1. 0 \in Nat
    OBVIOUS
  <2>2. KeepsLinks(tb, tb', parked)
    BY <1>2, <2>1, LeaveKeepsLinks DEF TaskYield
  <2> QED
    BY <1>1, <1>2, <2>2 DEF TaskYield
<1>3. ASSUME NEW delay \in Delays, TaskWait(t, delay)
      PROVE  parked' = parked /\ KeepsLinks(tb, tb', parked)
  <2>1. delay \in Nat
    BY TimeAssumption
  <2>2. Executing(t) /\ Leave(WaitSuspended(tb, t, delay), t)
    BY <1>3 DEF TaskWait, zsp_timebase_wait
  <2>3. KeepsLinks(tb, tb', parked)
    BY <2>1, <2>2, LeaveKeepsLinks
  <2> QED
    BY <1>3, <2>3 DEF TaskWait
<1>4. CASE TaskReturn(t)
  <2>1. 0 \in Nat
    OBVIOUS
  <2>2. KeepsLinks(tb, tb', parked)
    BY <1>4, <2>1, LeaveKeepsLinks DEF TaskReturn
  <2> QED
    BY <1>1, <1>4, <2>2 DEF TaskReturn
<1> QED
  BY <1>1, <1>2, <1>3, <1>4 DEF TaskItself

-----------------------------------------------------------------------------
(* The ring buffer. *)

(* The indices into the ring. *)
Index == 0 .. ActualCapacity - 1

(* The place of the item that is taken out after i others. *)
Slot(c, i) == (c.head + i) % ActualCapacity

(* The fields have their types, and from head on count entries of the ring *)
(* hold items; tail is the entry behind them.                              *)
Ring(c) ==
    /\ c \in ChannelState
    /\ c.capacity = ActualCapacity
    /\ c.head \in Index /\ c.tail \in Index /\ c.count \in 0 .. ActualCapacity
    /\ c.tail = Slot(c, c.count)
    /\ \A i \in 0 .. c.count - 1 : c.buffer[Slot(c, i)] \in Item

(* A channel of capacity 0 gets the default. *)
LEMMA CapacityIsPositive == ActualCapacity \in Nat /\ ActualCapacity > 0
BY ChannelAssumption DEF ActualCapacity, ZSP_CHANNEL_DEFAULT_CAPACITY

(* Counting up in a ring of n entries. *)
LEMMA RingArithmetic ==
    ASSUME NEW n \in Nat, n > 0, NEW h \in 0 .. n - 1
    PROVE  /\ \A i \in 0 .. n : (h + i) % n \in 0 .. n - 1
           /\ \A i, j \in 0 .. n - 1 : (h + i) % n = (h + j) % n => i = j
           /\ \A i \in 0 .. n - 1 :
                 /\ (((h + i) % n) + 1) % n = (h + (i + 1)) % n
                 /\ (((h + 1) % n) + i) % n = (h + (i + 1)) % n
<1>1. \A a \in 0 .. n - 1 : a % n = a
  OBVIOUS
<1>2. \A a \in n .. 2 * n - 1 : a % n = a - n
  OBVIOUS
<1>3. \A a \in 0 .. n - 1 : \A i \in 0 .. n :
         (a + i) % n = IF a + i < n THEN a + i ELSE a + i - n
  BY <1>1, <1>2
<1>4. ASSUME NEW i \in 0 .. n PROVE (h + i) % n \in 0 .. n - 1
  <2>1. (h + i) % n = IF h + i < n THEN h + i ELSE h + i - n
    BY <1>3
  <2> QED
    BY <2>1
<1>5. ASSUME NEW i \in 0 .. n - 1, NEW j \in 0 .. n - 1, (h + i) % n = (h + j) % n
      PROVE  i = j
  <2>1. /\ (h + i) % n = IF h + i < n THEN h + i ELSE h + i - n
        /\ (h + j) % n = IF h + j < n THEN h + j ELSE h + j - n
    BY <1>3
  <2> QED
    BY <2>1, <1>5
<1>6. ASSUME NEW i \in 0 .. n - 1
      PROVE  /\ (((h + i) % n) + 1) % n = (h + (i + 1)) % n
             /\ (((h + 1) % n) + i) % n = (h + (i + 1)) % n
  <2> DEFINE a == (h + i) % n
             b == (h + 1) % n
  <2>1. a = (IF h + i < n THEN h + i ELSE h + i - n) /\ a \in 0 .. n - 1
    BY <1>3, <1>4
  <2>2. b = (IF h + 1 < n THEN h + 1 ELSE h + 1 - n) /\ b \in 0 .. n - 1
    BY <1>3, <1>4
  <2>3. (h + (i + 1)) % n = IF h + (i + 1) < n THEN h + (i + 1) ELSE h + (i + 1) - n
    BY <1>3
  <2> HIDE DEF a, b
  <2>4. (a + 1) % n = IF a + 1 < n THEN a + 1 ELSE a + 1 - n
    BY <2>1, <1>3
  <2>5. (b + i) % n = IF b + i < n THEN b + i ELSE b + i - n
    BY <2>2, <1>3
  <2>6. (a + 1) % n = (h + (i + 1)) % n
    BY <2>1, <2>3, <2>4
  <2>7. (b + i) % n = (h + (i + 1)) % n
    BY <2>2, <2>3, <2>5
  <2> QED
    BY <2>6, <2>7 DEF a, b
<1> QED
  BY <1>4, <1>5, <1>6

(* The ring after a put of v, and after a get. *)
WithItem(c, v) ==
    [c EXCEPT !.buffer = [c.buffer EXCEPT ![c.tail] = v],
              !.tail = (c.tail + 1) % c.capacity,
              !.count = c.count + 1]

WithoutItem(c) == [c EXCEPT !.head = (c.head + 1) % c.capacity, !.count = c.count - 1]

(* A put that finds space writes behind the last item. *)
LEMMA RingPut ==
    ASSUME NEW c, Ring(c), c.count < c.capacity, NEW v \in Item,
           NEW r, r = WithItem(c, v)
    PROVE  /\ Ring(r)
           /\ r.count = c.count + 1
           /\ r.get_waiters = c.get_waiters /\ r.put_waiters = c.put_waiters
           /\ r.buffer[Slot(r, c.count)] = v
           /\ \A i \in 0 .. c.count - 1 : r.buffer[Slot(r, i)] = c.buffer[Slot(c, i)]
<1> DEFINE n == ActualCapacity
<1>1. /\ n \in Nat /\ n > 0 /\ c.capacity = n
      /\ c.head \in 0 .. n - 1 /\ c.tail \in 0 .. n - 1 /\ c.count \in 0 .. n - 1
      /\ c.tail = Slot(c, c.count)
      /\ c \in ChannelState /\ c.buffer \in [Index -> Item \cup {NULL}]
      /\ \A i \in 0 .. c.count - 1 : c.buffer[Slot(c, i)] \in Item
  BY CapacityIsPositive DEF Ring, ChannelState, Index
<1>2. /\ r.buffer = [c.buffer EXCEPT ![c.tail] = v]
      /\ r.tail = (c.tail + 1) % n /\ r.count = c.count + 1
      /\ r.head = c.head /\ r.capacity = n
      /\ r.get_waiters = c.get_waiters /\ r.put_waiters = c.put_waiters
  BY <1>1 DEF ChannelState, WithItem
<1>3. \A i : Slot(r, i) = Slot(c, i)
  BY <1>2 DEF Slot
<1> HIDE DEF n
<1>4. /\ \A i \in 0 .. n : (c.head + i) % n \in 0 .. n - 1
      /\ \A i, j \in 0 .. n - 1 : (c.head + i) % n = (c.head + j) % n => i = j
      /\ \A i \in 0 .. n - 1 :
            /\ (((c.head + i) % n) + 1) % n = (c.head + (i + 1)) % n
            /\ (((c.head + 1) % n) + i) % n = (c.head + (i + 1)) % n
  <2>1. n \in Nat /\ n > 0 /\ c.head \in 0 .. n - 1
    BY <1>1
  <2> QED
    BY <2>1, RingArithmetic, Zenon
<1>5. /\ \A i \in 0 .. n : Slot(c, i) \in Index
      /\ \A i, j \in 0 .. n - 1 : Slot(c, i) = Slot(c, j) => i = j
      /\ (Slot(c, c.count) + 1) % n = Slot(c, c.count + 1)
  BY <1>1, <1>4 DEF Slot, Index, n
<1>6. r.tail \in Index /\ r.tail = Slot(r, r.count) /\ r.count \in 0 .. n
  <2>1. c.count + 1 \in 0 .. n
    BY <1>1
  <2> QED
    BY <2>1, <1>1, <1>2, <1>3, <1>5
<1>7. r.buffer \in [Index -> Item \cup {NULL}] /\ r.buffer[c.tail] = v
  BY <1>1, <1>2 DEF Index, n
<1>8. r.buffer[Slot(r, c.count)] = v
  BY <1>1, <1>3, <1>7
<1>9. ASSUME NEW i \in 0 .. c.count - 1
      PROVE  r.buffer[Slot(r, i)] = c.buffer[Slot(c, i)]
  <2>1. i \in 0 .. n - 1 /\ i \in 0 .. n /\ i # c.count
    BY <1>1
  <2>2. Slot(c, i) # c.tail /\ Slot(c, i) \in Index
    BY <2>1, <1>1, <1>5
  <2> QED
    BY <2>2, <1>1, <1>2, <1>3
<1>10. \A i \in 0 .. r.count - 1 : r.buffer[Slot(r, i)] \in Item
  <2>1. \A i \in 0 .. r.count - 1 : i = c.count \/ i \in 0 .. c.count - 1
    BY <1>1, <1>2
  <2> QED
    BY <2>1, <1>1, <1>8, <1>9
<1>11. r \in ChannelState
  <2> DEFINE a == [c EXCEPT !.buffer = r.buffer]
             b == [a EXCEPT !.tail = r.tail]
  <2>1. r = [b EXCEPT !.count = r.count]
    BY <1>2 DEF WithItem
  <2>2. r.tail \in Nat /\ r.count \in Nat
    BY <1>1, <1>6 DEF Index, n
  <2> QED
    BY <2>1, <2>2, <1>1, <1>7 DEF ChannelState, Index
<1>12. r.head \in Index
  BY <1>1, <1>2 DEF Index, n
<1>13. Ring(r)
  BY <1>2, <1>6, <1>10, <1>11, <1>12 DEF Ring, n
<1> QED
  BY <1>2, <1>8, <1>9, <1>13

(* A get that finds an item takes the one at head. *)
LEMMA RingGet ==
    ASSUME NEW c, Ring(c), c.count > 0, NEW r, r = WithoutItem(c)
    PROVE  /\ Ring(r)
           /\ r.count = c.count - 1
           /\ r.get_waiters = c.get_waiters /\ r.put_waiters = c.put_waiters
           /\ c.head = Slot(c, 0) /\ c.buffer[c.head] \in Item
           /\ \A i \in 0 .. r.count - 1 : r.buffer[Slot(r, i)] = c.buffer[Slot(c, i + 1)]
<1> DEFINE n == ActualCapacity
<1>1. /\ n \in Nat /\ n > 0 /\ c.capacity = n
      /\ c.head \in 0 .. n - 1 /\ c.tail \in 0 .. n - 1
      /\ c.count \in 0 .. n /\ c.count - 1 \in 0 .. n - 1
      /\ c.tail = Slot(c, c.count)
      /\ c \in ChannelState
      /\ \A i \in 0 .. c.count - 1 : c.buffer[Slot(c, i)] \in Item
  BY CapacityIsPositive DEF Ring, Index
<1>2. /\ r.head = (c.head + 1) % n /\ r.count = c.count - 1
      /\ r.tail = c.tail /\ r.capacity = n /\ r.buffer = c.buffer
      /\ r.get_waiters = c.get_waiters /\ r.put_waiters = c.put_waiters
  BY <1>1 DEF ChannelState, WithoutItem
<1> HIDE DEF n
<1>3. /\ \A i \in 0 .. n : (c.head + i) % n \in 0 .. n - 1
      /\ \A i \in 0 .. n - 1 :
            /\ (((c.head + i) % n) + 1) % n = (c.head + (i + 1)) % n
            /\ (((c.head + 1) % n) + i) % n = (c.head + (i + 1)) % n
  <2>1. n \in Nat /\ n > 0 /\ c.head \in 0 .. n - 1
    BY <1>1
  <2> QED
    BY <2>1, RingArithmetic, Zenon
<1>4. r.head \in 0 .. n - 1 /\ \A i \in 0 .. n - 1 : Slot(r, i) = Slot(c, i + 1)
  <2>1. 1 \in 0 .. n
    BY <1>1
  <2> QED
    BY <2>1, <1>2, <1>3 DEF Slot, n
<1>5. r.tail = Slot(r, r.count)
  <2>1. (c.count - 1) + 1 = c.count
    BY <1>1
  <2> QED
    BY <2>1, <1>1, <1>2, <1>4
<1>6. c.head = Slot(c, 0) /\ c.buffer[c.head] \in Item
  <2>1. c.head + 0 = c.head /\ c.head % n = c.head /\ 0 \in 0 .. c.count - 1
    BY <1>1
  <2>2. c.head = Slot(c, 0)
    BY <2>1 DEF Slot, n
  <2> QED
    BY <2>1, <2>2, <1>1
<1>7. \A i \in 0 .. r.count - 1 : r.buffer[Slot(r, i)] = c.buffer[Slot(c, i + 1)]
  <2>1. \A i \in 0 .. r.count - 1 : i \in 0 .. n - 1
    BY <1>1, <1>2
  <2> QED
    BY <2>1, <1>2, <1>4
<1>8. \A i \in 0 .. r.count - 1 : r.buffer[Slot(r, i)] \in Item
  <2>1. \A i \in 0 .. r.count - 1 : i + 1 \in 0 .. c.count - 1
    BY <1>1, <1>2
  <2> QED
    BY <2>1, <1>1, <1>7
<1>9. r \in ChannelState
  <2> DEFINE a == [c EXCEPT !.head = r.head]
  <2>1. r = [a EXCEPT !.count = r.count]
    BY <1>2 DEF WithoutItem
  <2>2. r.head \in Nat /\ r.count \in Nat
    BY <1>1, <1>2, <1>4
  <2> QED
    BY <2>1, <2>2, <1>1 DEF ChannelState
<1>10. r.head \in Index /\ r.tail \in Index /\ r.count \in 0 .. n
  BY <1>1, <1>2, <1>4 DEF Index, n
<1>11. Ring(r)
  BY <1>2, <1>5, <1>8, <1>9, <1>10 DEF Ring, n
<1> QED
  BY <1>2, <1>6, <1>7, <1>11

-----------------------------------------------------------------------------
(* The inductive invariant of the channel. *)

(* The frames of put and get tasks. *)
Ops == {NoOp, GetOp} \cup {PutOp(v) : v \in Item}

(* The type of what belongs to the tasks and not to the ring. *)
TasksOK ==
    /\ op \in [Thread -> Ops]
    /\ rval \in [Thread -> Item \cup {NULL}]
    /\ notify \in {"none", "get", "put"}

(* A thread is on a wait list if and only if it waits there. *)
WaitersAreListed ==
    /\ WaitList(tb.next, ch.get_waiters, Waiters("get"))
    /\ WaitList(tb.next, ch.put_waiters, Waiters("put"))
    /\ \A t \in parked : op[t] # NoOp

ChannelInv ==
    /\ Inv
    /\ Ring(ch)
    /\ TasksOK
    /\ WaitersAreListed
    /\ NoLostWakeup

(* A frame is known by its kind. *)
LEMMA OpKinds ==
    ASSUME NEW o \in Ops
    PROVE  /\ o = NoOp <=> o.kind = "none"
           /\ o = GetOp <=> o.kind = "get"
           /\ o.kind = "put" => o.data \in Item /\ o = PutOp(o.data)
           /\ o.kind \in {"none", "get", "put"}
BY DEF Ops, NoOp, GetOp, PutOp

(* A call that ends in the same activation. *)
LEMMA StaysInv ==
    ASSUME Inv, UNCHANGED <<created, exec, pc, end_ticks>>,
           Consistent(tb', created, parked', OnStack(exec))
    PROVE  Inv'
BY DEF Inv

(* A call after which the task leaves the processor. *)
LEMMA LeavesInv ==
    ASSUME Inv, NEW s, NEW t \in Thread, Executing(t), Leave(s, t), UNCHANGED created,
           Consistent(tb', created, parked', OnStack(exec) \ {t})
    PROVE  Inv'
BY LeaveStep DEF Inv

(* A step that moves no waiting thread leaves the lists as they are. *)
LEMMA WaitersKept ==
    ASSUME WaitersAreListed, UNCHANGED parked, KeepsLinks(tb, tb', parked),
           \A t \in parked : op'[t] = op[t],
           ch'.get_waiters = ch.get_waiters, ch'.put_waiters = ch.put_waiters
    PROVE  /\ WaitersAreListed'
           /\ Waiters("get")' = Waiters("get") /\ Waiters("put")' = Waiters("put")
<1>1. Waiters("get")' = Waiters("get") /\ Waiters("put")' = Waiters("put")
  BY DEF Waiters
<1>2. /\ \A u \in Waiters("get") : tb'.next[u] = tb.next[u]
      /\ \A u \in Waiters("put") : tb'.next[u] = tb.next[u]
  BY DEF Waiters, KeepsLinks
<1>3. WaitList(tb'.next, ch'.get_waiters, Waiters("get"))
  BY <1>2, SameWaitList DEF WaitersAreListed
<1>4. WaitList(tb'.next, ch'.put_waiters, Waiters("put"))
  BY <1>2, SameWaitList DEF WaitersAreListed
<1>5. \A t \in parked' : op'[t] # NoOp
  BY DEF WaitersAreListed
<1> QED
  BY <1>1, <1>3, <1>4, <1>5 DEF WaitersAreListed

(* The timebase without threads, the ring without items, empty lists. *)
LEMMA InitChannelInv == ChannelInit => ChannelInv
<1> SUFFICES ASSUME ChannelInit PROVE ChannelInv
  OBVIOUS
<1> DEFINE c == zsp_channel_init_capacity
           n == ActualCapacity
<1>1. Inv
  BY InitInv DEF ChannelInit
<1>2. /\ c.capacity = n /\ c.head = 0 /\ c.tail = 0 /\ c.count = 0
      /\ c.get_waiters = NULL /\ c.put_waiters = NULL
      /\ c \in ChannelState
  BY CapacityIsPositive DEF zsp_channel_init_capacity, ChannelState
<1>3. n \in Nat /\ n > 0
  BY CapacityIsPositive
<1>4. ch = c /\ notify = "none" /\ parked = {} /\ op = [t \in Thread |-> NoOp]
      /\ rval = [t \in Thread |-> NULL]
  BY DEF ChannelInit, Init
<1> HIDE DEF c
<1>5. Ring(c)
  <2> HIDE DEF n
  <2>1. 0 \in 0 .. n - 1 /\ 0 \in 0 .. n /\ 0 = (0 + 0) % n
    BY <1>3
  <2>2. c.tail = Slot(c, c.count) /\ c.head \in Index /\ c.tail \in Index
    BY <1>2, <2>1 DEF Slot, Index, n
  <2>3. c.count \in 0 .. n /\ \A i \in 0 .. c.count - 1 : FALSE
    BY <1>2, <2>1
  <2> QED
    BY <1>2, <2>2, <2>3 DEF Ring, n
<1>6. TasksOK
  BY <1>4 DEF TasksOK, Ops
<1>7. Waiters("get") = {} /\ Waiters("put") = {}
  BY <1>4 DEF Waiters
<1>8. WaitersAreListed
  BY <1>2, <1>4, <1>7, EmptyWaitList DEF WaitersAreListed
<1>9. NoLostWakeup
  BY <1>7 DEF NoLostWakeup
<1> QED
  BY <1>1, <1>4, <1>5, <1>6, <1>8, <1>9 DEF ChannelInv

(* What the timebase and the tasks do between calls of the channel. *)
LEMMA OutsideKeepsInv ==
    ASSUME ChannelInv, TimebaseStep \/ \E t \in Thread : TaskItself(t)
    PROVE  ChannelInv'
<1>1. Inv' /\ parked' = parked /\ KeepsLinks(tb, tb', parked)
  BY TimebaseStepKeeps, TaskItselfKeeps DEF ChannelInv
<1>2. UNCHANGED chvars
  BY DEF TimebaseStep, TaskItself
<1>3. /\ WaitersAreListed'
      /\ Waiters("get")' = Waiters("get") /\ Waiters("put")' = Waiters("put")
  BY <1>1, <1>2, WaitersKept DEF ChannelInv, chvars
<1> QED
  BY <1>1, <1>2, <1>3 DEF ChannelInv, chvars, TasksOK, NoLostWakeup

(* The thread whose code executes is on no wait list, whatever its frame.  *)
LEMMA FrameOfExecuting ==
    ASSUME Inv, NEW t \in Thread, Executing(t), NEW o,
           op \in [Thread -> Ops], op' = [op EXCEPT ![t] = o]
    PROVE  \A u \in parked : op'[u] = op[u]
<1>1. \A u \in parked : u \in Thread /\ u # t
  BY ExecutingThread DEF Inv, Consistent
<1> QED
  BY <1>1

(* No thread waits for data while there is some, unless it is being woken. *)
LEMMA NobodyWaits ==
    ASSUME ChannelInv, notify = "none"
    PROVE  /\ ch.count \in Nat
           /\ CanPut => Waiters("put") = {}
           /\ CanGet => Waiters("get") = {}
           /\ ~CanPut => ch.count = ch.capacity
           /\ ~CanGet => ch.count = 0
<1>1. ch.count \in 0 .. ActualCapacity /\ ch.capacity = ActualCapacity
  BY DEF ChannelInv, Ring
<1>2. ActualCapacity \in Nat
  BY CapacityIsPositive
<1> QED
  BY <1>1, <1>2 DEF ChannelInv, NoLostWakeup, CanPut, CanGet

(* The part of a put, or a get, up to its loop: nobody waits on the other  *)
(* side, and those of its own side are about to be woken.                  *)
LEMMA TransfersKeepInv ==
    ASSUME ChannelInv, notify = "none",
           \/ CanPut /\ \E v \in Item : zsp_channel_try_put(v)
           \/ CanGet /\ zsp_channel_try_get,
           UNCHANGED parked, KeepsLinks(tb, tb', parked), Inv',
           op' \in [Thread -> Ops], \A t \in parked : op'[t] = op[t],
           rval' \in [Thread -> Item \cup {NULL}]
    PROVE  ChannelInv'
<1>1. /\ Ring(ch) /\ WaitersAreListed /\ NoLostWakeup
      /\ CanPut => Waiters("put") = {}
      /\ CanGet => Waiters("get") = {}
  BY NobodyWaits DEF ChannelInv
<1>2. ASSUME CanPut, NEW v \in Item, zsp_channel_try_put(v)
      PROVE  /\ Ring(ch') /\ notify' = "get" /\ Waiters("put") = {}
             /\ ch'.get_waiters = ch.get_waiters /\ ch'.put_waiters = ch.put_waiters
  <2>1. Ring(ch) /\ ch.count < ch.capacity
    BY <1>1, <1>2 DEF CanPut
  <2>2. ch' = WithItem(ch, v) /\ notify' = "get"
    BY <1>2 DEF zsp_channel_try_put, WithItem
  <2>3. /\ Ring(ch')
        /\ ch'.get_waiters = ch.get_waiters /\ ch'.put_waiters = ch.put_waiters
    BY <2>1, <2>2, RingPut
  <2> QED
    BY <1>1, <1>2, <2>2, <2>3
<1>3. ASSUME CanGet, zsp_channel_try_get
      PROVE  /\ Ring(ch') /\ notify' = "put" /\ Waiters("get") = {}
             /\ ch'.get_waiters = ch.get_waiters /\ ch'.put_waiters = ch.put_waiters
  BY <1>1, <1>3, RingGet DEF zsp_channel_try_get, CanGet, WithoutItem
<1>4. /\ Ring(ch')
      /\ \/ notify' = "get" /\ Waiters("put") = {}
         \/ notify' = "put" /\ Waiters("get") = {}
      /\ ch'.get_waiters = ch.get_waiters /\ ch'.put_waiters = ch.put_waiters
  BY <1>2, <1>3
<1>5. /\ WaitersAreListed'
      /\ Waiters("get")' = Waiters("get") /\ Waiters("put")' = Waiters("put")
  BY <1>1, <1>4, WaitersKept
<1>6. NoLostWakeup'
  BY <1>4, <1>5 DEF NoLostWakeup
<1>7. TasksOK'
  BY <1>4 DEF TasksOK
<1>8. Ring(ch)'
  BY <1>4
<1> QED
  BY <1>5, <1>6, <1>7, <1>8 DEF ChannelInv

(* Nothing outside the channel changes. *)
LEMMA LinksStay == ASSUME NEW s, NEW P PROVE KeepsLinks(s, s, P)
BY DEF KeepsLinks

(* The fields a call of zsp_channel_alloc_frame changes. *)
LEMMA WithFrameKeeps ==
    ASSUME Inv, NEW t \in Thread, Executing(t)
    PROVE  /\ Consistent(WithFrame(t), created, parked, OnStack(exec))
           /\ WithFrame(t).next = tb.next
<1>1. /\ t \in OnStack(exec) /\ tb \in TimebaseState
      /\ tb.leaf[t] + 1 \in Nat /\ tb.leaf[t] + 1 > 0
      /\ Consistent(tb, created, parked, OnStack(exec))
  BY ExecutingThread DEF Inv
<1>2. WithFrame(t) = [tb EXCEPT !.leaf = [tb.leaf EXCEPT ![t] = tb.leaf[t] + 1]]
  BY DEF WithFrame
<1>3. Consistent(WithFrame(t), created, parked, OnStack(exec))
  BY <1>1, <1>2, SetsLeaf
<1> QED
  BY <1>1, <1>2, <1>3 DEF TimebaseState

(* The non-blocking calls. *)
LEMMA TryKeepsInv ==
    ASSUME ChannelInv, TryGet \/ \E v \in Item : TryPut(v)
    PROVE  ChannelInv'
<1>1. /\ notify = "none" /\ UNCHANGED <<vars, op, rval>>
      /\ \/ CanPut /\ \E v \in Item : zsp_channel_try_put(v)
         \/ CanGet /\ zsp_channel_try_get
  BY DEF TryGet, TryPut
<1>2. Inv'
  BY <1>1, NextInv DEF ChannelInv
<1>3. UNCHANGED parked /\ KeepsLinks(tb, tb', parked)
  BY <1>1, LinksStay DEF vars
<1>4. /\ op' \in [Thread -> Ops] /\ \A t \in parked : op'[t] = op[t]
      /\ rval' \in [Thread -> Item \cup {NULL}]
  BY <1>1 DEF ChannelInv, TasksOK
<1> QED
  BY <1>1, <1>2, <1>3, <1>4, TransfersKeepInv

(* A put or get task that finds space or data. *)
LEMMA TaskTransfersKeepInv ==
    ASSUME ChannelInv, NEW t \in Thread, Executing(t), notify = "none",
           NEW o \in Ops, op' = [op EXCEPT ![t] = o],
           tb' \in {tb, WithFrame(t)}, UNCHANGED <<created, parked, exec, pc, end_ticks>>,
           \/ /\ CanPut /\ \E v \in Item : zsp_channel_try_put(v)
              /\ UNCHANGED rval
           \/ /\ CanGet /\ zsp_channel_try_get
              /\ rval' = [rval EXCEPT ![t] = FirstItem]
    PROVE  ChannelInv'
<1>1. Inv /\ Ring(ch) /\ TasksOK
  BY DEF ChannelInv
<1>2. Inv' /\ KeepsLinks(tb, tb', parked)
  <2>1. /\ Consistent(tb, created, parked, OnStack(exec))
        /\ Consistent(WithFrame(t), created, parked, OnStack(exec))
        /\ WithFrame(t).next = tb.next
    BY <1>1, WithFrameKeeps DEF Inv
  <2>2. Consistent(tb', created, parked', OnStack(exec)) /\ tb'.next = tb.next
    BY <2>1
  <2> QED
    BY <1>1, <2>2, StaysInv DEF KeepsLinks
<1>3. op' \in [Thread -> Ops] /\ \A u \in parked : op'[u] = op[u]
  BY <1>1, FrameOfExecuting DEF TasksOK
<1>4. rval' \in [Thread -> Item \cup {NULL}]
  <2>1. CanGet => FirstItem \in Item
    BY <1>1, RingGet DEF CanGet, FirstItem
  <2> QED
    BY <1>1, <2>1 DEF TasksOK
<1> QED
  BY <1>2, <1>3, <1>4, TransfersKeepInv

(* The turns of the loops. *)
LEMMA NotifyKeepsInv ==
    ASSUME ChannelInv,
           zsp_channel_notify_get_waiters \/ zsp_channel_notify_put_waiters
    PROVE  ChannelInv'
<1>1. /\ Inv /\ Ring(ch) /\ TasksOK /\ WaitersAreListed
      /\ Consistent(tb, created, parked, OnStack(exec))
      /\ tb.next \in [Thread -> Thread \cup {NULL}]
  BY Fields DEF ChannelInv, Inv, Consistent
<1>2. Waiters("get") \subseteq parked /\ Waiters("put") \subseteq parked
  BY DEF Waiters
<1>3. \A u : ~(u \in Waiters("get") /\ u \in Waiters("put"))
  BY DEF Waiters
<1>4. CASE zsp_channel_notify_get_waiters
  <2> DEFINE t == ch.get_waiters
             r == Woken(tb, t)
             W == Waiters("get")
             V == Waiters("put")
  <2>1. /\ notify = "get" /\ t # NULL
        /\ ch' = [ch EXCEPT !.get_waiters = tb.next[t]]
        /\ tb' = r /\ parked' = parked \ {t}
        /\ UNCHANGED <<created, exec, pc, end_ticks, op, rval, notify>>
    BY <1>4 DEF zsp_channel_notify_get_waiters, GettersToWake, Woken
  <2>2. WaitList(tb.next, t, W) /\ WaitList(tb.next, ch.put_waiters, V)
    BY <1>1 DEF WaitersAreListed
  <2>3. /\ t \in W
        /\ Consistent(r, created, parked \ {t}, OnStack(exec))
        /\ WaitList(r.next, tb.next[t], W \ {t})
        /\ \A u \in parked \ {t} : r.next[u] = tb.next[u]
    <3>1. W \in SUBSET parked /\ t # NULL
      BY <1>2, <2>1
    <3>2. Consistent(tb, created, parked, OnStack(exec)) /\ WaitList(tb.next, t, W)
      BY <1>1, <2>2
    <3> HIDE DEF t, W
    <3>3. t \in W
      BY <3>1, <3>2, Delists
    <3>4. Consistent(Woken(tb, t), created, parked \ {t}, OnStack(exec))
      BY <3>1, <3>2, Delists
    <3>5. WaitList(Woken(tb, t).next, tb.next[t], W \ {t})
      BY <3>1, <3>2, Delists, Zenon
    <3>6. KeepsLinks(tb, Woken(tb, t), parked \ {t})
      BY <3>1, <3>2, Delists, Zenon
    <3> QED
      BY <3>3, <3>4, <3>5, <3>6 DEF KeepsLinks
  <2>4. Inv'
    BY <1>1, <2>1, <2>3, StaysInv
  <2>5. Waiters("get")' = W \ {t} /\ Waiters("put")' = V
    BY <1>3, <2>1, <2>3 DEF Waiters
  <2>6. tb.next[t] \in Thread \cup {NULL}
    <3>1. t \in Thread
      BY <1>2, <2>3 DEF ChannelInv, Inv, Consistent
    <3> QED
      BY <1>1, <3>1
  <2>7. /\ Ring(ch') /\ ch'.count = ch.count /\ ch'.capacity = ch.capacity
        /\ ch'.get_waiters = tb.next[t] /\ ch'.put_waiters = ch.put_waiters
    BY <1>1, <2>1, <2>6 DEF Ring, Slot, ChannelState
  <2> HIDE DEF t, W, V, r
  <2>8. WaitList(tb'.next, ch'.get_waiters, Waiters("get")')
    BY <2>1, <2>3, <2>5, <2>7
  <2>9. WaitList(tb'.next, ch'.put_waiters, Waiters("put")')
    <3>1. \A u \in V : tb'.next[u] = tb.next[u]
      BY <1>2, <1>3, <2>1, <2>3 DEF V, W
    <3> QED
      BY <2>2, <2>5, <2>7, <3>1, SameWaitList
  <2>10. WaitersAreListed'
    BY <1>1, <2>1, <2>8, <2>9 DEF WaitersAreListed
  <2>11. NoLostWakeup'
    BY <2>1, <2>5, <2>7 DEF ChannelInv, NoLostWakeup, V
  <2>12. TasksOK'
    BY <1>1, <2>1 DEF TasksOK
  <2>13. Ring(ch)'
    BY <2>7
  <2> QED
    BY <2>4, <2>10, <2>11, <2>12, <2>13 DEF ChannelInv
<1>5. CASE zsp_channel_notify_put_waiters
  <2> DEFINE t == ch.put_waiters
             r == Woken(tb, t)
             W == Waiters("put")
             V == Waiters("get")
  <2>1. /\ notify = "put" /\ t # NULL
        /\ ch' = [ch EXCEPT !.put_waiters = tb.next[t]]
        /\ tb' = r /\ parked' = parked \ {t}
        /\ UNCHANGED <<created, exec, pc, end_ticks, op, rval, notify>>
    BY <1>5 DEF zsp_channel_notify_put_waiters, PuttersToWake, Woken
  <2>2. WaitList(tb.next, t, W) /\ WaitList(tb.next, ch.get_waiters, V)
    BY <1>1 DEF WaitersAreListed
  <2>3. /\ t \in W
        /\ Consistent(r, created, parked \ {t}, OnStack(exec))
        /\ WaitList(r.next, tb.next[t], W \ {t})
        /\ \A u \in parked \ {t} : r.next[u] = tb.next[u]
    <3>1. W \in SUBSET parked /\ t # NULL
      BY <1>2, <2>1
    <3>2. Consistent(tb, created, parked, OnStack(exec)) /\ WaitList(tb.next, t, W)
      BY <1>1, <2>2
    <3> HIDE DEF t, W
    <3>3. t \in W
      BY <3>1, <3>2, Delists
    <3>4. Consistent(Woken(tb, t), created, parked \ {t}, OnStack(exec))
      BY <3>1, <3>2, Delists
    <3>5. WaitList(Woken(tb, t).next, tb.next[t], W \ {t})
      BY <3>1, <3>2, Delists, Zenon
    <3>6. KeepsLinks(tb, Woken(tb, t), parked \ {t})
      BY <3>1, <3>2, Delists, Zenon
    <3> QED
      BY <3>3, <3>4, <3>5, <3>6 DEF KeepsLinks
  <2>4. Inv'
    BY <1>1, <2>1, <2>3, StaysInv
  <2>5. Waiters("put")' = W \ {t} /\ Waiters("get")' = V
    BY <1>3, <2>1, <2>3 DEF Waiters
  <2>6. tb.next[t] \in Thread \cup {NULL}
    <3>1. t \in Thread
      BY <1>2, <2>3 DEF ChannelInv, Inv, Consistent
    <3> QED
      BY <1>1, <3>1
  <2>7. /\ Ring(ch') /\ ch'.count = ch.count /\ ch'.capacity = ch.capacity
        /\ ch'.put_waiters = tb.next[t] /\ ch'.get_waiters = ch.get_waiters
    BY <1>1, <2>1, <2>6 DEF Ring, Slot, ChannelState
  <2> HIDE DEF t, W, V, r
  <2>8. WaitList(tb'.next, ch'.put_waiters, Waiters("put")')
    BY <2>1, <2>3, <2>5, <2>7
  <2>9. WaitList(tb'.next, ch'.get_waiters, Waiters("get")')
    <3>1. \A u \in V : tb'.next[u] = tb.next[u]
      BY <1>2, <1>3, <2>1, <2>3 DEF V, W
    <3> QED
      BY <2>2, <2>5, <2>7, <3>1, SameWaitList
  <2>10. WaitersAreListed'
    BY <1>1, <2>1, <2>8, <2>9 DEF WaitersAreListed
  <2>11. NoLostWakeup'
    BY <2>1, <2>5, <2>7 DEF ChannelInv, NoLostWakeup, V
  <2>12. TasksOK'
    BY <1>1, <2>1 DEF TasksOK
  <2>13. Ring(ch)'
    BY <2>7
  <2> QED
    BY <2>4, <2>10, <2>11, <2>12, <2>13 DEF ChannelInv
<1> QED
  BY <1>4, <1>5

(* A loop ends with no waiter left, or with nothing to be woken for.       *)
LEMMA LoopEndKeepsInv ==
    ASSUME ChannelInv, LoopEnds, notify' = "none", UNCHANGED <<ch, rval, parked>>,
           Inv', KeepsLinks(tb, tb', parked),
           op' \in [Thread -> Ops], \A t \in parked : op'[t] = op[t]
    PROVE  ChannelInv'
<1>1. Ring(ch) /\ WaitersAreListed /\ NoLostWakeup /\ TasksOK
  BY DEF ChannelInv
<1>2. /\ WaitersAreListed'
      /\ Waiters("get")' = Waiters("get") /\ Waiters("put")' = Waiters("put")
  BY <1>1, WaitersKept
<1>3. NoLostWakeup'
  <2>1. /\ ch.count \in 0 .. ActualCapacity /\ ch.capacity = ActualCapacity
        /\ ActualCapacity \in Nat
    BY <1>1, CapacityIsPositive DEF Ring
  <2>2. /\ ch.get_waiters = NULL => Waiters("get") = {}
        /\ ch.put_waiters = NULL => Waiters("put") = {}
    BY <1>1, EmptyWaitList DEF WaitersAreListed
  <2>3. CASE notify = "get" /\ ~GettersToWake
    <3>1. Waiters("get") # {} => ch.count = 0
      BY <2>1, <2>2, <2>3 DEF GettersToWake
    <3> QED
      BY <1>1, <1>2, <2>3, <3>1 DEF NoLostWakeup
  <2>4. CASE notify = "put" /\ ~PuttersToWake
    <3>1. Waiters("put") # {} => ch.count = ch.capacity
      BY <2>1, <2>2, <2>4 DEF PuttersToWake
    <3> QED
      BY <1>1, <1>2, <2>4, <3>1 DEF NoLostWakeup
  <2> QED
    BY <2>3, <2>4 DEF LoopEnds
<1>4. TasksOK'
  BY <1>1 DEF TasksOK
<1>5. Ring(ch)'
  BY <1>1
<1> QED
  BY <1>2, <1>3, <1>4, <1>5 DEF ChannelInv

(* The end of a non-blocking call. *)
LEMMA TryReturnsKeepsInv == ASSUME ChannelInv, TryReturns PROVE ChannelInv'
<1>1. LoopEnds /\ notify' = "none" /\ UNCHANGED <<vars, ch, op, rval>>
  BY DEF TryReturns
<1>2. Inv'
  BY <1>1, NextInv DEF ChannelInv
<1>3. UNCHANGED parked /\ KeepsLinks(tb, tb', parked)
  BY <1>1, LinksStay DEF vars
<1>4. op' \in [Thread -> Ops] /\ \A t \in parked : op'[t] = op[t]
  BY <1>1 DEF ChannelInv, TasksOK
<1> QED
  BY <1>1, <1>2, <1>3, <1>4, LoopEndKeepsInv

(* The end of a put or get task, and perhaps of its thread's activation.   *)
LEMMA ChannelTaskReturnsKeepsInv ==
    ASSUME ChannelInv, NEW t \in Thread, ChannelTaskReturns(t)
    PROVE  ChannelInv'
<1> DEFINE X == OnStack(exec)
           r == zsp_timebase_return(tb, t)
<1>1. /\ LoopEnds /\ Executing(t) /\ notify' = "none"
      /\ op' = [op EXCEPT ![t] = NoOp]
      /\ UNCHANGED <<created, parked, ch, rval>>
  BY DEF ChannelTaskReturns
<1>2. /\ Inv /\ Consistent(tb, created, parked, X)
      /\ t \in X /\ tb \in TimebaseState /\ tb.leaf[t] > 0 /\ tb.leaf[t] \in Nat
  BY <1>1, ExecutingThread DEF ChannelInv, Inv
<1>3. NoOp \in Ops /\ op \in [Thread -> Ops]
  BY DEF ChannelInv, TasksOK, Ops
<1>4. op' \in [Thread -> Ops] /\ \A u \in parked : op'[u] = op[u]
  BY <1>1, <1>2, <1>3, FrameOfExecuting
<1>5. 0 \in Nat
  OBVIOUS
<1>6. CASE ReturnContinues(tb, t)
  <2>1. tb' = r /\ UNCHANGED <<exec, pc, end_ticks>>
    BY <1>6 DEF ChannelTaskReturns
  <2>2. Consistent(r, created, parked, X)
    BY <1>2, <1>6, Returns DEF ReturnContinues
  <2>3. Inv'
    BY <1>1, <1>2, <2>1, <2>2, StaysInv
  <2>4. r.next = tb.next
    BY <1>2, <1>5, CallsKeepNext
  <2>5. KeepsLinks(tb, tb', parked)
    BY <2>1, <2>4 DEF KeepsLinks
  <2> QED
    BY <1>1, <1>4, <2>3, <2>5, LoopEndKeepsInv
<1>7. CASE ~ReturnContinues(tb, t)
  <2>1. Leave(r, t)
    BY <1>7 DEF ChannelTaskReturns
  <2>2. Consistent(FinishActivation(r, t), created, parked, X \ {t})
    <3>1. CASE tb.leaf[t] = 1
      BY <1>2, <3>1, Completes
    <3>2. CASE tb.leaf[t] # 1
      <4>1. Consistent(r, created, parked, X)
        BY <1>2, <3>2, Returns
      <4> QED
        BY <1>2, <4>1, Finishes
    <3> QED
      BY <3>1, <3>2
  <2>3. Inv'
    BY <1>1, <1>2, <2>1, <2>2, LeavesInv DEF Leave
  <2>4. KeepsLinks(tb, tb', parked)
    BY <1>1, <1>2, <1>5, <2>1, LeaveKeepsLinks
  <2> QED
    BY <1>1, <1>4, <2>3, <2>4, LoopEndKeepsInv
<1> QED
  BY <1>6, <1>7

(* A get task that finds no data: it is behind the others that wait for it. *)
LEMMA GetWaitsKeepsInv ==
    ASSUME ChannelInv, NEW t \in Thread, Executing(t), notify = "none", ~CanGet,
           NEW s \in {tb, WithFrame(t)},
           Waiting(t, GetOp, zsp_channel_add_get_waiter(s, t))
    PROVE  ChannelInv'
<1> DEFINE X == OnStack(exec)
           W == Waiters("get")
           V == Waiters("put")
           first == ch.get_waiters
           head == IF first = NULL THEN t ELSE first
           m == AddWaiter(s, first, t)
           r == FinishActivation(m, t)
<1>1. /\ Inv /\ Ring(ch) /\ TasksOK /\ WaitersAreListed /\ NoLostWakeup
      /\ t \in X /\ t \notin parked /\ op \in [Thread -> Ops]
  BY ExecutingThread DEF ChannelInv, TasksOK
<1>2. Consistent(s, created, parked, X) /\ s.next = tb.next
  BY <1>1, WithFrameKeeps DEF Inv
<1>3. /\ ch' = [ch EXCEPT !.get_waiters = head]
      /\ op' = [op EXCEPT ![t] = GetOp]
      /\ parked' = parked \cup {t} /\ Leave(m, t)
      /\ UNCHANGED <<created, rval, notify>>
  BY DEF Waiting, zsp_channel_add_get_waiter
<1>4. W \in SUBSET parked /\ V \subseteq parked /\ \A u \in V : u \notin W
  BY DEF Waiters
<1>5. WaitList(s.next, first, W) /\ WaitList(tb.next, ch.put_waiters, V)
  BY <1>1, <1>2 DEF WaitersAreListed
<1>6. /\ Consistent(r, created, parked \cup {t}, X \ {t})
      /\ WaitList(r.next, head, W \cup {t})
      /\ KeepsLinks(s, r, parked \ W)
  <2> HIDE DEF W, X, first
  <2> QED
    BY <1>1, <1>2, <1>4, <1>5, Enlists
<1>7. tb' = r
  BY <1>1, <1>3, LeaveStep
<1>8. Inv'
  BY <1>1, <1>3, <1>6, <1>7, LeavesInv
<1>9. /\ op' \in [Thread -> Ops] /\ op'[t] = GetOp
      /\ \A u \in parked : op'[u] = op[u] /\ u # t
  <2>1. GetOp \in Ops
    BY DEF Ops
  <2> QED
    BY <1>1, <1>3, <2>1, FrameOfExecuting
<1>10. Waiters("get")' = W \cup {t} /\ Waiters("put")' = V
  BY <1>3, <1>9 DEF Waiters, GetOp
<1>11. /\ Ring(ch') /\ ch'.get_waiters = head /\ ch'.put_waiters = ch.put_waiters
       /\ ch'.count = ch.count /\ ch'.capacity = ch.capacity
  <2>1. head \in Thread \cup {NULL}
    BY <1>1 DEF Ring, ChannelState
  <2> HIDE DEF head
  <2> QED
    BY <1>1, <1>3, <2>1 DEF Ring, Slot, ChannelState
<1> HIDE DEF r, m, W, V, head, X, first
<1>12. WaitersAreListed'
  <2>1. WaitList(tb'.next, ch'.get_waiters, Waiters("get")')
    BY <1>6, <1>7, <1>10, <1>11
  <2>2. \A u \in V : tb'.next[u] = tb.next[u]
    BY <1>2, <1>4, <1>6, <1>7 DEF KeepsLinks
  <2>3. WaitList(tb'.next, ch'.put_waiters, Waiters("put")')
    BY <1>5, <1>10, <1>11, <2>2, SameWaitList
  <2>4. \A u \in parked' : op'[u] # NoOp
    BY <1>1, <1>3, <1>9 DEF WaitersAreListed, GetOp, NoOp
  <2> QED
    BY <2>1, <2>3, <2>4 DEF WaitersAreListed
<1>13. NoLostWakeup'
  <2>1. ch.count = 0
    BY NobodyWaits
  <2> QED
    BY <1>1, <1>3, <1>10, <1>11, <2>1 DEF NoLostWakeup, V
<1>14. TasksOK'
  BY <1>1, <1>3, <1>9 DEF TasksOK
<1>15. Ring(ch)'
  BY <1>11
<1> QED
  BY <1>8, <1>12, <1>13, <1>14, <1>15 DEF ChannelInv

(* A put task that finds no space. *)
LEMMA PutWaitsKeepsInv ==
    ASSUME ChannelInv, NEW t \in Thread, Executing(t), notify = "none", ~CanPut,
           NEW s \in {tb, WithFrame(t)}, NEW v \in Item,
           Waiting(t, PutOp(v), zsp_channel_add_put_waiter(s, t))
    PROVE  ChannelInv'
<1> DEFINE X == OnStack(exec)
           W == Waiters("put")
           V == Waiters("get")
           first == ch.put_waiters
           head == IF first = NULL THEN t ELSE first
           m == AddWaiter(s, first, t)
           r == FinishActivation(m, t)
<1>1. /\ Inv /\ Ring(ch) /\ TasksOK /\ WaitersAreListed /\ NoLostWakeup
      /\ t \in X /\ t \notin parked /\ op \in [Thread -> Ops]
  BY ExecutingThread DEF ChannelInv, TasksOK
<1>2. Consistent(s, created, parked, X) /\ s.next = tb.next
  BY <1>1, WithFrameKeeps DEF Inv
<1>3. /\ ch' = [ch EXCEPT !.put_waiters = head]
      /\ op' = [op EXCEPT ![t] = PutOp(v)]
      /\ parked' = parked \cup {t} /\ Leave(m, t)
      /\ UNCHANGED <<created, rval, notify>>
  BY DEF Waiting, zsp_channel_add_put_waiter
<1>4. W \in SUBSET parked /\ V \subseteq parked /\ \A u \in V : u \notin W
  BY DEF Waiters
<1>5. WaitList(s.next, first, W) /\ WaitList(tb.next, ch.get_waiters, V)
  BY <1>1, <1>2 DEF WaitersAreListed
<1>6. /\ Consistent(r, created, parked \cup {t}, X \ {t})
      /\ WaitList(r.next, head, W \cup {t})
      /\ KeepsLinks(s, r, parked \ W)
  <2> HIDE DEF W, X, first
  <2> QED
    BY <1>1, <1>2, <1>4, <1>5, Enlists
<1>7. tb' = r
  BY <1>1, <1>3, LeaveStep
<1>8. Inv'
  BY <1>1, <1>3, <1>6, <1>7, LeavesInv
<1>9. /\ op' \in [Thread -> Ops] /\ op'[t] = PutOp(v)
      /\ \A u \in parked : op'[u] = op[u] /\ u # t
  <2>1. PutOp(v) \in Ops
    BY DEF Ops
  <2> QED
    BY <1>1, <1>3, <2>1, FrameOfExecuting
<1>10. Waiters("put")' = W \cup {t} /\ Waiters("get")' = V
  BY <1>3, <1>9 DEF Waiters, PutOp
<1>11. /\ Ring(ch') /\ ch'.put_waiters = head /\ ch'.get_waiters = ch.get_waiters
       /\ ch'.count = ch.count /\ ch'.capacity = ch.capacity
  <2>1. head \in Thread \cup {NULL}
    BY <1>1 DEF Ring, ChannelState
  <2> HIDE DEF head
  <2> QED
    BY <1>1, <1>3, <2>1 DEF Ring, Slot, ChannelState
<1> HIDE DEF r, m, W, V, head, X, first
<1>12. WaitersAreListed'
  <2>1. WaitList(tb'.next, ch'.put_waiters, Waiters("put")')
    BY <1>6, <1>7, <1>10, <1>11
  <2>2. \A u \in V : tb'.next[u] = tb.next[u]
    BY <1>2, <1>4, <1>6, <1>7 DEF KeepsLinks
  <2>3. WaitList(tb'.next, ch'.get_waiters, Waiters("get")')
    BY <1>5, <1>10, <1>11, <2>2, SameWaitList
  <2>4. \A u \in parked' : op'[u] # NoOp
    BY <1>1, <1>3, <1>9 DEF WaitersAreListed, PutOp, NoOp
  <2> QED
    BY <2>1, <2>3, <2>4 DEF WaitersAreListed
<1>13. NoLostWakeup'
  <2>1. ch.count = ch.capacity
    BY NobodyWaits
  <2> QED
    BY <1>1, <1>3, <1>10, <1>11, <2>1 DEF NoLostWakeup, V
<1>14. TasksOK'
  BY <1>1, <1>3, <1>9 DEF TasksOK
<1>15. Ring(ch)'
  BY <1>11
<1> QED
  BY <1>8, <1>12, <1>13, <1>14, <1>15 DEF ChannelInv

(* A put or get task runs, for the first time or once it was woken.        *)
LEMMA ChannelTaskKeepsInv ==
    ASSUME ChannelInv, NEW t \in Thread, ChannelTask(t)
    PROVE  ChannelInv'
<1>1. op \in [Thread -> Ops] /\ op[t] \in Ops /\ GetOp \in Ops
      /\ \A v \in Item : PutOp(v) \in Ops
  BY DEF ChannelInv, TasksOK, Ops
<1>2. op = [op EXCEPT ![t] = op[t]]
  BY <1>1
<1>3. ASSUME NEW v \in Item, PutTask(t, v) PROVE ChannelInv'
  <2>1. notify = "none" /\ Executing(t) /\ PutOp(v) \in Ops
    BY <1>1, <1>3 DEF PutTask
  <2>2. CASE CanPut
    <3>1. /\ zsp_channel_try_put(v) /\ tb' = WithFrame(t)
          /\ op' = [op EXCEPT ![t] = PutOp(v)]
          /\ UNCHANGED <<created, parked, exec, pc, end_ticks, rval>>
      BY <1>3, <2>2 DEF PutTask
    <3> QED
      BY <2>1, <2>2, <3>1, TaskTransfersKeepInv
  <2>3. CASE ~CanPut
    <3>1. Waiting(t, PutOp(v), zsp_channel_add_put_waiter(WithFrame(t), t))
      BY <1>3, <2>3 DEF PutTask
    <3> QED
      BY <2>1, <2>3, <3>1, PutWaitsKeepsInv
  <2> QED
    BY <2>2, <2>3
<1>4. CASE PutTaskResumed(t)
  <2>1. /\ notify = "none" /\ Executing(t)
        /\ op[t].data \in Item /\ op[t] = PutOp(op[t].data)
    BY <1>1, <1>4, OpKinds DEF PutTaskResumed
  <2>2. CASE CanPut
    <3>1. zsp_channel_try_put(op[t].data) /\ UNCHANGED <<vars, op, rval>>
      BY <1>4, <2>2 DEF PutTaskResumed
    <3>2. op' = [op EXCEPT ![t] = op[t]] /\ tb' = tb
          /\ UNCHANGED <<created, parked, exec, pc, end_ticks, rval>>
      BY <1>2, <3>1 DEF vars
    <3> QED
      BY <1>1, <2>1, <2>2, <3>1, <3>2, TaskTransfersKeepInv
  <2>3. CASE ~CanPut
    <3>1. Waiting(t, PutOp(op[t].data), zsp_channel_add_put_waiter(tb, t))
      BY <1>4, <2>1, <2>3 DEF PutTaskResumed
    <3> QED
      BY <2>1, <2>3, <3>1, PutWaitsKeepsInv
  <2> QED
    BY <2>2, <2>3
<1>5. CASE GetTask(t)
  <2>1. notify = "none" /\ Executing(t)
    BY <1>5 DEF GetTask
  <2>2. CASE CanGet
    <3>1. /\ zsp_channel_try_get /\ tb' = WithFrame(t)
          /\ op' = [op EXCEPT ![t] = GetOp]
          /\ rval' = [rval EXCEPT ![t] = FirstItem]
          /\ UNCHANGED <<created, parked, exec, pc, end_ticks>>
      BY <1>5, <2>2 DEF GetTask
    <3> QED
      BY <1>1, <2>1, <2>2, <3>1, TaskTransfersKeepInv
  <2>3. CASE ~CanGet
    <3>1. Waiting(t, GetOp, zsp_channel_add_get_waiter(WithFrame(t), t))
      BY <1>5, <2>3 DEF GetTask
    <3> QED
      BY <2>1, <2>3, <3>1, GetWaitsKeepsInv
  <2> QED
    BY <2>2, <2>3
<1>6. CASE GetTaskResumed(t)
  <2>1. notify = "none" /\ Executing(t)
    BY <1>6 DEF GetTaskResumed
  <2>2. CASE CanGet
    <3>1. /\ zsp_channel_try_get /\ UNCHANGED <<vars, op>>
          /\ rval' = [rval EXCEPT ![t] = FirstItem]
      BY <1>6, <2>2 DEF GetTaskResumed
    <3>2. op' = [op EXCEPT ![t] = op[t]] /\ tb' = tb
          /\ UNCHANGED <<created, parked, exec, pc, end_ticks>>
      BY <1>2, <3>1 DEF vars
    <3> QED
      BY <1>1, <2>1, <2>2, <3>1, <3>2, TaskTransfersKeepInv
  <2>3. CASE ~CanGet
    <3>1. Waiting(t, GetOp, zsp_channel_add_get_waiter(tb, t))
      BY <1>6, <2>3 DEF GetTaskResumed
    <3> QED
      BY <2>1, <2>3, <3>1, GetWaitsKeepsInv
  <2> QED
    BY <2>2, <2>3
<1> QED
  BY <1>3, <1>4, <1>5, <1>6 DEF ChannelTask

(* Every step of the program preserves the invariant of the channel. *)
LEMMA NextChannelInv == ChannelInv /\ [ChannelNext]_allvars => ChannelInv'
<1> SUFFICES ASSUME ChannelInv, [ChannelNext]_allvars PROVE ChannelInv'
  OBVIOUS
<1>1. CASE TimebaseStep \/ \E t \in Thread : TaskItself(t)
  BY <1>1, OutsideKeepsInv
<1>2. CASE NotifyStep
  BY <1>2, NotifyKeepsInv, TryReturnsKeepsInv, ChannelTaskReturnsKeepsInv DEF NotifyStep
<1>3. CASE TryGet \/ \E v \in Item : TryPut(v)
  BY <1>3, TryKeepsInv
<1>4. CASE \E t \in Thread : ChannelTask(t)
  BY <1>4, ChannelTaskKeepsInv
<1>5. CASE UNCHANGED allvars
  <2>1. UNCHANGED vars /\ UNCHANGED chvars
    BY <1>5 DEF allvars
  <2>2. Inv'
    BY <2>1, NextInv DEF ChannelInv
  <2>3. UNCHANGED parked /\ KeepsLinks(tb, tb', parked)
    BY <2>1, LinksStay DEF vars
  <2>4. /\ WaitersAreListed'
        /\ Waiters("get")' = Waiters("get") /\ Waiters("put")' = Waiters("put")
    BY <2>1, <2>3, WaitersKept DEF ChannelInv, chvars
  <2> QED
    BY <2>1, <2>2, <2>4 DEF ChannelInv, chvars, TasksOK, NoLostWakeup
<1> QED
  BY <1>1, <1>2, <1>3, <1>4, <1>5 DEF ChannelNext

(* The ring, the wait lists, the tasks that wait and the timebase always   *)
(* agree, whatever the capacity and whoever puts, gets, delays or returns. *)
THEOREM ChannelInvHolds == ChannelSpec => []ChannelInv
BY InitChannelInv, NextChannelInv, PTL DEF ChannelSpec

-----------------------------------------------------------------------------
(* What the invariant says of the properties of ZspChannel. *)

(* A thread waits for data only while there is none, and for space only    *)
(* while there is none, unless the loop that wakes it is running.          *)
THEOREM NoLostWakeupHolds == ChannelSpec => []NoLostWakeup
<1>1. ChannelInv => NoLostWakeup
  BY DEF ChannelInv
<1> QED
  BY <1>1, ChannelInvHolds, PTL

(* A wait list is a list of the property's kind. *)
LEMMA WaitListIsList ==
    ASSUME NEW first, NEW S, WaitList(tb.next, first, S)
    PROVE  IsList(first, S)
<1>1. PICK n \in Nat : \E q \in [1 .. n -> Thread] : WaitListIs(tb.next, first, S, n, q)
  BY DEF WaitList
<1>2. PICK q \in [1 .. n -> Thread] : WaitListIs(tb.next, first, S, n, q)
  BY <1>1
<1>3. n \in 0 .. Cardinality(Thread)
  BY <1>2, ListIsShort DEF WaitListIs
<1> QED
  BY <1>2, <1>3 DEF IsList, WaitListIs

(* The wait lists and the ready queue, threaded through one field, remain  *)
(* three lists of exactly the threads that wait for data, that wait for    *)
(* space and that can run.                                                 *)
THEOREM ListsAreDisjointHolds == ChannelSpec => []ListsAreDisjoint
<1>1. ASSUME ChannelInv PROVE ListsAreDisjoint
  <2>1. IsList(ch.get_waiters, Waiters("get")) /\ IsList(ch.put_waiters, Waiters("put"))
    BY <1>1, WaitListIsList DEF ChannelInv, WaitersAreListed
  <2>2. ReadyListIsRunnable
    BY <1>1, InvListsRunnable DEF ChannelInv
  <2> QED
    BY <2>1, <2>2 DEF ListsAreDisjoint
<1> QED
  BY <1>1, ChannelInvHolds, PTL

-----------------------------------------------------------------------------
(* The channel implements a bounded FIFO. *)

(* The values of Contents and Requests in any state. *)
ContentsOf(c) == [i \in 1 .. c.count |-> c.buffer[(c.head + i - 1) % c.capacity]]

RequestsOf(o, x, n) ==
    [t \in Thread |-> IF n # "none" /\ x # <<>> /\ t = x[Len(x)] THEN NoOp ELSE o[t]]

(* The items of the ring form a sequence. *)
LEMMA ContentsAre ==
    ASSUME NEW c, Ring(c)
    PROVE  /\ ContentsOf(c) \in Seq(Item)
           /\ Len(ContentsOf(c)) = c.count
           /\ \A i \in 1 .. c.count : ContentsOf(c)[i] = c.buffer[Slot(c, i - 1)]
<1>1. /\ c.capacity = ActualCapacity /\ c.count \in Nat /\ c.head \in Nat
      /\ \A i \in 0 .. c.count - 1 : c.buffer[Slot(c, i)] \in Item
  BY CapacityIsPositive DEF Ring, Index
<1>2. \A i \in 1 .. c.count : c.head + i - 1 = c.head + (i - 1) /\ i - 1 \in 0 .. c.count - 1
  BY <1>1
<1>3. \A i \in 1 .. c.count : ContentsOf(c)[i] = c.buffer[Slot(c, i - 1)]
  BY <1>1, <1>2 DEF ContentsOf, Slot
<1>4. ContentsOf(c) \in [1 .. c.count -> Item]
  <2>1. ContentsOf(c) = [i \in 1 .. c.count |-> ContentsOf(c)[i]]
    BY DEF ContentsOf
  <2>2. \A i \in 1 .. c.count : ContentsOf(c)[i] \in Item
    BY <1>1, <1>2, <1>3
  <2> QED
    BY <2>1, <2>2
<1>5. ContentsOf(c) \in Seq(Item) /\ Len(ContentsOf(c)) = c.count
  BY <1>1, <1>4
<1> QED
  BY <1>3, <1>5

(* What is put comes after what is inside. *)
LEMMA PutAppends ==
    ASSUME NEW c, Ring(c), c.count < c.capacity, NEW v \in Item
    PROVE  /\ ContentsOf(WithItem(c, v)) = Append(ContentsOf(c), v)
           /\ Len(ContentsOf(c)) < ActualCapacity
<1> DEFINE r == WithItem(c, v)
           q == ContentsOf(c)
           p == ContentsOf(r)
<1>1. /\ Ring(r) /\ r.count = c.count + 1
      /\ r.buffer[Slot(r, c.count)] = v
      /\ \A i \in 0 .. c.count - 1 : r.buffer[Slot(r, i)] = c.buffer[Slot(c, i)]
  BY RingPut
<1>2. /\ q \in Seq(Item) /\ Len(q) = c.count
      /\ \A i \in 1 .. c.count : q[i] = c.buffer[Slot(c, i - 1)]
  BY ContentsAre
<1> HIDE DEF r
<1>3. /\ p \in Seq(Item) /\ Len(p) = r.count
      /\ \A i \in 1 .. r.count : p[i] = r.buffer[Slot(r, i - 1)]
  BY <1>1, ContentsAre
<1> HIDE DEF p, q
<1>4. c.capacity = ActualCapacity /\ c.count \in Nat
  BY CapacityIsPositive DEF Ring
<1>5. \A n \in Nat : \A i \in 1 .. n + 1 :
         IF i = n + 1 THEN i - 1 = n ELSE i \in 1 .. n /\ i - 1 \in 0 .. n - 1
  OBVIOUS
<1>6. \A i \in 1 .. c.count + 1 : p[i] = IF i = c.count + 1 THEN v ELSE q[i]
  BY <1>1, <1>2, <1>3, <1>4, <1>5
<1>7. p = Append(q, v)
  <2> DEFINE a == Append(q, v)
  <2>1. a \in Seq(Item) /\ Len(a) = Len(q) + 1
        /\ \A i \in 1 .. Len(q) + 1 : a[i] = IF i = Len(q) + 1 THEN v ELSE q[i]
    BY <1>2
  <2> HIDE DEF a
  <2>2. Len(a) = Len(p) /\ \A i \in 1 .. Len(p) : a[i] = p[i]
    BY <1>1, <1>2, <1>3, <1>6, <2>1
  <2>3. a = p
    BY <1>3, <2>1, <2>2, SeqEqual
  <2> QED
    BY <2>3 DEF a
<1> QED
  BY <1>2, <1>4, <1>7 DEF p, q, r

(* What is got came first. *)
LEMMA GetTakesHead ==
    ASSUME NEW c, Ring(c), c.count > 0
    PROVE  /\ ContentsOf(c) # <<>>
           /\ Head(ContentsOf(c)) = c.buffer[c.head]
           /\ ContentsOf(WithoutItem(c)) = Tail(ContentsOf(c))
<1> DEFINE r == WithoutItem(c)
           q == ContentsOf(c)
           p == ContentsOf(r)
<1>1. /\ Ring(r) /\ r.count = c.count - 1 /\ c.head = Slot(c, 0)
      /\ \A i \in 0 .. r.count - 1 : r.buffer[Slot(r, i)] = c.buffer[Slot(c, i + 1)]
  BY RingGet
<1>2. /\ q \in Seq(Item) /\ Len(q) = c.count
      /\ \A i \in 1 .. c.count : q[i] = c.buffer[Slot(c, i - 1)]
  BY ContentsAre
<1> HIDE DEF r
<1>3. /\ p \in Seq(Item) /\ Len(p) = r.count
      /\ \A i \in 1 .. r.count : p[i] = r.buffer[Slot(r, i - 1)]
  BY <1>1, ContentsAre
<1> HIDE DEF p, q
<1>4. c.count \in Nat /\ c.count > 0
  BY CapacityIsPositive DEF Ring
<1>5. \A n \in Nat \ {0} : /\ 1 \in 1 .. n
                           /\ \A i \in 1 .. n - 1 : /\ i - 1 \in 0 .. (n - 1) - 1
                                                    /\ i + 1 \in 1 .. n
                                                    /\ (i - 1) + 1 = (i + 1) - 1
  OBVIOUS
<1>6. ASSUME NEW i \in 1 .. c.count - 1 PROVE p[i] = q[i + 1]
  <2>1. /\ i - 1 \in 0 .. r.count - 1 /\ i + 1 \in 1 .. c.count
        /\ (i - 1) + 1 = (i + 1) - 1 /\ i \in 1 .. r.count
    BY <1>1, <1>4, <1>5
  <2>2. p[i] = r.buffer[Slot(r, i - 1)] /\ q[i + 1] = c.buffer[Slot(c, (i + 1) - 1)]
    BY <1>2, <1>3, <2>1
  <2>3. r.buffer[Slot(r, i - 1)] = c.buffer[Slot(c, (i - 1) + 1)]
    BY <1>1, <2>1
  <2> QED
    BY <2>1, <2>2, <2>3
<1>7. q # <<>>
  BY <1>2, <1>4
<1>8. Head(q) = c.buffer[c.head]
  <2>1. q[1] = c.buffer[Slot(c, 1 - 1)] /\ 1 - 1 = 0
    BY <1>2, <1>4, <1>5
  <2>2. Head(q) = q[1]
    BY <1>2, <1>7
  <2> QED
    BY <1>1, <2>1, <2>2
<1>9. p = Tail(q)
  <2> DEFINE a == Tail(q)
  <2>1. a \in Seq(Item) /\ Len(a) = Len(q) - 1
        /\ \A i \in 1 .. Len(q) - 1 : a[i] = q[i + 1]
    BY <1>2, <1>7
  <2> HIDE DEF a
  <2>2. Len(a) = Len(p) /\ \A i \in 1 .. Len(p) : a[i] = p[i]
    BY <1>1, <1>2, <1>3, <1>6, <2>1
  <2>3. a = p
    BY <1>3, <2>1, <2>2, SeqEqual
  <2> QED
    BY <2>3 DEF a
<1> QED
  BY <1>7, <1>8, <1>9 DEF p, q, r

(* The mapped variables are these values. *)
LEMMA MappedValues ==
    /\ Contents = ContentsOf(ch) /\ Contents' = ContentsOf(ch')
    /\ Requests = RequestsOf(op, exec, notify)
    /\ Requests' = RequestsOf(op', exec', notify')
BY DEF Contents, ContentsOf, Requests, RequestsOf, Executing

(* Only the request of the executing thread is answered before its frame   *)
(* is gone, and that only while a loop runs.                               *)
LEMMA RequestsAre ==
    ASSUME NEW o \in [Thread -> Ops], NEW x \in Seq(Thread), NEW n
    PROVE  /\ n = "none" => RequestsOf(o, x, n) = o
           /\ (x # <<>> => o[x[Len(x)]] = NoOp) => RequestsOf(o, x, n) = o
           /\ n # "none" /\ x # <<>> =>
                 RequestsOf(o, x, n) = [o EXCEPT ![x[Len(x)]] = NoOp]
<1> DEFINE f == RequestsOf(o, x, n)
           l == x[Len(x)]
<1>1. /\ f = [t \in Thread |-> f[t]]
      /\ \A t \in Thread : f[t] = IF n # "none" /\ x # <<>> /\ t = l THEN NoOp ELSE o[t]
  BY DEF RequestsOf
<1>2. o = [t \in Thread |-> o[t]]
  OBVIOUS
<1> HIDE DEF f, l
<1>3. n = "none" => f = o
  BY <1>1, <1>2
<1>4. (x # <<>> => o[l] = NoOp) => f = o
  BY <1>1, <1>2
<1>5. n # "none" /\ x # <<>> => f = [o EXCEPT ![l] = NoOp]
  BY <1>1
<1> QED
  BY <1>3, <1>4, <1>5 DEF f, l

(* Steps that neither put nor get. *)
LEMMA RingStays ==
    ASSUME ch'.count = ch.count, ch'.head = ch.head,
           ch'.buffer = ch.buffer, ch'.capacity = ch.capacity
    PROVE  Contents' = Contents
BY DEF Contents

(* No requests and no items. *)
LEMMA InitFifo == ChannelInit => Fifo!Init
<1> SUFFICES ASSUME ChannelInit PROVE Fifo!Init
  OBVIOUS
<1>1. ch.count = 0 /\ notify = "none"
      /\ op = [t \in Thread |-> NoOp] /\ rval = [t \in Thread |-> NULL]
  BY DEF ChannelInit, zsp_channel_init_capacity
<1>2. Contents = <<>>
  BY <1>1 DEF Contents
<1>3. Requests = [t \in Thread |-> NoOp]
  BY <1>1 DEF Requests
<1> QED
  BY <1>1, <1>2, <1>3 DEF Fifo!Init, Fifo!None, NoOp

(* Where no loop runs, the requests are the frames. *)
LEMMA RequestsIdle ==
    ASSUME ChannelInv
    PROVE  /\ notify = "none" => Requests = op
           /\ OwnCode => Requests = op
           /\ op \in [Thread -> Ops] /\ exec \in Seq(Thread)
           /\ \A t \in Thread : Executing(t) => exec # <<>> /\ t = exec[Len(exec)]
<1>1. op \in [Thread -> Ops] /\ exec \in Seq(Thread)
  BY DEF ChannelInv, TasksOK, Inv
<1>2. Requests = RequestsOf(op, exec, notify)
  BY MappedValues
<1>3. notify = "none" => Requests = op
  BY <1>1, <1>2, RequestsAre
<1>4. ASSUME OwnCode PROVE Requests = op
  <2>1. exec # <<>> => op[exec[Len(exec)]] = NoOp
    <3>1. exec # <<>> => exec[Len(exec)] \in Thread
      BY <1>1
    <3> QED
      BY <3>1, <1>4 DEF OwnCode, Executing
  <2> QED
    BY <1>1, <1>2, <2>1, RequestsAre
<1> QED
  BY <1>1, <1>3, <1>4 DEF Executing

(* Steps of the timebase and of tasks between their calls. *)
LEMMA OutsideIsStutter ==
    ASSUME ChannelInv, ChannelInv', TimebaseStep \/ \E t \in Thread : TaskItself(t)
    PROVE  UNCHANGED <<Contents, Requests, rval>>
<1>1. notify = "none" /\ UNCHANGED <<ch, op, rval, notify>>
  BY DEF TimebaseStep, TaskItself, chvars
<1>2. Requests = op
  BY <1>1, RequestsIdle
<1>3. Requests' = op'
  <2>1. op' \in [Thread -> Ops] /\ exec' \in Seq(Thread)
    BY DEF ChannelInv, TasksOK, Inv
  <2> QED
    BY <1>1, <2>1, MappedValues, RequestsAre
<1>4. Contents' = Contents
  BY <1>1, RingStays
<1> QED
  BY <1>1, <1>2, <1>3, <1>4

(* The turns of the loops wake, and do not put or get. *)
LEMMA NotifyIsStutter ==
    ASSUME ChannelInv,
           zsp_channel_notify_get_waiters \/ zsp_channel_notify_put_waiters
    PROVE  UNCHANGED <<Contents, Requests, rval>>
<1>1. UNCHANGED <<op, exec, notify, rval>>
  BY DEF zsp_channel_notify_get_waiters, zsp_channel_notify_put_waiters
<1>2. Requests' = Requests
  BY <1>1, MappedValues
<1>3. /\ ch'.count = ch.count /\ ch'.head = ch.head
      /\ ch'.buffer = ch.buffer /\ ch'.capacity = ch.capacity
  BY DEF zsp_channel_notify_get_waiters, zsp_channel_notify_put_waiters,
         ChannelInv, Ring, ChannelState
<1> QED
  BY <1>1, <1>2, <1>3, RingStays

(* A call or a task that returns has had its effect. *)
LEMMA ReturnIsStutter ==
    ASSUME ChannelInv, ChannelInv',
           TryReturns \/ \E t \in Thread : ChannelTaskReturns(t)
    PROVE  UNCHANGED <<Contents, Requests, rval>>
<1>1. notify' = "none" /\ UNCHANGED <<ch, rval>>
  BY DEF TryReturns, ChannelTaskReturns
<1>2. Requests' = op'
  <2>1. op' \in [Thread -> Ops] /\ exec' \in Seq(Thread)
    BY DEF ChannelInv, TasksOK, Inv
  <2> QED
    BY <1>1, <2>1, MappedValues, RequestsAre
<1>3. Contents' = Contents
  BY <1>1, RingStays
<1>4. CASE TryReturns
  <2>1. Requests = op /\ op' = op
    BY <1>4, RequestsIdle DEF TryReturns
  <2> QED
    BY <1>1, <1>2, <1>3, <2>1
<1>5. ASSUME NEW t \in Thread, ChannelTaskReturns(t)
      PROVE  UNCHANGED <<Contents, Requests, rval>>
  <2>1. /\ notify # "none" /\ Executing(t) /\ op' = [op EXCEPT ![t] = NoOp]
    BY <1>5 DEF ChannelTaskReturns, LoopEnds
  <2>2. Requests = [op EXCEPT ![t] = NoOp]
    BY <2>1, RequestsIdle, RequestsAre, MappedValues
  <2> QED
    BY <1>1, <1>2, <1>3, <2>1, <2>2
<1> QED
  BY <1>4, <1>5

(* What zsp_channel_try_put and zsp_channel_try_get do to the items. *)
LEMMA TransferIsEnqueueOrDequeue ==
    ASSUME ChannelInv
    PROVE  /\ \A v \in Item : CanPut /\ zsp_channel_try_put(v) => Fifo!Enqueue(v)
           /\ CanGet /\ zsp_channel_try_get =>
                 Fifo!Dequeue /\ FirstItem = Head(Contents)
<1>1. Ring(ch)
  BY DEF ChannelInv
<1>2. ASSUME NEW v \in Item, CanPut, zsp_channel_try_put(v) PROVE Fifo!Enqueue(v)
  <2>1. ch' = WithItem(ch, v) /\ ch.count < ch.capacity
    BY <1>2 DEF zsp_channel_try_put, WithItem, CanPut
  <2>2. Contents' = Append(Contents, v) /\ Len(Contents) < ActualCapacity
    BY <1>1, <2>1, PutAppends, MappedValues
  <2> QED
    BY <2>2 DEF Fifo!Enqueue
<1>3. ASSUME CanGet, zsp_channel_try_get
      PROVE  Fifo!Dequeue /\ FirstItem = Head(Contents)
  <2>1. ch' = WithoutItem(ch) /\ ch.count > 0
    BY <1>3 DEF zsp_channel_try_get, WithoutItem, CanGet
  <2>2. /\ Contents # <<>> /\ Contents' = Tail(Contents)
        /\ Head(Contents) = ch.buffer[ch.head]
    BY <1>1, <2>1, GetTakesHead, MappedValues
  <2> QED
    BY <2>2 DEF Fifo!Dequeue, FirstItem
<1> QED
  BY <1>2, <1>3

(* The non-blocking calls put an item in or take one out. *)
LEMMA TryIsPutOrDrop ==
    ASSUME ChannelInv, ChannelInv', TryGet \/ \E v \in Item : TryPut(v)
    PROVE  Fifo!PutAtOnce \/ Fifo!Drop
<1>1. notify = "none" /\ OwnCode /\ UNCHANGED <<vars, op, rval>>
  BY DEF TryGet, TryPut
<1>2. Requests = op
  BY <1>1, RequestsIdle
<1>3. Requests' = op'
  <2>1. OwnCode'
    BY <1>1 DEF OwnCode, vars, Executing
  <2>2. op' \in [Thread -> Ops] /\ exec' \in Seq(Thread)
    BY DEF ChannelInv, TasksOK, Inv
  <2>3. exec' # <<>> => op'[exec'[Len(exec')]] = NoOp
    <3>1. exec' # <<>> => exec'[Len(exec')] \in Thread
      BY <2>2
    <3> QED
      BY <3>1, <2>1 DEF OwnCode, Executing
  <2> QED
    BY <2>2, <2>3, MappedValues, RequestsAre
<1>4. UNCHANGED <<Requests, rval>>
  BY <1>1, <1>2, <1>3
<1>5. CASE TryGet
  <2>1. Fifo!Dequeue
    BY <1>5, TransferIsEnqueueOrDequeue DEF TryGet
  <2> QED
    BY <1>4, <2>1 DEF Fifo!Drop
<1>6. ASSUME NEW v \in Item, TryPut(v) PROVE Fifo!PutAtOnce
  <2>1. Fifo!Enqueue(v)
    BY <1>6, TransferIsEnqueueOrDequeue DEF TryPut
  <2> QED
    BY <1>4, <2>1 DEF Fifo!PutAtOnce
<1> QED
  BY <1>5, <1>6

(* A task that has put or got has its answer before it returns. *)
LEMMA TransferAnswers ==
    ASSUME ChannelInv, ChannelInv', NEW t \in Thread, Executing(t), UNCHANGED exec,
           notify' # "none", NEW o, op' = [op EXCEPT ![t] = o]
    PROVE  Requests' = [op EXCEPT ![t] = NoOp]
<1>1. op \in [Thread -> Ops] /\ exec' # <<>> /\ t = exec'[Len(exec')]
  BY RequestsIdle
<1>2. op' \in [Thread -> Ops] /\ exec' \in Seq(Thread)
  BY DEF ChannelInv, TasksOK, Inv
<1>3. Requests' = [op' EXCEPT ![t] = NoOp]
  <2>1. Requests' = RequestsOf(op', exec', notify')
    BY MappedValues
  <2>2. RequestsOf(op', exec', notify') = [op' EXCEPT ![exec'[Len(exec')]] = NoOp]
    <3>1. \A p \in [Thread -> Ops], x \in Seq(Thread) : \A n :
             n # "none" /\ x # <<>> =>
                RequestsOf(p, x, n) = [p EXCEPT ![x[Len(x)]] = NoOp]
      BY RequestsAre
    <3>2. notify' # "none" /\ exec' # <<>>
      BY <1>1
    <3> QED
      BY <1>2, <3>1, <3>2, Zenon
  <2> QED
    BY <1>1, <2>1, <2>2
<1>4. [op' EXCEPT ![t] = NoOp] = [op EXCEPT ![t] = NoOp]
  BY <1>1
<1> QED
  BY <1>3, <1>4

(* A task that waits still asks for what its frame says. *)
LEMMA WaitingAsks ==
    ASSUME ChannelInv, ChannelInv', notify = "none", NEW t \in Thread, NEW o,
           \E s : \/ Waiting(t, o, zsp_channel_add_put_waiter(s, t))
                  \/ Waiting(t, o, zsp_channel_add_get_waiter(s, t))
    PROVE  /\ UNCHANGED <<Contents, rval>>
           /\ Requests' = [Requests EXCEPT ![t] = o]
<1>1. /\ UNCHANGED <<rval, notify>> /\ op' = [op EXCEPT ![t] = o]
      /\ \/ ch' = [ch EXCEPT !.put_waiters =
                      IF ch.put_waiters = NULL THEN t ELSE ch.put_waiters]
         \/ ch' = [ch EXCEPT !.get_waiters =
                      IF ch.get_waiters = NULL THEN t ELSE ch.get_waiters]
  BY DEF Waiting, zsp_channel_add_put_waiter, zsp_channel_add_get_waiter
<1>2. ch \in ChannelState
  BY DEF ChannelInv, Ring
<1>3. /\ ch'.count = ch.count /\ ch'.head = ch.head
      /\ ch'.buffer = ch.buffer /\ ch'.capacity = ch.capacity
  BY <1>1, <1>2 DEF ChannelState
<1>4. Requests = op
  BY RequestsIdle
<1>5. Requests' = op'
  <2>1. op' \in [Thread -> Ops] /\ exec' \in Seq(Thread)
    BY DEF ChannelInv, TasksOK, Inv
  <2> QED
    BY <1>1, <2>1, MappedValues, RequestsAre
<1> QED
  BY <1>1, <1>3, <1>4, <1>5, RingStays

(* A full or an empty channel holds as many items as it says. *)
LEMMA FullAndEmpty ==
    ASSUME ChannelInv, notify = "none"
    PROVE  /\ ~CanPut => Len(Contents) = ActualCapacity
           /\ ~CanGet => Contents = <<>>
<1>1. Ring(ch) /\ ch.capacity = ActualCapacity
  BY DEF ChannelInv, Ring
<1>2. Contents \in Seq(Item) /\ Len(Contents) = ch.count
  BY <1>1, ContentsAre, MappedValues
<1>3. ~CanPut => ch.count = ch.capacity
  BY NobodyWaits
<1>4. ~CanGet => ch.count = 0
  BY NobodyWaits
<1> HIDE DEF Contents
<1> QED
  BY <1>1, <1>2, <1>3, <1>4, EmptySeq

(* A put task: at once, later, or when it was woken. *)
LEMMA PutTaskImplements ==
    ASSUME ChannelInv, ChannelInv', NEW t \in Thread,
           PutTaskResumed(t) \/ \E v \in Item : PutTask(t, v)
    PROVE  \/ Fifo!PutAtOnce \/ Fifo!PutLater(t) \/ Fifo!PutNow(t)
           \/ UNCHANGED <<Contents, Requests, rval>>
<1>1. /\ notify = "none" /\ Executing(t) /\ op \in [Thread -> Ops] /\ Requests = op
      /\ op = [op EXCEPT ![t] = op[t]]
  <2>1. notify = "none" /\ Executing(t)
    BY DEF PutTask, PutTaskResumed
  <2>2. op \in [Thread -> Ops] /\ Requests = op
    BY <2>1, RequestsIdle
  <2>3. op = [op EXCEPT ![t] = op[t]]
    BY <2>2
  <2> QED
    BY <2>1, <2>2, <2>3
<1>2. ASSUME NEW v \in Item, PutTask(t, v)
      PROVE  Fifo!PutAtOnce \/ Fifo!PutLater(t)
  <2>1. op[t] = NoOp
    BY <1>2 DEF PutTask
  <2>2. CASE CanPut
    <3>1. /\ zsp_channel_try_put(v) /\ op' = [op EXCEPT ![t] = PutOp(v)]
          /\ UNCHANGED <<exec, rval>> /\ notify' # "none"
      BY <1>2, <2>2 DEF PutTask, zsp_channel_try_put
    <3>2. Fifo!Enqueue(v)
      BY <2>2, <3>1, TransferIsEnqueueOrDequeue
    <3>3. Requests' = [op EXCEPT ![t] = NoOp]
      BY <1>1, <3>1, TransferAnswers
    <3>4. Requests' = Requests
      BY <1>1, <2>1, <3>3
    <3> QED
      BY <3>1, <3>2, <3>4 DEF Fifo!PutAtOnce
  <2>3. CASE ~CanPut
    <3>1. Waiting(t, PutOp(v), zsp_channel_add_put_waiter(WithFrame(t), t))
      BY <1>2, <2>3 DEF PutTask
    <3>2. UNCHANGED <<Contents, rval>> /\ Requests' = [Requests EXCEPT ![t] = PutOp(v)]
      BY <1>1, <3>1, WaitingAsks
    <3>3. Len(Contents) = ActualCapacity
      BY <1>1, <2>3, FullAndEmpty
    <3>4. Fifo!Ask(t, Fifo!Put(v))
      BY <1>1, <2>1, <3>2 DEF Fifo!Ask, Fifo!None, Fifo!Put, NoOp, PutOp
    <3> QED
      BY <3>2, <3>3, <3>4 DEF Fifo!PutLater
  <2> QED
    BY <2>2, <2>3
<1>3. ASSUME PutTaskResumed(t)
      PROVE  Fifo!PutNow(t) \/ UNCHANGED <<Contents, Requests, rval>>
  <2>1. op[t].kind = "put" /\ op[t].data \in Item /\ op[t] = PutOp(op[t].data)
    BY <1>1, <1>3, OpKinds DEF PutTaskResumed
  <2>2. CASE CanPut
    <3>1. zsp_channel_try_put(op[t].data) /\ UNCHANGED <<vars, op, rval>>
      BY <1>3, <2>2 DEF PutTaskResumed
    <3>2. Fifo!Enqueue(op[t].data)
      BY <2>1, <2>2, <3>1, TransferIsEnqueueOrDequeue
    <3>3. Requests' = [op EXCEPT ![t] = NoOp]
      <4>1. op' = [op EXCEPT ![t] = op[t]] /\ UNCHANGED exec /\ notify' # "none"
        BY <1>1, <3>1 DEF vars, zsp_channel_try_put
      <4> QED
        BY <1>1, <4>1, TransferAnswers
    <3>4. Fifo!Answered(t)
      BY <1>1, <3>3 DEF Fifo!Answered, Fifo!None, NoOp
    <3> QED
      BY <1>1, <2>1, <3>1, <3>2, <3>4 DEF Fifo!PutNow
  <2>3. CASE ~CanPut
    <3>1. Waiting(t, op[t], zsp_channel_add_put_waiter(tb, t))
      BY <1>3, <2>3 DEF PutTaskResumed
    <3>2. UNCHANGED <<Contents, rval>> /\ Requests' = [Requests EXCEPT ![t] = op[t]]
      BY <1>1, <3>1, WaitingAsks
    <3> QED
      BY <1>1, <3>2
  <2> QED
    BY <2>2, <2>3
<1> QED
  BY <1>2, <1>3

(* A get task likewise, and its result is the item that came out. *)
LEMMA GetTaskImplements ==
    ASSUME ChannelInv, ChannelInv', NEW t \in Thread, GetTaskResumed(t) \/ GetTask(t)
    PROVE  \/ Fifo!GetAtOnce(t) \/ Fifo!GetLater(t) \/ Fifo!GetNow(t)
           \/ UNCHANGED <<Contents, Requests, rval>>
<1>1. /\ notify = "none" /\ Executing(t) /\ op \in [Thread -> Ops] /\ Requests = op
      /\ op = [op EXCEPT ![t] = op[t]]
  <2>1. notify = "none" /\ Executing(t)
    BY DEF GetTask, GetTaskResumed
  <2>2. op \in [Thread -> Ops] /\ Requests = op
    BY <2>1, RequestsIdle
  <2>3. op = [op EXCEPT ![t] = op[t]]
    BY <2>2
  <2> QED
    BY <2>1, <2>2, <2>3
<1>2. CASE GetTask(t)
  <2>1. op[t] = NoOp
    BY <1>2 DEF GetTask
  <2>2. CASE CanGet
    <3>1. /\ zsp_channel_try_get /\ op' = [op EXCEPT ![t] = GetOp]
          /\ rval' = [rval EXCEPT ![t] = FirstItem]
          /\ UNCHANGED exec /\ notify' # "none"
      BY <1>2, <2>2 DEF GetTask, zsp_channel_try_get
    <3>2. Fifo!Dequeue /\ FirstItem = Head(Contents)
      BY <2>2, <3>1, TransferIsEnqueueOrDequeue
    <3>3. Requests' = [op EXCEPT ![t] = NoOp]
      BY <1>1, <3>1, TransferAnswers
    <3>4. Requests' = Requests /\ Requests[t] = Fifo!None
      BY <1>1, <2>1, <3>3 DEF Fifo!None, NoOp
    <3> QED
      BY <3>1, <3>2, <3>4 DEF Fifo!GetAtOnce
  <2>3. CASE ~CanGet
    <3>1. Waiting(t, GetOp, zsp_channel_add_get_waiter(WithFrame(t), t))
      BY <1>2, <2>3 DEF GetTask
    <3>2. UNCHANGED <<Contents, rval>> /\ Requests' = [Requests EXCEPT ![t] = GetOp]
      BY <1>1, <3>1, WaitingAsks
    <3>3. Contents = <<>>
      BY <1>1, <2>3, FullAndEmpty
    <3>4. Fifo!Ask(t, Fifo!Get)
      BY <1>1, <2>1, <3>2 DEF Fifo!Ask, Fifo!None, Fifo!Get, NoOp, GetOp
    <3> QED
      BY <3>2, <3>3, <3>4 DEF Fifo!GetLater
  <2> QED
    BY <2>2, <2>3
<1>3. CASE GetTaskResumed(t)
  <2>1. op[t].kind = "get" /\ op[t] = GetOp
    BY <1>1, <1>3, OpKinds DEF GetTaskResumed
  <2>2. CASE CanGet
    <3>1. /\ zsp_channel_try_get /\ UNCHANGED <<vars, op>>
          /\ rval' = [rval EXCEPT ![t] = FirstItem]
      BY <1>3, <2>2 DEF GetTaskResumed
    <3>2. Fifo!Dequeue /\ FirstItem = Head(Contents)
      BY <2>2, <3>1, TransferIsEnqueueOrDequeue
    <3>3. Requests' = [op EXCEPT ![t] = NoOp]
      <4>1. op' = [op EXCEPT ![t] = op[t]] /\ UNCHANGED exec /\ notify' # "none"
        BY <1>1, <3>1 DEF vars, zsp_channel_try_get
      <4> QED
        BY <1>1, <4>1, TransferAnswers
    <3>4. Fifo!Answered(t)
      BY <1>1, <3>3 DEF Fifo!Answered, Fifo!None, NoOp
    <3> QED
      BY <1>1, <2>1, <3>1, <3>2, <3>4 DEF Fifo!GetNow
  <2>3. CASE ~CanGet
    <3>1. Waiting(t, GetOp, zsp_channel_add_get_waiter(tb, t))
      BY <1>3, <2>3 DEF GetTaskResumed
    <3>2. UNCHANGED <<Contents, rval>> /\ Requests' = [Requests EXCEPT ![t] = GetOp]
      BY <1>1, <3>1, WaitingAsks
    <3> QED
      BY <1>1, <2>1, <3>2
  <2> QED
    BY <2>2, <2>3
<1> QED
  BY <1>2, <1>3

(* Every step of the channel is a step of the FIFO or none at all. *)
LEMMA ChannelStepImplements ==
    ASSUME ChannelInv, ChannelInv', [ChannelNext]_allvars
    PROVE  [Fifo!Next]_(Fifo!vars)
<1>1. CASE TimebaseStep \/ \E t \in Thread : TaskItself(t)
  BY <1>1, OutsideIsStutter DEF Fifo!vars
<1>2. CASE NotifyStep
  BY <1>2, NotifyIsStutter, ReturnIsStutter DEF NotifyStep, Fifo!vars
<1>3. CASE TryGet \/ \E v \in Item : TryPut(v)
  BY <1>3, TryIsPutOrDrop DEF Fifo!Next
<1>4. ASSUME NEW t \in Thread, ChannelTask(t) PROVE [Fifo!Next]_(Fifo!vars)
  BY <1>4, PutTaskImplements, GetTaskImplements DEF ChannelTask, Fifo!Next, Fifo!vars
<1>5. CASE UNCHANGED allvars
  <2>1. UNCHANGED <<op, exec, notify, ch, rval>>
    BY <1>5 DEF allvars, vars, chvars
  <2> QED
    BY <2>1, MappedValues, RingStays DEF Fifo!vars
<1> QED
  BY <1>1, <1>2, <1>3, <1>4, <1>5 DEF ChannelNext

(* For every capacity, any number of putters and getters and every order   *)
(* in which they run: items come out once, in the order they went in, the  *)
(* ring never overflows, a task waits only when it has to, and the task    *)
(* that was woken but came too late is not taken to have been served.      *)
THEOREM ChannelImplementsFifo == ChannelSpec => ImplementsFifo
<1>1. ChannelInit => Fifo!Init
  BY InitFifo
<1>2. ChannelInv /\ ChannelInv' /\ [ChannelNext]_allvars => [Fifo!Next]_(Fifo!vars)
  BY ChannelStepImplements
<1> QED
  BY <1>1, <1>2, ChannelInvHolds, PTL DEF ChannelSpec, ImplementsFifo, Fifo!Spec
===============================================================================
