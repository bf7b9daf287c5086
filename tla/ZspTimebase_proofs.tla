-------------------------- MODULE ZspTimebase_proofs --------------------------
(***************************************************************************)
(* For every finite set of threads and all calls: where a thread is, as    *)
(* the ready list, the event heap, the wait lists, its flags and frames    *)
(* and the C stack say it, is one place.  Lemmas about each operator of    *)
(* TimebaseOps come first, then those about what an action does to the     *)
(* invariant Consistent, then the invariant of the specification.          *)
(***************************************************************************)
EXTENDS ZspTimebase, TLAPS, FiniteSetTheorems, SequenceTheorems,
        WellFoundedInduction

(* Assigning a field a value of its type keeps the timebase well typed.    *)
LEMMA FieldTypes ==
    ASSUME NEW s \in TimebaseState
    PROVE  /\ \A x \in Nat : [s EXCEPT !.current_time = x] \in TimebaseState
           /\ \A x \in Thread \cup {NULL} :
                 /\ [s EXCEPT !.ready_head = x] \in TimebaseState
                 /\ [s EXCEPT !.ready_tail = x] \in TimebaseState
           /\ \A x \in SUBSET Event : [s EXCEPT !.events = x] \in TimebaseState
           /\ \A x \in 0 .. SeqModulus - 1 :
                 [s EXCEPT !.event_seq = x] \in TimebaseState
           /\ \A x \in Int : [s EXCEPT !.active = x] \in TimebaseState
           /\ \A x \in BOOLEAN : [s EXCEPT !.running = x] \in TimebaseState
           /\ \A x \in [Thread -> Thread \cup {NULL}] :
                 [s EXCEPT !.next = x] \in TimebaseState
           /\ \A x \in [Thread -> SUBSET ThreadFlag] :
                 [s EXCEPT !.flags = x] \in TimebaseState
           /\ \A x \in [Thread -> Nat] : [s EXCEPT !.leaf = x] \in TimebaseState
BY DEF TimebaseState

(* The types of the single fields, to cite without the record. *)
LEMMA Fields ==
    ASSUME NEW s \in TimebaseState
    PROVE  /\ s.current_time \in Nat
           /\ s.ready_head \in Thread \cup {NULL}
           /\ s.ready_tail \in Thread \cup {NULL}
           /\ s.events \in SUBSET Event
           /\ s.event_seq \in 0 .. SeqModulus - 1
           /\ s.active \in Int
           /\ s.running \in BOOLEAN
           /\ s.next \in [Thread -> Thread \cup {NULL}]
           /\ s.flags \in [Thread -> SUBSET ThreadFlag]
           /\ s.leaf \in [Thread -> Nat]
BY DEF TimebaseState

(* ready_queue_add keeps the types of all fields. *)
LEMMA AddType ==
    ASSUME NEW s \in TimebaseState, NEW t \in Thread
    PROVE  ready_queue_add(s, t) \in TimebaseState
<1> DEFINE flags == [s.flags EXCEPT ![t] = @ \ {"BLOCKED"}]
           next  == IF s.ready_tail = NULL
                    THEN [s.next EXCEPT ![t] = NULL]
                    ELSE [[s.next EXCEPT ![t] = NULL] EXCEPT ![s.ready_tail] = t]
           head  == IF s.ready_tail = NULL THEN t ELSE s.ready_head
           s1 == [s EXCEPT !.flags = flags]
           s2 == [s1 EXCEPT !.next = next]
           s3 == [s2 EXCEPT !.ready_head = head]
<1>1. /\ flags \in [Thread -> SUBSET ThreadFlag]
      /\ next \in [Thread -> Thread \cup {NULL}]
      /\ head \in Thread \cup {NULL}
  BY Fields
<1>2. ready_queue_add(s, t) = [s3 EXCEPT !.ready_tail = t]
  BY DEF ready_queue_add
<1> HIDE DEF flags, next, head
<1>3. s1 \in TimebaseState
  BY <1>1, FieldTypes
<1> HIDE DEF s1
<1>4. s2 \in TimebaseState
  BY <1>1, <1>3, FieldTypes
<1> HIDE DEF s2
<1>5. s3 \in TimebaseState
  BY <1>1, <1>4, FieldTypes
<1> HIDE DEF s3
<1> QED
  BY <1>2, <1>5, FieldTypes

(* The fields of the timebase after a thread is appended, one fact for     *)
(* each group of fields.                                                   *)
LEMMA AddEnds ==
    ASSUME NEW s \in TimebaseState, NEW t \in Thread
    PROVE  /\ ready_queue_add(s, t).ready_tail = t
           /\ ready_queue_add(s, t).ready_head =
                 IF s.ready_tail = NULL THEN t ELSE s.ready_head
BY DEF ready_queue_add, TimebaseState

(* What ready_queue_add does to a link: the old tail's, t's, or none. *)
LEMMA AddNext ==
    ASSUME NEW s \in TimebaseState, NEW t \in Thread, NEW u \in Thread
    PROVE  ready_queue_add(s, t).next[u] =
              IF u = s.ready_tail THEN t ELSE IF u = t THEN NULL ELSE s.next[u]
BY ThreadAssumption DEF ready_queue_add, TimebaseState

(* ready_queue_add unblocks t and touches no other thread's flags. *)
LEMMA AddFlags ==
    ASSUME NEW s \in TimebaseState, NEW t \in Thread, NEW u \in Thread
    PROVE  ready_queue_add(s, t).flags[u] =
              IF u = t THEN s.flags[u] \ {"BLOCKED"} ELSE s.flags[u]
BY DEF ready_queue_add, TimebaseState

(* ready_queue_add leaves heap, counter and frames alone. *)
LEMMA AddRest ==
    ASSUME NEW s \in TimebaseState, NEW t \in Thread
    PROVE  /\ ready_queue_add(s, t).events = s.events
           /\ ready_queue_add(s, t).active = s.active
           /\ ready_queue_add(s, t).leaf = s.leaf
           /\ ready_queue_add(s, t).event_seq = s.event_seq
           /\ ready_queue_add(s, t).current_time = s.current_time
           /\ ready_queue_add(s, t).running = s.running
BY DEF ready_queue_add, TimebaseState

(* The same for a thread taken off the front.                              *)
LEMMA PopEnds ==
    ASSUME NEW s \in TimebaseState, s.ready_head # NULL
    PROVE  /\ ready_queue_pop(s).ready_head = s.next[s.ready_head]
           /\ ready_queue_pop(s).ready_tail =
                 IF s.next[s.ready_head] = NULL THEN NULL ELSE s.ready_tail
           /\ ready_queue_pop(s).next = [s.next EXCEPT ![s.ready_head] = NULL]
BY DEF ready_queue_pop, TimebaseState

(* ready_queue_pop leaves heap, counter, frames and flags alone. *)
LEMMA PopRest ==
    ASSUME NEW s \in TimebaseState, s.ready_head # NULL
    PROVE  /\ ready_queue_pop(s).events = s.events
           /\ ready_queue_pop(s).active = s.active
           /\ ready_queue_pop(s).leaf = s.leaf
           /\ ready_queue_pop(s).flags = s.flags
           /\ ready_queue_pop(s).event_seq = s.event_seq
           /\ ready_queue_pop(s).current_time = s.current_time
           /\ ready_queue_pop(s).running = s.running
BY DEF ready_queue_pop, TimebaseState

(* ready_queue_pop keeps the types of all fields. *)
LEMMA PopType ==
    ASSUME NEW s \in TimebaseState, s.ready_head # NULL
    PROVE  ready_queue_pop(s) \in TimebaseState
<1> DEFINE t    == s.ready_head
           tail == IF s.next[t] = NULL THEN NULL ELSE s.ready_tail
           next == [s.next EXCEPT ![t] = NULL]
           s1   == [s EXCEPT !.ready_head = s.next[t]]
           s2   == [s1 EXCEPT !.ready_tail = tail]
<1>1. /\ s.next[t] \in Thread \cup {NULL}
      /\ tail \in Thread \cup {NULL}
      /\ next \in [Thread -> Thread \cup {NULL}]
  BY Fields
<1>2. ready_queue_pop(s) = [s2 EXCEPT !.next = next]
  BY DEF ready_queue_pop
<1> HIDE DEF tail, next, t
<1>3. s1 \in TimebaseState
  BY <1>1, FieldTypes
<1> HIDE DEF s1
<1>4. s2 \in TimebaseState
  BY <1>1, <1>3, FieldTypes
<1> HIDE DEF s2
<1> QED
  BY <1>1, <1>2, <1>4, FieldTypes

-----------------------------------------------------------------------------
(* The ready queue of s is a list of exactly the threads in S.             *)
HasList(s, S) ==
    \E n \in Nat : \E q \in [1 .. n -> Thread] :
        IsReadyList(s, n, q) /\ S = {q[i] : i \in 1 .. n}

(* Appending a thread to the list q of n threads makes it its last one. *)
LEMMA AddLinks ==
    ASSUME NEW s \in TimebaseState, NEW n \in Nat, NEW q \in [1 .. n -> Thread],
           IsReadyList(s, n, q), NEW t \in Thread, \A i \in 1 .. n : q[i] # t,
           NEW p, p[n + 1] = t, \A i \in 1 .. n : p[i] = q[i]
    PROVE  IsReadyList(ready_queue_add(s, t), n + 1, p)
<1> DEFINE r == ready_queue_add(s, t)
<1>1. \A i, j \in 1 .. n + 1 : p[i] = p[j] => i = j
  <2>1. \A i, j \in 1 .. n : p[i] = p[j] => i = j
    BY DEF IsReadyList
  <2>2. \A i \in 1 .. n : p[i] # p[n + 1]
    OBVIOUS
  <2> QED
    BY <2>1, <2>2
<1>2. IF n = 0 THEN s.ready_tail = NULL ELSE s.ready_tail = q[n] /\ q[n] \in Thread
  BY DEF IsReadyList
<1>3. s.ready_tail # t
  BY <1>2, ThreadAssumption
<1> HIDE DEF r
<1>4. /\ r.ready_tail = t
      /\ r.ready_head = IF s.ready_tail = NULL THEN t ELSE s.ready_head
      /\ \A u \in Thread : r.next[u] = IF u = s.ready_tail THEN t
                                       ELSE IF u = t THEN NULL ELSE s.next[u]
  BY AddEnds, AddNext DEF r
<1>5. r.ready_head = p[1]
  <2>1. CASE n = 0
    BY <2>1, <1>2, <1>4
  <2>2. CASE n > 0
    <3>1. s.ready_head = q[1] /\ p[1] = q[1] /\ s.ready_tail # NULL
      BY <2>2, <1>2, ThreadAssumption DEF IsReadyList
    <3> QED
      BY <3>1, <1>4
  <2> QED
    BY <2>1, <2>2
<1>6. \A i \in 1 .. n + 1 : r.next[p[i]] = IF i = n + 1 THEN NULL ELSE p[i + 1]
  <2> SUFFICES ASSUME NEW i \in 1 .. n + 1
               PROVE  r.next[p[i]] = IF i = n + 1 THEN NULL ELSE p[i + 1]
    OBVIOUS
  <2>1. CASE i = n + 1
    BY <2>1, <1>3, <1>4
  <2>2. CASE i = n
    <3>1. p[i] = s.ready_tail /\ p[i] \in Thread /\ p[i + 1] = t /\ i # n + 1
      BY <2>2, <1>2
    <3> QED
      BY <3>1, <1>4
  <2>3. CASE i < n
    <3>1. n \in 1 .. n /\ i \in 1 .. n /\ i # n /\ i + 1 \in 1 .. n
      BY <2>3
    <3>2. /\ p[i] = q[i] /\ p[i + 1] = q[i + 1]
          /\ q[i] \in Thread /\ q[i] # t /\ q[i] # s.ready_tail
      BY <3>1, <1>2 DEF IsReadyList
    <3>3. s.next[q[i]] = q[i + 1]
      BY <3>1 DEF IsReadyList
    <3> QED
      BY <2>3, <3>2, <3>3, <1>4
  <2> QED
    BY <2>1, <2>2, <2>3
<1>7. IsReadyList(r, n + 1, p)
  BY <1>1, <1>4, <1>5, <1>6 DEF IsReadyList
<1> QED
  BY <1>7 DEF r

(* Adding a thread that is not on the ready list makes it its last one. *)
LEMMA AddList ==
    ASSUME NEW s \in TimebaseState, NEW S, HasList(s, S),
           NEW t \in Thread, t \notin S
    PROVE  HasList(ready_queue_add(s, t), S \cup {t})
<1> DEFINE r == ready_queue_add(s, t)
<1>0. PICK n \in Nat : \E q \in [1 .. n -> Thread] :
         IsReadyList(s, n, q) /\ S = {q[i] : i \in 1 .. n}
  BY DEF HasList
<1>1. PICK q \in [1 .. n -> Thread] :
         IsReadyList(s, n, q) /\ S = {q[i] : i \in 1 .. n}
  BY <1>0
<1> DEFINE p == [i \in 1 .. n + 1 |-> IF i = n + 1 THEN t ELSE q[i]]
<1>2. p \in [1 .. n + 1 -> Thread]
  OBVIOUS
<1>3. p[n + 1] = t /\ \A i \in 1 .. n : p[i] = q[i]
  OBVIOUS
<1> HIDE DEF p
<1>4. S \cup {t} = {p[i] : i \in 1 .. n + 1}
  BY <1>1, <1>3
<1>5. \A i \in 1 .. n : q[i] # t
  BY <1>1
<1>6. IsReadyList(r, n + 1, p)
  BY <1>1, <1>3, <1>5, AddLinks
<1>7. n + 1 \in Nat
  OBVIOUS
<1> QED
  BY <1>2, <1>4, <1>6, <1>7 DEF HasList, r

(* Popping leaves the list without its first thread. *)
LEMMA PopLinks ==
    ASSUME NEW s \in TimebaseState, s.ready_head # NULL,
           NEW n \in Nat, NEW q \in [1 .. n -> Thread], IsReadyList(s, n, q),
           NEW p, \A i \in 1 .. n - 1 : p[i] = q[i + 1]
    PROVE  /\ n > 0 /\ s.ready_head = q[1]
           /\ IsReadyList(ready_queue_pop(s), n - 1, p)
<1> DEFINE r == ready_queue_pop(s)
<1>1. n > 0 /\ s.ready_head = q[1] /\ s.ready_tail = q[n]
  BY DEF IsReadyList
<1>2. n - 1 \in Nat /\ \A i \in 1 .. n - 1 : i \in 1 .. n /\ i + 1 \in 1 .. n
  BY <1>1
<1>3. \A i \in 2 .. n : q[i] # q[1] /\ q[i] \in Thread
  BY DEF IsReadyList
<1>4. \A i, j \in 1 .. n - 1 : p[i] = p[j] => i = j
  BY <1>2 DEF IsReadyList
<1>5. s.next[q[1]] = IF n = 1 THEN NULL ELSE q[2]
  BY <1>1 DEF IsReadyList
<1>6. /\ r.ready_head = s.next[q[1]]
      /\ r.ready_tail = IF s.next[q[1]] = NULL THEN NULL ELSE s.ready_tail
      /\ r.next = [s.next EXCEPT ![q[1]] = NULL]
  BY <1>1, PopEnds
<1> HIDE DEF r
<1>7. r.ready_head = IF n - 1 = 0 THEN NULL ELSE p[1]
  BY <1>1, <1>5, <1>6
<1>8. r.ready_tail = IF n - 1 = 0 THEN NULL ELSE p[n - 1]
  <2>1. CASE n = 1
    BY <2>1, <1>5, <1>6
  <2>2. CASE n > 1
    <3>1. n - 1 \in 1 .. n - 1 /\ (n - 1) + 1 = n /\ 2 \in 2 .. n
      BY <2>2
    <3>2. s.next[q[1]] # NULL /\ p[n - 1] = q[n]
      BY <2>2, <3>1, <1>3, <1>5, ThreadAssumption
    <3> QED
      BY <2>2, <3>2, <1>1, <1>6
  <2> QED
    BY <1>1, <2>1, <2>2
<1>9. \A i \in 1 .. n - 1 : r.next[p[i]] = IF i = n - 1 THEN NULL ELSE p[i + 1]
  <2> SUFFICES ASSUME NEW i \in 1 .. n - 1
               PROVE  r.next[p[i]] = IF i = n - 1 THEN NULL ELSE p[i + 1]
    OBVIOUS
  <2>1. p[i] = q[i + 1] /\ i + 1 \in 2 .. n
    OBVIOUS
  <2>2. r.next[p[i]] = s.next[q[i + 1]]
    BY <2>1, <1>3, <1>6, Fields
  <2>3. s.next[q[i + 1]] = IF i + 1 = n THEN NULL ELSE q[(i + 1) + 1]
    BY <2>1, <1>2 DEF IsReadyList
  <2>4. i # n - 1 => p[i + 1] = q[(i + 1) + 1]
    OBVIOUS
  <2> QED
    BY <2>2, <2>3, <2>4
<1>10. IsReadyList(r, n - 1, p)
  BY <1>4, <1>7, <1>8, <1>9 DEF IsReadyList
<1> QED
  BY <1>1, <1>10 DEF r

(* Popping takes the first thread off the list. *)
LEMMA PopList ==
    ASSUME NEW s \in TimebaseState, NEW S, HasList(s, S), s.ready_head # NULL
    PROVE  /\ s.ready_head \in S
           /\ HasList(ready_queue_pop(s), S \ {s.ready_head})
<1>0. PICK n \in Nat : \E q \in [1 .. n -> Thread] :
         IsReadyList(s, n, q) /\ S = {q[i] : i \in 1 .. n}
  BY DEF HasList
<1>1. PICK q \in [1 .. n -> Thread] :
         IsReadyList(s, n, q) /\ S = {q[i] : i \in 1 .. n}
  BY <1>0
<1> DEFINE p == [i \in 1 .. n - 1 |-> q[i + 1]]
<1>2. \A i \in 1 .. n - 1 : p[i] = q[i + 1]
  OBVIOUS
<1>3. p \in [1 .. n - 1 -> Thread]
  OBVIOUS
<1> HIDE DEF p
<1>4. n > 0 /\ s.ready_head = q[1] /\ IsReadyList(ready_queue_pop(s), n - 1, p)
  BY <1>1, <1>2, PopLinks
<1>5. n - 1 \in Nat /\ \A i \in 1 .. n - 1 : i \in 1 .. n /\ i + 1 \in 1 .. n
  BY <1>4
<1>6. \A i \in 2 .. n : q[i] # q[1]
  BY <1>1 DEF IsReadyList
<1>7. S \ {s.ready_head} = {p[i] : i \in 1 .. n - 1}
  <2>1. \A i \in 2 .. n : i - 1 \in 1 .. n - 1 /\ q[i] = p[i - 1]
    BY <1>2
  <2>2. ASSUME NEW x \in S \ {s.ready_head}
        PROVE  x \in {p[i] : i \in 1 .. n - 1}
    <3>1. PICK i \in 1 .. n : x = q[i]
      BY <1>1
    <3>2. i \in 2 .. n
      BY <3>1, <1>4
    <3> QED
      BY <3>1, <3>2, <2>1
  <2>3. ASSUME NEW i \in 1 .. n - 1
        PROVE  p[i] \in S \ {s.ready_head}
    <3>1. i + 1 \in 2 .. n /\ i + 1 \in 1 .. n /\ p[i] = q[i + 1]
      BY <1>2, <1>5
    <3>2. q[i + 1] \in S
      BY <3>1, <1>1
    <3> QED
      BY <3>1, <3>2, <1>4, <1>6
  <2> QED
    BY <2>2, <2>3
<1>8. HasList(ready_queue_pop(s), S \ {s.ready_head})
  BY <1>3, <1>4, <1>5, <1>7 DEF HasList
<1> QED
  BY <1>1, <1>4, <1>8

(* Only the next fields of the threads on the list matter.                 *)
LEMMA SameList ==
    ASSUME NEW s \in TimebaseState, NEW r \in TimebaseState,
           NEW S, HasList(s, S),
           r.ready_head = s.ready_head, r.ready_tail = s.ready_tail,
           \A u \in S : r.next[u] = s.next[u]
    PROVE  HasList(r, S)
<1>0. PICK n \in Nat : \E q \in [1 .. n -> Thread] :
         IsReadyList(s, n, q) /\ S = {q[i] : i \in 1 .. n}
  BY DEF HasList
<1>1. PICK q \in [1 .. n -> Thread] :
         IsReadyList(s, n, q) /\ S = {q[i] : i \in 1 .. n}
  BY <1>0
<1>2. IsReadyList(r, n, q)
  BY <1>1 DEF IsReadyList
<1> QED
  BY <1>1, <1>2 DEF HasList
-----------------------------------------------------------------------------
(* The inductive invariant, over a timebase s, the threads C that exist,   *)
(* the threads P on wait lists and the threads X on the C stack.           *)

RunnableIn(s, C, X) ==
    {t \in C : s.leaf[t] > 0 /\ t \notin X /\ "BLOCKED" \notin s.flags[t]}

HeldBy(s, t) == {e \in s.events : e.thread = t}

Waits(s, C, t) == t \in C /\ s.leaf[t] > 0 /\ "BLOCKED" \in s.flags[t]

Accounted(s, C, P, t) ==
    /\ Waits(s, C, t) => \/ t \in P /\ HeldBy(s, t) = {}
                         \/ t \notin P /\ \E e \in s.events : HeldBy(s, t) = {e}
    /\ ~Waits(s, C, t) => t \notin P /\ HeldBy(s, t) = {}

Consistent(s, C, P, X) ==
    /\ s \in TimebaseState
    /\ C \subseteq Thread
    /\ P \subseteq Thread
    /\ \A x \in X : x \in C /\ s.leaf[x] > 0 /\ "BLOCKED" \notin s.flags[x]
    /\ HasList(s, RunnableIn(s, C, X))
    /\ \A t \in Thread : Accounted(s, C, P, t)
    /\ IsFiniteSet(s.events)
    /\ s.active = Cardinality(RunnableIn(s, C, X)) + Cardinality(s.events)

(* Every set of threads is finite. *)
LEMMA FiniteThreads ==
    ASSUME NEW S \in SUBSET Thread
    PROVE  IsFiniteSet(S) /\ Cardinality(S) \in Nat
BY ThreadAssumption, FS_Subset, FS_CardinalityType

(* Only the executing threads' flags and frames, and fields the invariant  *)
(* does not mention, change.                                               *)
LEMMA Frame ==
    ASSUME NEW s, NEW C, NEW P, NEW X, Consistent(s, C, P, X),
           NEW r \in TimebaseState,
           r.ready_head = s.ready_head, r.ready_tail = s.ready_tail,
           r.next = s.next, r.events = s.events, r.active = s.active,
           \A u \in Thread \ X :
              /\ r.leaf[u] = s.leaf[u]
              /\ "BLOCKED" \in r.flags[u] <=> "BLOCKED" \in s.flags[u],
           \A x \in X : r.leaf[x] > 0 /\ "BLOCKED" \notin r.flags[x]
    PROVE  Consistent(r, C, P, X)
<1>1. /\ s \in TimebaseState /\ C \subseteq Thread
      /\ HasList(s, RunnableIn(s, C, X))
  BY DEF Consistent
<1>2. RunnableIn(r, C, X) = RunnableIn(s, C, X)
  BY <1>1 DEF RunnableIn
<1>3. HasList(r, RunnableIn(r, C, X))
  BY <1>1, <1>2, SameList
<1>4. ASSUME NEW t \in Thread PROVE Accounted(r, C, P, t)
  <2>1. HeldBy(r, t) = HeldBy(s, t)
    BY DEF HeldBy
  <2>2. Waits(r, C, t) <=> Waits(s, C, t)
    BY DEF Consistent, Waits
  <2> QED
    BY <2>1, <2>2 DEF Consistent, Accounted
<1> QED
  BY <1>1, <1>2, <1>3, <1>4 DEF Consistent

(* A thread t outside the list is put at its end. *)
LEMMA BecomesRunnable ==
    ASSUME NEW s, NEW C, NEW P, NEW X, Consistent(s, C, P, X),
           NEW t \in C, t \notin RunnableIn(s, C, X),
           NEW m \in TimebaseState,
           m.ready_head = s.ready_head, m.ready_tail = s.ready_tail,
           m.next = s.next,
           \A u \in Thread \ {t} : m.leaf[u] = s.leaf[u] /\ m.flags[u] = s.flags[u],
           m.leaf[t] > 0,
           NEW Y, Y = X \ {t},
           NEW Q, Q = P \ {t},
           m.events = s.events \ HeldBy(s, t),
           m.active = s.active + 1 - Cardinality(HeldBy(s, t)),
           NEW r, r = ready_queue_add(m, t)
    PROVE  Consistent(r, C, Q, Y)
<1>1. /\ s \in TimebaseState /\ C \subseteq Thread /\ P \subseteq Thread
      /\ HasList(s, RunnableIn(s, C, X)) /\ IsFiniteSet(s.events)
      /\ s.active = Cardinality(RunnableIn(s, C, X)) + Cardinality(s.events)
      /\ \A u \in Thread : Accounted(s, C, P, u)
      /\ \A x \in X : x \in C /\ s.leaf[x] > 0 /\ "BLOCKED" \notin s.flags[x]
  BY DEF Consistent
<1>2. t \in Thread
  BY <1>1
<1>3. r \in TimebaseState
  BY <1>2, AddType
<1>4. HasList(r, RunnableIn(s, C, X) \cup {t})
  <2>1. HasList(m, RunnableIn(s, C, X))
    BY <1>1, SameList
  <2> QED
    BY <2>1, <1>2, AddList
<1>5. r.events = m.events /\ r.active = m.active /\ r.leaf = m.leaf
  BY <1>2, AddRest
<1>6. \A u \in Thread :
         r.flags[u] = IF u = t THEN m.flags[u] \ {"BLOCKED"} ELSE m.flags[u]
  BY <1>2, AddFlags
<1>7. RunnableIn(r, C, Y) = RunnableIn(s, C, X) \cup {t}
  <2>1. t \in RunnableIn(r, C, Y)
    BY <1>2, <1>5, <1>6 DEF RunnableIn
  <2>2. ASSUME NEW u \in C, u # t
        PROVE  u \in RunnableIn(r, C, Y) <=> u \in RunnableIn(s, C, X)
    BY <2>2, <1>1, <1>5, <1>6 DEF RunnableIn
  <2>3. RunnableIn(r, C, Y) \subseteq C /\ RunnableIn(s, C, X) \subseteq C
    BY DEF RunnableIn
  <2> QED
    BY <2>1, <2>2, <2>3
<1>8. ASSUME NEW u \in Thread PROVE Accounted(r, C, Q, u)
  <2>1. CASE u = t
    <3>1. HeldBy(r, t) = {}
      BY <1>5 DEF HeldBy
    <3>2. ~Waits(r, C, t)
      BY <1>2, <1>6 DEF Waits
    <3> QED
      BY <2>1, <3>1, <3>2 DEF Accounted
  <2>2. CASE u # t
    <3>1. HeldBy(r, u) = HeldBy(s, u)
      BY <2>2, <1>5 DEF HeldBy
    <3>2. Waits(r, C, u) <=> Waits(s, C, u)
      BY <2>2, <1>5, <1>6 DEF Waits
    <3>3. HeldBy(s, u) \subseteq s.events /\ HeldBy(r, u) \subseteq r.events
      BY DEF HeldBy
    <3>4. Accounted(s, C, P, u) /\ (u \in Q <=> u \in P)
      BY <1>1, <2>2
    <3> QED
      BY <3>1, <3>2, <3>3, <3>4 DEF Accounted
  <2> QED
    BY <2>1, <2>2
<1>9. /\ IsFiniteSet(r.events)
      /\ r.active = Cardinality(RunnableIn(r, C, Y)) + Cardinality(r.events)
  <2>1. RunnableIn(s, C, X) \in SUBSET Thread
    BY <1>1 DEF RunnableIn
  <2>2. /\ Cardinality(RunnableIn(s, C, X)) \in Nat
        /\ Cardinality(RunnableIn(r, C, Y)) = Cardinality(RunnableIn(s, C, X)) + 1
    BY <2>1, <1>7, FiniteThreads, FS_AddElement
  <2>3. HeldBy(s, t) \subseteq s.events
    BY DEF HeldBy
  <2>4. /\ IsFiniteSet(r.events) /\ IsFiniteSet(HeldBy(s, t))
        /\ Cardinality(s.events) \in Nat /\ Cardinality(r.events) \in Nat
        /\ Cardinality(HeldBy(s, t)) \in Nat
    BY <2>3, <1>1, <1>5, FS_Subset, FS_Difference, FS_CardinalityType
  <2>5. Cardinality(r.events) = Cardinality(s.events) - Cardinality(HeldBy(s, t))
    <3>1. HeldBy(s, t) \cap s.events = HeldBy(s, t)
      BY <2>3
    <3>2. Cardinality(s.events \ HeldBy(s, t))
             = Cardinality(s.events) - Cardinality(s.events \cap HeldBy(s, t))
      BY <1>1, FS_Difference
    <3> QED
      BY <3>1, <3>2, <1>5
  <2> QED
    BY <1>1, <1>5, <2>2, <2>4, <2>5
<1>10. \A x \in Y : x \in C /\ r.leaf[x] > 0 /\ "BLOCKED" \notin r.flags[x]
  BY <1>1, <1>5, <1>6
<1> QED
  BY <1>1, <1>3, <1>4, <1>7, <1>8, <1>9, <1>10 DEF Consistent

(* A thread t that executes becomes one that is neither executing nor      *)
(* runnable, and the list stays as it is.                                  *)
LEMMA LeavesIdle ==
    ASSUME NEW s, NEW C, NEW P, NEW X, Consistent(s, C, P, X),
           NEW t \in X,
           NEW r \in TimebaseState,
           r.ready_head = s.ready_head, r.ready_tail = s.ready_tail,
           \A u \in Thread \ {t} : /\ r.leaf[u] = s.leaf[u]
                                    /\ r.flags[u] = s.flags[u]
                                    /\ r.next[u] = s.next[u],
           r.leaf[t] = 0 \/ "BLOCKED" \in r.flags[t],
           NEW D, D = C \/ (D = C \ {t} /\ r.leaf[t] = 0),
           NEW Q, \A u \in Thread \ {t} : u \in Q <=> u \in P,
           Q \subseteq Thread,
           IsFiniteSet(r.events),
           r.active - s.active = Cardinality(r.events) - Cardinality(s.events),
           \A u \in Thread \ {t} : HeldBy(r, u) = HeldBy(s, u),
           Accounted(r, D, Q, t),
           NEW Y, Y = X \ {t}
    PROVE  Consistent(r, D, Q, Y)
<1>1. /\ s \in TimebaseState /\ C \subseteq Thread /\ P \subseteq Thread
      /\ HasList(s, RunnableIn(s, C, X)) /\ IsFiniteSet(s.events)
      /\ s.active = Cardinality(RunnableIn(s, C, X)) + Cardinality(s.events)
      /\ \A u \in Thread : Accounted(s, C, P, u)
      /\ \A x \in X : x \in C /\ s.leaf[x] > 0 /\ "BLOCKED" \notin s.flags[x]
  BY DEF Consistent
<1>2. t \in Thread /\ D \subseteq Thread
  BY <1>1
<1>3. RunnableIn(r, D, Y) = RunnableIn(s, C, X)
  <2>1. t \notin RunnableIn(r, D, Y) /\ t \notin RunnableIn(s, C, X)
    BY DEF RunnableIn
  <2>2. ASSUME NEW u \in C, u # t
        PROVE  u \in RunnableIn(r, D, Y) <=> u \in RunnableIn(s, C, X)
    BY <2>2, <1>1 DEF RunnableIn
  <2>3. RunnableIn(r, D, Y) \subseteq C /\ RunnableIn(s, C, X) \subseteq C
    BY DEF RunnableIn
  <2>4. \A u : u \in RunnableIn(r, D, Y) <=> u \in RunnableIn(s, C, X)
    BY <2>1, <2>2, <2>3
  <2> QED
    BY <2>4, Zenon
<1>4. HasList(r, RunnableIn(r, D, Y))
  <2>1. \A u \in RunnableIn(s, C, X) : u \in Thread \ {t}
    BY <1>1 DEF RunnableIn
  <2> QED
    BY <2>1, <1>1, <1>3, SameList
<1>5. ASSUME NEW u \in Thread PROVE Accounted(r, D, Q, u)
  <2>1. CASE u # t
    <3>1. Waits(r, D, u) <=> Waits(s, C, u)
      BY <2>1 DEF Waits
    <3>2. HeldBy(r, u) = HeldBy(s, u)
      BY <2>1
    <3>3. HeldBy(s, u) \subseteq s.events /\ HeldBy(r, u) \subseteq r.events
      BY DEF HeldBy
    <3>4. Accounted(s, C, P, u) /\ (u \in Q <=> u \in P)
      BY <1>1, <2>1
    <3> QED
      BY <3>1, <3>2, <3>3, <3>4 DEF Accounted
  <2> QED
    BY <2>1
<1>6. r.active = Cardinality(RunnableIn(r, D, Y)) + Cardinality(r.events)
  <2>1. RunnableIn(s, C, X) \in SUBSET Thread
    BY <1>1 DEF RunnableIn
  <2>2. /\ Cardinality(RunnableIn(s, C, X)) \in Nat
        /\ Cardinality(s.events) \in Nat /\ Cardinality(r.events) \in Nat
    BY <2>1, <1>1, FiniteThreads, FS_CardinalityType
  <2>3. r.active \in Int /\ s.active \in Int
    BY <1>1, Fields
  <2> QED
    BY <1>1, <1>3, <2>2, <2>3
<1>7. \A x \in Y : x \in D /\ r.leaf[x] > 0 /\ "BLOCKED" \notin r.flags[x]
  BY <1>1
<1> QED
  BY <1>2, <1>3, <1>4, <1>5, <1>6, <1>7 DEF Consistent

(* The scheduler takes the first ready thread and enters it. *)
LEMMA Enters ==
    ASSUME NEW s, NEW C, NEW P, NEW X, Consistent(s, C, P, X),
           s.ready_head # NULL
    PROVE  /\ s.ready_head \in C \ X
           /\ Consistent(BeginRun(s), C, P, X \cup {s.ready_head})
<1> DEFINE t == s.ready_head
           m == [s EXCEPT !.active = s.active - 1]
           r == ready_queue_pop(m)
<1>1. /\ s \in TimebaseState /\ C \subseteq Thread /\ P \subseteq Thread
      /\ HasList(s, RunnableIn(s, C, X)) /\ IsFiniteSet(s.events)
      /\ s.active = Cardinality(RunnableIn(s, C, X)) + Cardinality(s.events)
      /\ \A u \in Thread : Accounted(s, C, P, u)
      /\ \A x \in X : x \in C /\ s.leaf[x] > 0 /\ "BLOCKED" \notin s.flags[x]
  BY DEF Consistent
<1>2. /\ m.ready_head = s.ready_head /\ m.ready_tail = s.ready_tail
      /\ m.next = s.next /\ m.events = s.events /\ m.flags = s.flags
      /\ m.leaf = s.leaf /\ m.active = s.active - 1
  BY <1>1 DEF TimebaseState
<1>3. m \in TimebaseState
  <2>1. s.active - 1 \in Int
    BY <1>1, Fields
  <2> QED
    BY <2>1, <1>1, FieldTypes
<1>4. BeginRun(s) = r
  BY DEF BeginRun
<1> HIDE DEF m
<1>5. HasList(m, RunnableIn(s, C, X))
  BY <1>1, <1>2, <1>3, SameList
<1>6. t \in RunnableIn(s, C, X) /\ HasList(r, RunnableIn(s, C, X) \ {t})
  BY <1>2, <1>3, <1>5, PopList
<1>7. r \in TimebaseState
  BY <1>2, <1>3, PopType
<1>8. r.events = s.events /\ r.active = s.active - 1 /\ r.leaf = s.leaf /\ r.flags = s.flags
  BY <1>2, <1>3, PopRest
<1> HIDE DEF r
<1>9. RunnableIn(r, C, X \cup {t}) = RunnableIn(s, C, X) \ {t}
  BY <1>8 DEF RunnableIn
<1>10. ASSUME NEW u \in Thread PROVE Accounted(r, C, P, u)
  <2>1. HeldBy(r, u) = HeldBy(s, u)
    BY <1>8 DEF HeldBy
  <2>2. Waits(r, C, u) <=> Waits(s, C, u)
    BY <1>8 DEF Waits
  <2> QED
    BY <2>1, <2>2, <1>1, <1>8 DEF Accounted
<1>11. r.active = Cardinality(RunnableIn(r, C, X \cup {t})) + Cardinality(r.events)
  <2>1. RunnableIn(s, C, X) \in SUBSET Thread
    BY <1>1 DEF RunnableIn
  <2>2. /\ Cardinality(RunnableIn(s, C, X)) \in Nat
        /\ Cardinality(RunnableIn(s, C, X) \ {t})
              = Cardinality(RunnableIn(s, C, X)) - 1
        /\ Cardinality(s.events) \in Nat
    BY <2>1, <1>1, <1>6, FiniteThreads, FS_RemoveElement, FS_CardinalityType
  <2>3. Cardinality(RunnableIn(r, C, X \cup {t}))
           = Cardinality(RunnableIn(s, C, X)) - 1
    BY <2>2, <1>9
  <2> HIDE DEF t
  <2> QED
    BY <2>2, <2>3, <1>1, <1>8
<1>12. \A x \in X \cup {t} : x \in C /\ r.leaf[x] > 0 /\ "BLOCKED" \notin r.flags[x]
  BY <1>1, <1>6, <1>8 DEF RunnableIn
<1>13. t \in C \ X
  BY <1>6 DEF RunnableIn
<1>14. Consistent(r, C, P, X \cup {t})
  BY <1>1, <1>6, <1>7, <1>8, <1>9, <1>10, <1>11, <1>12 DEF Consistent
<1> QED
  BY <1>4, <1>13, <1>14

(* A thread is created: it executes at once. *)
LEMMA Creates ==
    ASSUME NEW s, NEW C, NEW P, NEW X, Consistent(s, C, P, X),
           NEW t \in Thread \ C
    PROVE  Consistent(thread_init_common(s, t), C \cup {t}, P, X \cup {t})
<1> DEFINE next  == [s.next EXCEPT ![t] = NULL]
           flags == [s.flags EXCEPT ![t] = {"INITIAL"}]
           leaf  == [s.leaf EXCEPT ![t] = 1]
           s1 == [s EXCEPT !.next = next]
           s2 == [s1 EXCEPT !.flags = flags]
           r  == [s2 EXCEPT !.leaf = leaf]
<1>1. /\ s \in TimebaseState /\ C \subseteq Thread /\ P \subseteq Thread
      /\ HasList(s, RunnableIn(s, C, X)) /\ IsFiniteSet(s.events)
      /\ s.active = Cardinality(RunnableIn(s, C, X)) + Cardinality(s.events)
      /\ \A u \in Thread : Accounted(s, C, P, u)
      /\ \A x \in X : x \in C /\ s.leaf[x] > 0 /\ "BLOCKED" \notin s.flags[x]
  BY DEF Consistent
<1>2. thread_init_common(s, t) = r
  BY DEF thread_init_common
<1>3. /\ next \in [Thread -> Thread \cup {NULL}]
      /\ flags \in [Thread -> SUBSET ThreadFlag]
      /\ leaf \in [Thread -> Nat]
  BY <1>1, Fields DEF ThreadFlag
<1>4. /\ leaf[t] = 1 /\ flags[t] = {"INITIAL"}
      /\ \A u \in Thread \ {t} : /\ leaf[u] = s.leaf[u] /\ flags[u] = s.flags[u]
                                  /\ next[u] = s.next[u]
  BY <1>1, Fields
<1> HIDE DEF next, flags, leaf
<1>5. r.next = next /\ r.flags = flags /\ r.leaf = leaf
  BY <1>1 DEF TimebaseState
<1>6. /\ r.ready_head = s.ready_head /\ r.ready_tail = s.ready_tail
      /\ r.events = s.events /\ r.active = s.active
  BY <1>1 DEF TimebaseState
<1>7. r \in TimebaseState
  <2>1. s1 \in TimebaseState
    BY <1>1, <1>3, FieldTypes
  <2> HIDE DEF s1
  <2>2. s2 \in TimebaseState
    BY <2>1, <1>3, FieldTypes
  <2> HIDE DEF s2
  <2> QED
    BY <2>2, <1>3, FieldTypes
<1> HIDE DEF r
<1>8. RunnableIn(r, C \cup {t}, X \cup {t}) = RunnableIn(s, C, X)
  <2>1. ASSUME NEW u \in C
        PROVE  /\ u # t
               /\ u \in RunnableIn(r, C \cup {t}, X \cup {t}) <=> u \in RunnableIn(s, C, X)
    BY <1>1, <1>4, <1>5 DEF RunnableIn
  <2>2. /\ RunnableIn(r, C \cup {t}, X \cup {t}) \subseteq C
        /\ RunnableIn(s, C, X) \subseteq C
    BY DEF RunnableIn
  <2>3. \A u : u \in RunnableIn(r, C \cup {t}, X \cup {t}) <=> u \in RunnableIn(s, C, X)
    BY <2>1, <2>2
  <2> QED
    BY <2>3, Zenon
<1>9. HasList(r, RunnableIn(s, C, X))
  <2>1. \A u \in RunnableIn(s, C, X) : u \in Thread \ {t}
    BY <1>1 DEF RunnableIn
  <2> QED
    BY <2>1, <1>1, <1>4, <1>5, <1>6, <1>7, SameList
<1>10. ASSUME NEW u \in Thread PROVE Accounted(r, C \cup {t}, P, u)
  <2>1. HeldBy(r, u) = HeldBy(s, u)
    BY <1>6 DEF HeldBy
  <2>2. Waits(r, C \cup {t}, u) <=> Waits(s, C, u)
    BY <1>4, <1>5 DEF Waits
  <2> QED
    BY <2>1, <2>2, <1>1, <1>6 DEF Accounted
<1>11. \A x \in X \cup {t} : /\ x \in C \cup {t} /\ r.leaf[x] > 0
                            /\ "BLOCKED" \notin r.flags[x]
  BY <1>1, <1>4, <1>5
<1>12. Consistent(r, C \cup {t}, P, X \cup {t})
  BY <1>1, <1>6, <1>7, <1>8, <1>9, <1>10, <1>11 DEF Consistent
<1> QED
  BY <1>2, <1>12

(* A completed thread is freed. *)
LEMMA Frees ==
    ASSUME NEW s, NEW C, NEW P, NEW X, Consistent(s, C, P, X),
           NEW t \in C, s.leaf[t] = 0
    PROVE  Consistent(s, C \ {t}, P, X)
<1>1. /\ s \in TimebaseState /\ C \subseteq Thread /\ P \subseteq Thread
      /\ \A u \in Thread : Accounted(s, C, P, u)
      /\ \A x \in X : x \in C /\ s.leaf[x] > 0 /\ "BLOCKED" \notin s.flags[x]
  BY DEF Consistent
<1>2. RunnableIn(s, C \ {t}, X) = RunnableIn(s, C, X)
  BY DEF RunnableIn
<1>3. ASSUME NEW u \in Thread PROVE Accounted(s, C \ {t}, P, u)
  <2>1. Waits(s, C \ {t}, u) <=> Waits(s, C, u)
    BY DEF Waits
  <2> QED
    BY <2>1, <1>1 DEF Accounted
<1>4. \A x \in X : x \in C \ {t}
  BY <1>1
<1> QED
  BY <1>1, <1>2, <1>3, <1>4 DEF Consistent

-----------------------------------------------------------------------------
(* What the ends of an activation do to the executing thread t.            *)

(* Flags other than BLOCKED do not matter to the invariant. *)
LEMMA SetsFlags ==
    ASSUME NEW s, NEW C, NEW P, NEW X, Consistent(s, C, P, X),
           NEW t \in X, NEW F \in SUBSET ThreadFlag, "BLOCKED" \notin F
    PROVE  LET r == [s EXCEPT !.flags = [s.flags EXCEPT ![t] = F]]
           IN  Consistent(r, C, P, X) /\ r.leaf = s.leaf
<1> DEFINE flags == [s.flags EXCEPT ![t] = F]
           r == [s EXCEPT !.flags = flags]
<1>1. /\ s \in TimebaseState /\ t \in Thread
      /\ \A x \in X : x \in Thread /\ s.leaf[x] > 0 /\ "BLOCKED" \notin s.flags[x]
  BY DEF Consistent
<1>2. flags \in [Thread -> SUBSET ThreadFlag]
  BY <1>1, Fields
<1>3. flags[t] = F /\ \A u \in Thread \ {t} : flags[u] = s.flags[u]
  BY <1>1, Fields
<1> HIDE DEF flags
<1>4. r \in TimebaseState
  BY <1>1, <1>2, FieldTypes
<1>5. /\ r.ready_head = s.ready_head /\ r.ready_tail = s.ready_tail
      /\ r.next = s.next /\ r.events = s.events /\ r.active = s.active
      /\ r.leaf = s.leaf /\ r.flags = flags
  BY <1>1 DEF TimebaseState
<1> HIDE DEF r
<1>6. Consistent(r, C, P, X)
  <2>1. \A u \in Thread \ X : r.leaf[u] = s.leaf[u] /\ r.flags[u] = s.flags[u]
    BY <1>3, <1>5
  <2>2. \A x \in X : r.leaf[x] > 0 /\ "BLOCKED" \notin r.flags[x]
    BY <1>1, <1>3, <1>5
  <2> QED
    BY <2>1, <2>2, <1>4, <1>5, Frame
<1> QED
  BY <1>5, <1>6 DEF r, flags

(* Nor does the number of frames, as long as there is one. *)
LEMMA SetsLeaf ==
    ASSUME NEW s, NEW C, NEW P, NEW X, Consistent(s, C, P, X),
           NEW t \in X, NEW k \in Nat, k > 0
    PROVE  LET r == [s EXCEPT !.leaf = [s.leaf EXCEPT ![t] = k]]
           IN  Consistent(r, C, P, X) /\ r.flags = s.flags
<1> DEFINE leaf == [s.leaf EXCEPT ![t] = k]
           r == [s EXCEPT !.leaf = leaf]
<1>1. /\ s \in TimebaseState /\ t \in Thread
      /\ \A x \in X : x \in Thread /\ s.leaf[x] > 0 /\ "BLOCKED" \notin s.flags[x]
  BY DEF Consistent
<1>2. leaf \in [Thread -> Nat]
  BY <1>1, Fields
<1>3. leaf[t] = k /\ \A u \in Thread \ {t} : leaf[u] = s.leaf[u]
  BY <1>1, Fields
<1> HIDE DEF leaf
<1>4. r \in TimebaseState
  BY <1>1, <1>2, FieldTypes
<1>5. /\ r.ready_head = s.ready_head /\ r.ready_tail = s.ready_tail
      /\ r.next = s.next /\ r.events = s.events /\ r.active = s.active
      /\ r.leaf = leaf /\ r.flags = s.flags
  BY <1>1 DEF TimebaseState
<1> HIDE DEF r
<1>6. Consistent(r, C, P, X)
  <2>1. \A u \in Thread \ X : r.leaf[u] = s.leaf[u] /\ r.flags[u] = s.flags[u]
    BY <1>3, <1>5
  <2>2. \A x \in X : r.leaf[x] > 0 /\ "BLOCKED" \notin r.flags[x]
    BY <1>1, <1>3, <1>5
  <2> QED
    BY <2>1, <2>2, <1>4, <1>5, Frame
<1> QED
  BY <1>5, <1>6 DEF r, leaf

(* What does not wait has no event and is on no wait list. *)
LEMMA NotWaiting ==
    ASSUME NEW s, NEW C, NEW P, NEW X, Consistent(s, C, P, X), NEW t \in X
    PROVE  /\ t \in C /\ t \in Thread /\ t \notin P
           /\ HeldBy(s, t) = {} /\ t \notin RunnableIn(s, C, X)
           /\ s \in TimebaseState /\ s.leaf[t] > 0 /\ "BLOCKED" \notin s.flags[t]
BY DEF Consistent, Accounted, Waits, RunnableIn

(* An activation that suspends puts its thread at the end of the queue. *)
LEMMA Requeues ==
    ASSUME NEW s, NEW C, NEW P, NEW X, Consistent(s, C, P, X), NEW t \in X
    PROVE  Consistent(Requeue(s, t), C, P, X \ {t})
<1> DEFINE s1 == [s EXCEPT !.flags = [s.flags EXCEPT ![t] = s.flags[t] \ {"SUSPEND"}]]
           m  == [s1 EXCEPT !.active = s1.active + 1]
<1>1. s \in TimebaseState /\ t \in Thread /\ "BLOCKED" \notin s.flags[t]
  BY NotWaiting
<1>2. s.flags[t] \ {"SUSPEND"} \in SUBSET ThreadFlag
  BY <1>1, Fields
<1>3. Consistent(s1, C, P, X)
  BY <1>1, <1>2, SetsFlags
<1>4. Requeue(s, t) = ready_queue_add(m, t)
  BY <1>1 DEF Requeue, zsp_timebase_schedule
<1> HIDE DEF s1
<1>5. /\ t \in C /\ t \in Thread /\ t \notin P
      /\ HeldBy(s1, t) = {} /\ t \notin RunnableIn(s1, C, X)
      /\ s1 \in TimebaseState /\ s1.leaf[t] > 0
  BY <1>3, NotWaiting
<1>6. m \in TimebaseState
  <2>1. s1.active + 1 \in Int
    BY <1>5, Fields
  <2> QED
    BY <2>1, <1>5, FieldTypes
<1>7. /\ m.ready_head = s1.ready_head /\ m.ready_tail = s1.ready_tail
      /\ m.next = s1.next /\ m.events = s1.events /\ m.flags = s1.flags
      /\ m.leaf = s1.leaf /\ m.active = s1.active + 1
  BY <1>5 DEF TimebaseState
<1> HIDE DEF m
<1>8. P \ {t} = P /\ m.events = s1.events \ HeldBy(s1, t)
  BY <1>5, <1>7
<1>9. m.active = s1.active + 1 - Cardinality(HeldBy(s1, t))
  <2>1. Cardinality(HeldBy(s1, t)) = 0
    BY <1>5, FS_EmptySet
  <2>2. s1.active \in Int
    BY <1>5, Fields
  <2> QED
    BY <2>1, <2>2, <1>7
<1>10. Consistent(ready_queue_add(m, t), C, P, X \ {t})
  BY <1>3, <1>5, <1>6, <1>7, <1>8, <1>9, BecomesRunnable
<1> QED
  BY <1>4, <1>10

(* An activation that did not block ends: its thread is ready again. *)
LEMMA Finishes ==
    ASSUME NEW s, NEW C, NEW P, NEW X, Consistent(s, C, P, X), NEW t \in X
    PROVE  Consistent(FinishActivation(s, t), C, P, X \ {t})
<1>1. s.leaf[t] > 0 /\ s \in TimebaseState /\ t \in Thread /\ "BLOCKED" \notin s.flags[t]
  BY NotWaiting
<1>2. CASE "INITIAL" \in s.flags[t]
  <2> DEFINE called ==
         [s EXCEPT !.flags = [s.flags EXCEPT ![t] = s.flags[t] \ {"INITIAL"}]]
  <2>1. s.flags[t] \ {"INITIAL"} \in SUBSET ThreadFlag
    BY <1>1, Fields
  <2>2. Consistent(called, C, P, X)
    BY <2>1, <1>1, SetsFlags
  <2>3. FinishActivation(s, t) = Requeue(called, t)
    BY <1>1, <1>2 DEF FinishActivation, FinishInit
  <2> HIDE DEF called
  <2> QED
    BY <2>2, <2>3, Requeues
<1>3. CASE "INITIAL" \notin s.flags[t]
  <2>1. FinishActivation(s, t) = Requeue(s, t)
    BY <1>1, <1>3 DEF FinishActivation, FinishRun
  <2> QED
    BY <2>1, Requeues
<1> QED
  BY <1>2, <1>3

(* Two assignments the ends of an activation consist of. *)
LEMMA FlagsOfOne ==
    ASSUME NEW s \in TimebaseState, NEW t \in Thread, NEW F \in SUBSET ThreadFlag
    PROVE  LET r == [s EXCEPT !.flags = [s.flags EXCEPT ![t] = F]]
           IN  /\ r \in TimebaseState
               /\ r.ready_head = s.ready_head /\ r.ready_tail = s.ready_tail
               /\ r.events = s.events /\ r.active = s.active /\ r.leaf = s.leaf
               /\ r.next = s.next /\ r.event_seq = s.event_seq
               /\ r.current_time = s.current_time /\ r.running = s.running
               /\ r.flags[t] = F
               /\ \A u \in Thread \ {t} : r.flags[u] = s.flags[u]
<1> DEFINE flags == [s.flags EXCEPT ![t] = F]
<1>1. flags \in [Thread -> SUBSET ThreadFlag]
  BY Fields
<1>2. flags[t] = F /\ \A u \in Thread \ {t} : flags[u] = s.flags[u]
  BY Fields
<1> HIDE DEF flags
<1>3. [s EXCEPT !.flags = flags] \in TimebaseState
  BY <1>1, FieldTypes
<1> DEFINE r == [s EXCEPT !.flags = flags]
<1>4. /\ r.ready_head = s.ready_head /\ r.ready_tail = s.ready_tail
      /\ r.events = s.events /\ r.active = s.active /\ r.leaf = s.leaf
      /\ r.next = s.next /\ r.event_seq = s.event_seq
      /\ r.current_time = s.current_time /\ r.running = s.running
      /\ r.flags = flags
  BY DEF TimebaseState
<1> HIDE DEF r
<1>5. r.flags[t] = F /\ \A u \in Thread \ {t} : r.flags[u] = s.flags[u]
  BY <1>2, <1>4
<1> QED
  BY <1>3, <1>4, <1>5 DEF r, flags

(* What assigning NULL to the link of one thread leaves alone. *)
LEMMA ClearNext ==
    ASSUME NEW s \in TimebaseState, NEW t \in Thread
    PROVE  LET r == clear_next(s, t)
           IN  /\ r \in TimebaseState
               /\ r.ready_head = s.ready_head /\ r.ready_tail = s.ready_tail
               /\ r.events = s.events /\ r.active = s.active /\ r.leaf = s.leaf
               /\ r.flags = s.flags /\ r.event_seq = s.event_seq
               /\ r.current_time = s.current_time /\ r.running = s.running
               /\ \A u \in Thread \ {t} : r.next[u] = s.next[u]
<1> DEFINE next == [s.next EXCEPT ![t] = NULL]
           r == [s EXCEPT !.next = next]
<1>1. next \in [Thread -> Thread \cup {NULL}]
  BY Fields
<1>2. \A u \in Thread \ {t} : next[u] = s.next[u]
  BY Fields
<1>3. clear_next(s, t) = r
  BY DEF clear_next
<1> HIDE DEF next
<1>4. r \in TimebaseState
  BY <1>1, FieldTypes
<1>5. /\ r.ready_head = s.ready_head /\ r.ready_tail = s.ready_tail
      /\ r.events = s.events /\ r.active = s.active /\ r.leaf = s.leaf
      /\ r.flags = s.flags /\ r.event_seq = s.event_seq
      /\ r.current_time = s.current_time /\ r.running = s.running
      /\ r.next = next
  BY DEF TimebaseState
<1> HIDE DEF r
<1> QED
  BY <1>2, <1>3, <1>4, <1>5

(* An activation of t that does not put it back on the queue leaves the    *)
(* queue, the heap and the other threads alone.                            *)
LEMMA FinishesAside ==
    ASSUME NEW s \in TimebaseState, NEW t \in Thread,
           s.leaf[t] = 0 \/ "BLOCKED" \in s.flags[t],
           NEW r, r = FinishActivation(s, t)
    PROVE  /\ r \in TimebaseState
           /\ r.ready_head = s.ready_head /\ r.ready_tail = s.ready_tail
           /\ r.events = s.events /\ r.active = s.active /\ r.leaf = s.leaf
           /\ r.event_seq = s.event_seq
           /\ r.current_time = s.current_time /\ r.running = s.running
           /\ \A u \in Thread \ {t} : /\ r.flags[u] = s.flags[u]
                                      /\ r.next[u] = s.next[u]
           /\ "BLOCKED" \in s.flags[t] => "BLOCKED" \in r.flags[t]
<1>0. s.leaf[t] \in Nat /\ s.flags[t] \in SUBSET ThreadFlag
  BY Fields
<1> DEFINE F      == s.flags[t] \ {"INITIAL"}
           called == [s EXCEPT !.flags = [s.flags EXCEPT ![t] = F]]
           G      == called.flags[t] \cup {"BLOCKED"}
           marked == [called EXCEPT !.flags = [called.flags EXCEPT ![t] = G]]
<1>1. CASE "INITIAL" \in s.flags[t]
  <2>1. F \in SUBSET ThreadFlag
    BY <1>0
  <2>3. FinishActivation(s, t) = IF s.leaf[t] > 0 THEN Requeue(called, t)
                                 ELSE clear_next(marked, t)
    BY <1>1 DEF FinishActivation, FinishInit, block_thread
  <2> HIDE DEF F
  <2>2. /\ called \in TimebaseState
        /\ called.ready_head = s.ready_head /\ called.ready_tail = s.ready_tail
        /\ called.events = s.events /\ called.active = s.active
        /\ called.leaf = s.leaf /\ called.next = s.next
        /\ called.event_seq = s.event_seq
        /\ called.current_time = s.current_time /\ called.running = s.running
        /\ called.flags[t] = F
        /\ \A u \in Thread \ {t} : called.flags[u] = s.flags[u]
    BY <2>1, FlagsOfOne
  <2> HIDE DEF called
  <2>4. CASE s.leaf[t] > 0
    <3>1. "BLOCKED" \in called.flags[t]
      BY <2>2, <2>4 DEF F
    <3>2. r = clear_next(called, t)
      BY <2>3, <2>4, <3>1 DEF Requeue
    <3> QED
      BY <2>2, <3>1, <3>2, ClearNext
  <2>5. CASE s.leaf[t] = 0
    <3>1. G \in SUBSET ThreadFlag
      BY <2>1, <2>2 DEF ThreadFlag
    <3>2. /\ marked \in TimebaseState
          /\ marked.ready_head = called.ready_head
          /\ marked.ready_tail = called.ready_tail
          /\ marked.events = called.events /\ marked.active = called.active
          /\ marked.leaf = called.leaf /\ marked.next = called.next
          /\ marked.event_seq = called.event_seq
          /\ marked.current_time = called.current_time
          /\ marked.running = called.running
          /\ marked.flags[t] = G
          /\ \A u \in Thread \ {t} : marked.flags[u] = called.flags[u]
      BY <2>2, <3>1, FlagsOfOne
    <3>3. r = clear_next(marked, t)
      BY <2>3, <2>5
    <3> HIDE DEF marked
    <3> QED
      BY <2>2, <3>2, <3>3, ClearNext
  <2> QED
    BY <1>0, <2>4, <2>5
<1>2. CASE "INITIAL" \notin s.flags[t]
  <2>1. CASE s.leaf[t] > 0
    <3>1. r = clear_next(s, t)
      BY <1>2, <2>1 DEF FinishActivation, FinishRun, Requeue
    <3> QED
      BY <3>1, ClearNext
  <2>2. CASE s.leaf[t] = 0
    <3>1. r = s
      BY <1>2, <2>2 DEF FinishActivation, FinishRun
    <3> QED
      BY <3>1
  <2> QED
    BY <1>0, <2>1, <2>2
<1> QED
  BY <1>1, <1>2

(* The executing thread blocks on a primitive. *)
LEMMA Blocks ==
    ASSUME NEW s, NEW C, NEW P, NEW X, Consistent(s, C, P, X), NEW t \in X
    PROVE  Consistent(FinishActivation(block_thread(s, t), t), C, P \cup {t}, X \ {t})
<1> DEFINE F == s.flags[t] \cup {"BLOCKED"}
           b == block_thread(s, t)
           r == FinishActivation(b, t)
<1>1. /\ t \in C /\ t \in Thread /\ t \notin P /\ HeldBy(s, t) = {}
      /\ s \in TimebaseState /\ s.leaf[t] > 0 /\ P \subseteq Thread
      /\ IsFiniteSet(s.events)
  <2>1. P \subseteq Thread /\ IsFiniteSet(s.events)
    BY DEF Consistent
  <2> QED
    BY <2>1, NotWaiting
<1>2. F \in SUBSET ThreadFlag
  BY <1>1, Fields DEF ThreadFlag
<1>3. b = [s EXCEPT !.flags = [s.flags EXCEPT ![t] = F]]
  BY DEF block_thread
<1> HIDE DEF b
<1>4. /\ b \in TimebaseState
      /\ b.ready_head = s.ready_head /\ b.ready_tail = s.ready_tail
      /\ b.events = s.events /\ b.active = s.active /\ b.leaf = s.leaf
      /\ b.next = s.next /\ b.flags[t] = F
      /\ \A u \in Thread \ {t} : b.flags[u] = s.flags[u]
  BY <1>1, <1>2, <1>3, FlagsOfOne
<1>5. /\ r \in TimebaseState
      /\ r.ready_head = b.ready_head /\ r.ready_tail = b.ready_tail
      /\ r.events = b.events /\ r.active = b.active /\ r.leaf = b.leaf
      /\ \A u \in Thread \ {t} : r.flags[u] = b.flags[u] /\ r.next[u] = b.next[u]
      /\ "BLOCKED" \in r.flags[t]
  BY <1>1, <1>4, FinishesAside
<1> HIDE DEF r, F
<1>6. /\ r.ready_head = s.ready_head /\ r.ready_tail = s.ready_tail
      /\ r.events = s.events /\ r.active = s.active /\ r.leaf = s.leaf
      /\ \A u \in Thread \ {t} : r.flags[u] = s.flags[u] /\ r.next[u] = s.next[u]
  BY <1>4, <1>5
<1>7. Accounted(r, C, P \cup {t}, t) /\ \A u \in Thread : HeldBy(r, u) = HeldBy(s, u)
  BY <1>1, <1>5, <1>6 DEF Accounted, Waits, HeldBy
<1>8. r.active - s.active = Cardinality(r.events) - Cardinality(s.events)
  <2>1. s.active \in Int /\ Cardinality(s.events) \in Nat
    BY <1>1, Fields, FS_CardinalityType
  <2> QED
    BY <2>1, <1>6
<1> DEFINE Q == P \cup {t}
<1>9. Q \subseteq Thread /\ \A u \in Thread \ {t} : u \in Q <=> u \in P
  BY <1>1
<1> HIDE DEF Q
<1>10. Accounted(r, C, Q, t)
  BY <1>7 DEF Q
<1>11. Consistent(r, C, Q, X \ {t})
  BY <1>1, <1>5, <1>6, <1>7, <1>8, <1>9, <1>10, LeavesIdle
<1> QED
  BY <1>11 DEF r, b, Q

(* The executing thread completes; it may be freed at once. *)
LEMMA Completes ==
    ASSUME NEW s, NEW C, NEW P, NEW X, Consistent(s, C, P, X), NEW t \in X,
           s.leaf[t] = 1
    PROVE  LET r == FinishActivation(zsp_timebase_return(s, t), t)
           IN  Consistent(r, C, P, X \ {t}) /\ r.leaf[t] = 0
<1> DEFINE leaf == [s.leaf EXCEPT ![t] = s.leaf[t] - 1]
           m == [s EXCEPT !.leaf = leaf]
           b == [m EXCEPT !.flags = s.flags]
           r == FinishActivation(b, t)
<1>1. /\ t \in C /\ t \in Thread /\ t \notin P /\ HeldBy(s, t) = {}
      /\ s \in TimebaseState /\ P \subseteq Thread /\ IsFiniteSet(s.events)
  <2>1. P \subseteq Thread /\ IsFiniteSet(s.events)
    BY DEF Consistent
  <2> QED
    BY <2>1, NotWaiting
<1>2. zsp_timebase_return(s, t) = b
  BY DEF zsp_timebase_return, ReturnContinues
<1>3. leaf \in [Thread -> Nat] /\ leaf[t] = 0
      /\ \A u \in Thread \ {t} : leaf[u] = s.leaf[u]
  BY <1>1, Fields
<1> HIDE DEF leaf
<1>4. b \in TimebaseState
  <2>1. m \in TimebaseState
    BY <1>1, <1>3, FieldTypes
  <2> HIDE DEF m
  <2> QED
    BY <2>1, <1>1, Fields, FieldTypes
<1>5. /\ b.ready_head = s.ready_head /\ b.ready_tail = s.ready_tail
      /\ b.events = s.events /\ b.active = s.active /\ b.leaf = leaf
      /\ b.next = s.next /\ b.flags = s.flags
  BY <1>1 DEF TimebaseState
<1> HIDE DEF b
<1>6. /\ r \in TimebaseState
      /\ r.ready_head = b.ready_head /\ r.ready_tail = b.ready_tail
      /\ r.events = b.events /\ r.active = b.active /\ r.leaf = b.leaf
      /\ \A u \in Thread \ {t} : r.flags[u] = b.flags[u] /\ r.next[u] = b.next[u]
  BY <1>1, <1>3, <1>4, <1>5, FinishesAside
<1> HIDE DEF r
<1>7. /\ r.ready_head = s.ready_head /\ r.ready_tail = s.ready_tail
      /\ r.events = s.events /\ r.active = s.active /\ r.leaf[t] = 0
      /\ \A u \in Thread \ {t} : /\ r.flags[u] = s.flags[u] /\ r.next[u] = s.next[u]
                                 /\ r.leaf[u] = s.leaf[u]
  BY <1>3, <1>5, <1>6
<1>8. Accounted(r, C, P, t) /\ \A u \in Thread : HeldBy(r, u) = HeldBy(s, u)
  BY <1>1, <1>7 DEF Accounted, Waits, HeldBy
<1>9. r.active - s.active = Cardinality(r.events) - Cardinality(s.events)
  <2>1. s.active \in Int /\ Cardinality(s.events) \in Nat
    BY <1>1, Fields, FS_CardinalityType
  <2> QED
    BY <2>1, <1>7
<1>10. Consistent(r, C, P, X \ {t})
  BY <1>1, <1>6, <1>7, <1>8, <1>9, LeavesIdle
<1> QED
  BY <1>2, <1>7, <1>10 DEF r

(* The executing thread suspends with an event in the heap. *)
LEMMA Suspends ==
    ASSUME NEW s, NEW C, NEW P, NEW X, Consistent(s, C, P, X), NEW t \in X,
           NEW delay \in Nat
    PROVE  Consistent(FinishActivation(WaitSuspended(s, t, delay), t), C, P, X \ {t})
<1> DEFINE F  == (s.flags[t] \cup {"BLOCKED"}) \ {"SUSPEND"}
           m  == [s EXCEPT !.flags = [s.flags EXCEPT ![t] = F]]
           e  == [wake_time |-> m.current_time + delay, seq |-> m.event_seq, thread |-> t]
           m1 == [m EXCEPT !.active = m.active + 1]
           m2 == [m1 EXCEPT !.event_seq = (m.event_seq + 1) % SeqModulus]
           b  == [m2 EXCEPT !.events = m.events \cup {e}]
           r  == FinishActivation(b, t)
<1>1. /\ t \in C /\ t \in Thread /\ t \notin P /\ HeldBy(s, t) = {}
      /\ s \in TimebaseState /\ s.leaf[t] > 0 /\ P \subseteq Thread
      /\ IsFiniteSet(s.events)
  <2>1. P \subseteq Thread /\ IsFiniteSet(s.events)
    BY DEF Consistent
  <2> QED
    BY <2>1, NotWaiting
<1>2. F \in SUBSET ThreadFlag /\ "BLOCKED" \in F
  BY <1>1, Fields DEF ThreadFlag
<1>3. WaitSuspended(s, t, delay) = b
  BY DEF WaitSuspended, zsp_timebase_schedule_at
<1> HIDE DEF F
<1>4. /\ m \in TimebaseState
      /\ m.ready_head = s.ready_head /\ m.ready_tail = s.ready_tail
      /\ m.events = s.events /\ m.active = s.active /\ m.leaf = s.leaf
      /\ m.next = s.next /\ m.flags[t] = F
      /\ \A u \in Thread \ {t} : m.flags[u] = s.flags[u]
  BY <1>1, <1>2, FlagsOfOne
<1> HIDE DEF m
<1>5. /\ e \in Event /\ e.thread = t
      /\ m.active + 1 \in Int /\ (m.event_seq + 1) % SeqModulus \in 0 .. SeqModulus - 1
      /\ m.events \cup {e} \in SUBSET Event
  <2>1. m.current_time \in Nat /\ m.event_seq \in 0 .. SeqModulus - 1 /\ m.active \in Int
    BY <1>4, Fields
  <2>2. e \in Event
    BY <2>1, <1>1 DEF Event
  <2>3. m.event_seq + 1 \in Nat /\ SeqModulus \in Nat \ {0}
    BY <2>1, SeqAssumption
  <2>4. (m.event_seq + 1) % SeqModulus \in 0 .. SeqModulus - 1
    BY <2>3
  <2> QED
    BY <2>1, <2>2, <2>4, <1>4, Fields
<1> HIDE DEF e
<1>6. b \in TimebaseState
  <2>1. m1 \in TimebaseState
    BY <1>4, <1>5, FieldTypes
  <2> HIDE DEF m1
  <2>2. m2 \in TimebaseState
    BY <2>1, <1>5, FieldTypes
  <2> HIDE DEF m2
  <2> QED
    BY <2>2, <1>5, FieldTypes
<1>7. /\ b.ready_head = m.ready_head /\ b.ready_tail = m.ready_tail
      /\ b.events = m.events \cup {e} /\ b.active = m.active + 1
      /\ b.leaf = m.leaf /\ b.next = m.next /\ b.flags = m.flags
  BY <1>4 DEF TimebaseState
<1> HIDE DEF b
<1>8. /\ r \in TimebaseState
      /\ r.ready_head = b.ready_head /\ r.ready_tail = b.ready_tail
      /\ r.events = b.events /\ r.active = b.active /\ r.leaf = b.leaf
      /\ \A u \in Thread \ {t} : r.flags[u] = b.flags[u] /\ r.next[u] = b.next[u]
      /\ "BLOCKED" \in r.flags[t]
  BY <1>1, <1>2, <1>4, <1>6, <1>7, FinishesAside
<1> HIDE DEF r
<1>9. /\ r.ready_head = s.ready_head /\ r.ready_tail = s.ready_tail
      /\ r.events = s.events \cup {e} /\ r.active = s.active + 1 /\ r.leaf = s.leaf
      /\ \A u \in Thread \ {t} : r.flags[u] = s.flags[u] /\ r.next[u] = s.next[u]
  BY <1>4, <1>7, <1>8
<1>10. /\ HeldBy(r, t) = {e}
       /\ \A u \in Thread \ {t} : HeldBy(r, u) = HeldBy(s, u)
  BY <1>1, <1>5, <1>9 DEF HeldBy
<1>11. Accounted(r, C, P, t)
  BY <1>1, <1>8, <1>9, <1>10 DEF Accounted, Waits
<1>12. /\ IsFiniteSet(r.events)
       /\ r.active - s.active = Cardinality(r.events) - Cardinality(s.events)
  <2>1. e \notin s.events
    BY <1>1, <1>5 DEF HeldBy
  <2>2. /\ s.active \in Int /\ Cardinality(s.events) \in Nat
        /\ IsFiniteSet(s.events \cup {e})
        /\ Cardinality(s.events \cup {e}) = Cardinality(s.events) + 1
    BY <2>1, <1>1, Fields, FS_CardinalityType, FS_AddElement
  <2> QED
    BY <2>2, <1>9
<1>13. Consistent(r, C, P, X \ {t})
  <2>1. /\ r \in TimebaseState /\ P \subseteq Thread /\ "BLOCKED" \in r.flags[t]
        /\ r.ready_head = s.ready_head /\ r.ready_tail = s.ready_tail
        /\ \A u \in Thread \ {t} : /\ r.leaf[u] = s.leaf[u] /\ r.flags[u] = s.flags[u]
                                   /\ r.next[u] = s.next[u]
    BY <1>1, <1>8, <1>9
  <2> QED
    BY <2>1, <1>10, <1>11, <1>12, LeavesIdle
<1> QED
  BY <1>3, <1>13 DEF r

-----------------------------------------------------------------------------
(* What schedules a waiting thread. *)

(* Every set of naturals that is not empty has a least element. *)
LEMMA NatMinimum ==
    ASSUME NEW S \in SUBSET Nat, S # {}
    PROVE  \E m \in S : \A k \in S : m <= k
<1>1. PICK j \in S : TRUE
  OBVIOUS
<1>2. PICK m \in S : \A i \in S : <<i, m>> \notin OpToRel(<, Nat)
  BY <1>1, NatLessThanWellFounded, WFMin
<1>3. \A i \in S : ~(i < m)
  BY <1>2 DEF OpToRel
<1> QED
  BY <1>3

(* The heap's comparison has a first element in every set of events.       *)
LEMMA FirstEventIn ==
    ASSUME NEW s \in TimebaseState, s.events # {}
    PROVE  /\ FirstEvent(s) \in s.events
           /\ \A e \in s.events : FirstEvent(s).wake_time <= e.wake_time
           /\ \A e \in s.events \ {FirstEvent(s)} : ~heap_compare(e, FirstEvent(s))
<1>1. \A e \in s.events : e.wake_time \in Nat /\ e.seq \in Nat
  BY Fields, SeqAssumption DEF Event
<1>2. PICK w \in {e.wake_time : e \in s.events} :
         \A e \in s.events : w <= e.wake_time
  <2> DEFINE W == {e.wake_time : e \in s.events}
  <2>1. W \in SUBSET Nat /\ W # {}
    BY <1>1
  <2>2. PICK w \in W : \A k \in W : w <= k
    BY <2>1, NatMinimum
  <2> QED
    BY <2>2
<1> DEFINE Q == {e.seq : e \in {f \in s.events : f.wake_time = w}}
<1>3. PICK q \in Q : \A e \in s.events : e.wake_time = w => q <= e.seq
  <2>1. Q \in SUBSET Nat /\ Q # {}
    BY <1>1, <1>2
  <2>2. PICK q \in Q : \A k \in Q : q <= k
    BY <2>1, NatMinimum
  <2> QED
    BY <2>2
<1>4. PICK e \in s.events : e.wake_time = w /\ e.seq = q
  BY <1>3
<1>5. \A f \in s.events \ {e} : ~heap_compare(f, e)
  BY <1>1, <1>2, <1>3, <1>4 DEF heap_compare
<1>6. /\ FirstEvent(s) \in s.events
      /\ \A f \in s.events \ {FirstEvent(s)} : ~heap_compare(f, FirstEvent(s))
  BY <1>5 DEF FirstEvent
<1>7. \A f \in s.events : FirstEvent(s).wake_time <= f.wake_time
  BY <1>1, <1>6 DEF heap_compare
<1> QED
  BY <1>6, <1>7

(* A primitive wakes t. *)
LEMMA Wakes ==
    ASSUME NEW s, NEW C, NEW P, NEW X, Consistent(s, C, P, X), NEW t \in P
    PROVE  Consistent(zsp_timebase_schedule(s, t), C, P \ {t}, X)
<1> DEFINE m == [s EXCEPT !.active = s.active + 1]
<1>1. /\ t \in Thread /\ s \in TimebaseState /\ Accounted(s, C, P, t)
      /\ \A x \in X : "BLOCKED" \notin s.flags[x]
  BY DEF Consistent
<1>2. Waits(s, C, t) /\ HeldBy(s, t) = {}
  BY <1>1 DEF Accounted
<1>3. t \in C /\ t \notin X /\ t \notin RunnableIn(s, C, X) /\ s.leaf[t] > 0
  BY <1>1, <1>2 DEF Waits, RunnableIn
<1>4. zsp_timebase_schedule(s, t) = ready_queue_add(m, t)
  BY DEF zsp_timebase_schedule
<1>5. s.active + 1 \in Int /\ Cardinality({}) = 0 /\ s.active \in Int
  BY <1>1, Fields, FS_EmptySet
<1>6. m \in TimebaseState
  BY <1>1, <1>5, FieldTypes
<1>7. /\ m.ready_head = s.ready_head /\ m.ready_tail = s.ready_tail
      /\ m.next = s.next /\ m.events = s.events /\ m.flags = s.flags
      /\ m.leaf = s.leaf /\ m.active = s.active + 1
  BY <1>1 DEF TimebaseState
<1> HIDE DEF m
<1>8. /\ X = X \ {t} /\ m.events = s.events \ HeldBy(s, t)
      /\ m.active = s.active + 1 - Cardinality(HeldBy(s, t))
  BY <1>2, <1>3, <1>5, <1>7
<1>9. Consistent(ready_queue_add(m, t), C, P \ {t}, X)
  BY <1>3, <1>6, <1>7, <1>8, BecomesRunnable
<1> QED
  BY <1>4, <1>9

(* The first event becomes due. *)
LEMMA Moves ==
    ASSUME NEW s, NEW C, NEW P, NEW X, Consistent(s, C, P, X), s.events # {}
    PROVE  Consistent(MoveDue(s), C, P, X)
<1> DEFINE e == FirstEvent(s)
           t == e.thread
           m == [s EXCEPT !.events = s.events \ {e}]
<1>0. s \in TimebaseState
  BY DEF Consistent
<1>1. e \in s.events
  BY <1>0, FirstEventIn
<1>2. MoveDue(s) = ready_queue_add(m, t)
  BY DEF MoveDue
<1> HIDE DEF e
<1>3. t \in Thread /\ s.events \subseteq Event
  BY <1>0, <1>1, Fields DEF Event
<1>4. /\ Accounted(s, C, P, t)
      /\ \A x \in X : "BLOCKED" \notin s.flags[x]
  BY <1>3 DEF Consistent
<1>5. e \in HeldBy(s, t)
  BY <1>1 DEF HeldBy
<1>6. Waits(s, C, t) /\ t \notin P /\ HeldBy(s, t) = {e}
  BY <1>4, <1>5 DEF Accounted
<1>7. t \in C /\ t \notin X /\ t \notin RunnableIn(s, C, X) /\ s.leaf[t] > 0
  BY <1>4, <1>6 DEF Waits, RunnableIn
<1>8. m \in TimebaseState
  <2>1. s.events \ {e} \in SUBSET Event
    BY <1>3
  <2> QED
    BY <2>1, <1>0, FieldTypes
<1>9. /\ m.ready_head = s.ready_head /\ m.ready_tail = s.ready_tail
      /\ m.next = s.next /\ m.events = s.events \ {e} /\ m.flags = s.flags
      /\ m.leaf = s.leaf /\ m.active = s.active
  BY <1>0 DEF TimebaseState
<1> HIDE DEF m, t
<1>10. /\ X = X \ {t} /\ P = P \ {t} /\ m.events = s.events \ HeldBy(s, t)
       /\ m.active = s.active + 1 - Cardinality(HeldBy(s, t))
  <2>1. Cardinality({e}) = 1 /\ s.active \in Int
    BY <1>0, Fields, FS_Singleton
  <2> QED
    BY <2>1, <1>6, <1>7, <1>9
<1>11. Consistent(ready_queue_add(m, t), C, P, X)
  BY <1>7, <1>8, <1>9, <1>10, BecomesRunnable
<1> QED
  BY <1>2, <1>11

(* Neither the time nor running matters. *)
LEMMA SetsClock ==
    ASSUME NEW s, NEW C, NEW P, NEW X, Consistent(s, C, P, X)
    PROVE  /\ \A x \in Nat : Consistent([s EXCEPT !.current_time = x], C, P, X)
           /\ \A x \in BOOLEAN : Consistent([s EXCEPT !.running = x], C, P, X)
<1>1. /\ s \in TimebaseState
      /\ \A x \in X : s.leaf[x] > 0 /\ "BLOCKED" \notin s.flags[x]
  BY DEF Consistent
<1>2. ASSUME NEW x \in Nat PROVE Consistent([s EXCEPT !.current_time = x], C, P, X)
  <2> DEFINE r == [s EXCEPT !.current_time = x]
  <2>1. r \in TimebaseState
    BY <1>1, FieldTypes
  <2>2. /\ r.ready_head = s.ready_head /\ r.ready_tail = s.ready_tail
        /\ r.next = s.next /\ r.events = s.events /\ r.active = s.active
        /\ r.leaf = s.leaf /\ r.flags = s.flags
    BY <1>1 DEF TimebaseState
  <2> HIDE DEF r
  <2>3. Consistent(r, C, P, X)
    BY <2>1, <2>2, <1>1, Frame
  <2> QED
    BY <2>3 DEF r
<1>3. ASSUME NEW x \in BOOLEAN PROVE Consistent([s EXCEPT !.running = x], C, P, X)
  <2> DEFINE r == [s EXCEPT !.running = x]
  <2>1. r \in TimebaseState
    BY <1>1, FieldTypes
  <2>2. /\ r.ready_head = s.ready_head /\ r.ready_tail = s.ready_tail
        /\ r.next = s.next /\ r.events = s.events /\ r.active = s.active
        /\ r.leaf = s.leaf /\ r.flags = s.flags
    BY <1>1 DEF TimebaseState
  <2> HIDE DEF r
  <2>3. Consistent(r, C, P, X)
    BY <2>1, <2>2, <1>1, Frame
  <2> QED
    BY <2>3 DEF r
<1> QED
  BY <1>2, <1>3

(* An inline wait: the time passes in the middle of the activation. *)
LEMMA WaitsInPlace ==
    ASSUME NEW s, NEW C, NEW P, NEW X, Consistent(s, C, P, X), NEW t \in X,
           NEW delay \in Nat
    PROVE  Consistent(WaitInline(s, t, delay), C, P, X)
<1> DEFINE m == [s EXCEPT !.current_time = s.current_time + delay]
           F == m.flags[t] \cup {"SUSPEND"}
<1>1. s.current_time + delay \in Nat
  BY NotWaiting, Fields
<1>2. Consistent(m, C, P, X)
  BY <1>1, SetsClock
<1>3. WaitInline(s, t, delay) = [m EXCEPT !.flags = [m.flags EXCEPT ![t] = F]]
  BY DEF WaitInline, zsp_timebase_yield
<1> HIDE DEF m
<1>4. F \in SUBSET ThreadFlag /\ "BLOCKED" \notin F
  <2>1. m \in TimebaseState /\ t \in Thread /\ "BLOCKED" \notin m.flags[t]
    BY <1>2, NotWaiting
  <2> QED
    BY <2>1, Fields DEF ThreadFlag
<1> HIDE DEF F
<1> QED
  BY <1>2, <1>3, <1>4, SetsFlags

(* zsp_timebase_yield only sets SUSPEND. *)
LEMMA Yields ==
    ASSUME NEW s, NEW C, NEW P, NEW X, Consistent(s, C, P, X), NEW t \in X
    PROVE  Consistent(zsp_timebase_yield(s, t), C, P, X)
<1> DEFINE F == s.flags[t] \cup {"SUSPEND"}
<1>1. F \in SUBSET ThreadFlag /\ "BLOCKED" \notin F
  <2>1. s \in TimebaseState /\ t \in Thread /\ "BLOCKED" \notin s.flags[t]
    BY NotWaiting
  <2> QED
    BY <2>1, Fields DEF ThreadFlag
<1>2. zsp_timebase_yield(s, t) = [s EXCEPT !.flags = [s.flags EXCEPT ![t] = F]]
  BY DEF zsp_timebase_yield
<1> HIDE DEF F
<1> QED
  BY <1>1, <1>2, SetsFlags

(* A frame that is not the last one is popped. *)
LEMMA Returns ==
    ASSUME NEW s, NEW C, NEW P, NEW X, Consistent(s, C, P, X), NEW t \in X,
           s.leaf[t] > 1
    PROVE  Consistent(zsp_timebase_return(s, t), C, P, X)
<1>1. /\ s \in TimebaseState /\ t \in Thread
      /\ s.leaf[t] - 1 \in Nat /\ s.leaf[t] - 1 > 0
      /\ s.flags[t] \in SUBSET ThreadFlag /\ "BLOCKED" \notin s.flags[t]
      /\ s.flags \in [Thread -> SUBSET ThreadFlag]
  BY NotWaiting, Fields
<1> DEFINE m == [s EXCEPT !.leaf = [s.leaf EXCEPT ![t] = s.leaf[t] - 1]]
           F == IF ReturnContinues(s, t) THEN s.flags[t] \ {"SUSPEND"} ELSE s.flags[t]
<1>2. Consistent(m, C, P, X) /\ m.flags = s.flags
  BY <1>1, SetsLeaf
<1>3. F \in SUBSET ThreadFlag /\ "BLOCKED" \notin F
  BY <1>1
<1>4. zsp_timebase_return(s, t) = [m EXCEPT !.flags = [s.flags EXCEPT ![t] = F]]
  <2>1. s.flags = [s.flags EXCEPT ![t] = s.flags[t]]
    BY <1>1
  <2>2. CASE ReturnContinues(s, t)
    BY <2>2 DEF zsp_timebase_return
  <2>3. CASE ~ReturnContinues(s, t)
    <3>1. zsp_timebase_return(s, t) = [m EXCEPT !.flags = s.flags]
      BY <2>3 DEF zsp_timebase_return
    <3>2. F = s.flags[t]
      BY <2>3
    <3> HIDE DEF m, F
    <3> QED
      BY <2>1, <3>1, <3>2
  <2> QED
    BY <2>2, <2>3
<1> HIDE DEF m, F
<1>5. Consistent([m EXCEPT !.flags = [m.flags EXCEPT ![t] = F]], C, P, X)
  BY <1>2, <1>3, SetsFlags
<1> QED
  BY <1>2, <1>4, <1>5

-----------------------------------------------------------------------------
(* The C stack. *)

OnStack(x) == {x[i] : i \in 1 .. Len(x)}
Distinct(x) == \A i, j \in 1 .. Len(x) : x[i] = x[j] => i = j

(* Calling a task function puts one new thread on the C stack. *)
LEMMA StackPush ==
    ASSUME NEW x \in Seq(Thread), Distinct(x), NEW t \in Thread, t \notin OnStack(x)
    PROVE  /\ Append(x, t) \in Seq(Thread)
           /\ Distinct(Append(x, t))
           /\ OnStack(Append(x, t)) = OnStack(x) \cup {t}
<1> DEFINE y == Append(x, t)
<1>1. /\ y \in Seq(Thread) /\ Len(x) \in Nat /\ Len(y) = Len(x) + 1
      /\ y[Len(x) + 1] = t /\ \A i \in 1 .. Len(x) : y[i] = x[i]
  OBVIOUS
<1> HIDE DEF y
<1>2. Distinct(y)
  <2>1. \A i \in 1 .. Len(x) : y[i] # t
    BY <1>1 DEF OnStack
  <2>2. \A i, j \in 1 .. Len(x) : y[i] = y[j] => i = j
    BY <1>1 DEF Distinct
  <2> QED
    BY <1>1, <2>1, <2>2 DEF Distinct
<1>3. OnStack(y) = OnStack(x) \cup {t}
  BY <1>1 DEF OnStack
<1> QED
  BY <1>1, <1>2, <1>3 DEF y

(* The return of a task function takes the innermost thread off it. *)
LEMMA StackPop ==
    ASSUME NEW x \in Seq(Thread), Distinct(x), x # <<>>,
           NEW t, t = x[Len(x)]
    PROVE  /\ t \in OnStack(x)
           /\ SubSeq(x, 1, Len(x) - 1) \in Seq(Thread)
           /\ Distinct(SubSeq(x, 1, Len(x) - 1))
           /\ OnStack(SubSeq(x, 1, Len(x) - 1)) = OnStack(x) \ {t}
<1> DEFINE y == SubSeq(x, 1, Len(x) - 1)
<1>1. /\ y \in Seq(Thread) /\ Len(x) \in Nat /\ Len(x) > 0 /\ Len(y) = Len(x) - 1
      /\ \A i \in 1 .. Len(x) - 1 : y[i] = x[i]
  <2> DEFINE n == Len(x) - 1
  <2>1. Len(x) \in Nat /\ Len(x) > 0 /\ n \in Nat /\ n = Len(x) - 1
        /\ \A i \in 1 .. n : x[i] \in Thread
    OBVIOUS
  <2> HIDE DEF n
  <2>2. /\ SubSeq(x, 1, n) \in Seq(Thread)
        /\ Len(SubSeq(x, 1, n)) = IF 1 <= n THEN n - 1 + 1 ELSE 0
        /\ \A i \in 1 .. n - 1 + 1 : SubSeq(x, 1, n)[i] = x[1 + i - 1]
    BY <2>1, SubSeqProperties
  <2>3. y = SubSeq(x, 1, n)
    BY DEF n
  <2> HIDE DEF y
  <2>4. Len(y) = n /\ \A i \in 1 .. n : y[i] = x[i]
    BY <2>1, <2>2, <2>3
  <2> QED
    BY <2>1, <2>2, <2>3, <2>4
<1> HIDE DEF y
<1>2. Distinct(y)
  BY <1>1 DEF Distinct
<1>3. \A i \in 1 .. Len(x) : x[i] = t <=> i = Len(x)
  BY <1>1 DEF Distinct
<1>4. OnStack(y) = OnStack(x) \ {t}
  BY <1>1, <1>3 DEF OnStack
<1>5. t \in OnStack(x)
  BY <1>1 DEF OnStack
<1> QED
  BY <1>1, <1>2, <1>4, <1>5 DEF y

-----------------------------------------------------------------------------
(* The inductive invariant of the specification. *)

Inv ==
    /\ exec \in Seq(Thread)
    /\ Distinct(exec)
    /\ pc \in Control
    /\ end_ticks \in Nat
    /\ Consistent(tb, created, parked, OnStack(exec))

(* The invariant holds after zsp_timebase_init. *)
LEMMA InitInv == Init => Inv
<1> SUFFICES ASSUME Init PROVE Inv
  OBVIOUS
<1> USE DEF Init
<1>1. exec \in Seq(Thread) /\ Distinct(exec) /\ OnStack(exec) = {}
  BY DEF Distinct, OnStack
<1>2. pc \in Control /\ end_ticks \in Nat
  BY DEF Control
<1> DEFINE s == zsp_timebase_init
<1>3. s \in TimebaseState
  BY SeqAssumption DEF zsp_timebase_init, TimebaseState
<1>4. /\ s.events = {} /\ s.active = 0 /\ s.ready_head = NULL /\ s.ready_tail = NULL
  BY DEF zsp_timebase_init
<1> HIDE DEF s
<1>5. RunnableIn(s, {}, {}) = {}
  BY DEF RunnableIn
<1>6. HasList(s, {})
  <2> DEFINE q == [i \in 1 .. 0 |-> NULL]
  <2>1. q \in [1 .. 0 -> Thread] /\ {q[i] : i \in 1 .. 0} = {}
    OBVIOUS
  <2> HIDE DEF q
  <2>2. IsReadyList(s, 0, q)
    BY <1>4 DEF IsReadyList
  <2>3. 0 \in Nat
    OBVIOUS
  <2> QED
    BY <2>1, <2>2, <2>3 DEF HasList
<1>7. \A t \in Thread : Accounted(s, {}, {}, t)
  BY <1>4 DEF Accounted, Waits, HeldBy
<1>8. IsFiniteSet(s.events) /\ s.active = Cardinality({}) + Cardinality(s.events)
  BY <1>4, FS_EmptySet
<1>9. Consistent(s, {}, {}, {})
  BY <1>3, <1>5, <1>6, <1>7, <1>8 DEF Consistent
<1> QED
  BY <1>1, <1>2, <1>9 DEF Inv, s

(* The executing task gives up the processor. *)
LEMMA LeaveStep ==
    ASSUME Inv, NEW s, NEW t \in Thread, Executing(t), Leave(s, t)
    PROVE  /\ t \in OnStack(exec)
           /\ exec' \in Seq(Thread) /\ Distinct(exec')
           /\ OnStack(exec') = OnStack(exec) \ {t}
           /\ pc' \in Control /\ end_ticks' \in Nat
           /\ tb' = FinishActivation(s, t)
BY StackPop DEF Inv, Executing, Leave

(* Every call, activation and turn of the scheduler's loops preserves it. *)
LEMMA NextInv == Inv /\ [Next]_vars => Inv'
<1> SUFFICES ASSUME Inv, [Next]_vars PROVE Inv'
  OBVIOUS
<1> DEFINE X == OnStack(exec)
<1>0. /\ exec \in Seq(Thread) /\ Distinct(exec) /\ pc \in Control /\ end_ticks \in Nat
      /\ Consistent(tb, created, parked, X)
      /\ tb \in TimebaseState /\ created \subseteq Thread /\ parked \subseteq Thread
  BY DEF Inv, Consistent
<1>t. ASSUME NEW t \in Thread, Executing(t) PROVE t \in X
  BY <1>t, <1>0, StackPop DEF Executing
<1>stay. ASSUME UNCHANGED exec, pc' \in Control, end_ticks' \in Nat,
                Consistent(tb', created', parked', X)
         PROVE  Inv'
  BY <1>0, <1>stay DEF Inv
<1>1. ASSUME NEW end \in EndTimes, RunUntil(end) PROVE Inv'
  <2>1. Consistent([tb EXCEPT !.running = TRUE], created, parked, X)
    BY <1>0, SetsClock
  <2>2. end \in Nat
    BY TimeAssumption
  <2> QED
    BY <1>1, <1>stay, <2>1, <2>2 DEF RunUntil, Control
<1>2. ASSUME Run PROVE Inv'
  <2> DEFINE t == tb.ready_head
  <2>1. exec = <<>> /\ X = {} /\ exec' = <<t>> /\ tb' = BeginRun(tb)
        /\ tb.ready_head # NULL /\ UNCHANGED <<created, parked, pc, end_ticks>>
    BY <1>2 DEF Run, Idle, OnStack
  <2>2. t \in created /\ Consistent(BeginRun(tb), created, parked, X \cup {t})
    BY <1>0, <2>1, Enters
  <2>3. exec' \in Seq(Thread) /\ Distinct(exec') /\ OnStack(exec') = X \cup {t}
    <3>1. t \in Thread
      BY <2>2, <1>0
    <3> HIDE DEF t
    <3>2. <<t>> \in Seq(Thread) /\ Len(<<t>>) = 1 /\ <<t>>[1] = t
      BY <3>1
    <3> QED
      BY <2>1, <3>2 DEF Distinct, OnStack
  <2> QED
    BY <1>0, <2>1, <2>2, <2>3 DEF Inv
<1>3. ASSUME UntilAdvance \/ MainAdvance PROVE Inv'
  <2>1. tb.events # {}
    BY <1>3 DEF UntilAdvance, MainAdvance, EventAtOrBefore
  <2>2. FirstEvent(tb).wake_time \in Nat
    BY <2>1, <1>0, FirstEventIn, Fields DEF Event
  <2>3. Consistent(BeginAdvance(tb), created, parked, X)
    BY <2>2, <1>0, SetsClock DEF BeginAdvance
  <2> QED
    BY <1>0, <1>3, <1>stay, <2>3 DEF UntilAdvance, MainAdvance, Control
<1>4. Consistent(FinishRunUntil(tb, end_ticks), created, parked, X)
  <2> DEFINE T == IF tb.current_time < end_ticks THEN end_ticks ELSE tb.current_time
             m == [tb EXCEPT !.current_time = T]
  <2>1. T \in Nat
    BY <1>0, Fields
  <2>2. Consistent(m, created, parked, X)
    BY <1>0, <2>1, SetsClock
  <2>3. FinishRunUntil(tb, end_ticks) = [m EXCEPT !.running = FALSE]
    BY DEF FinishRunUntil
  <2> HIDE DEF m
  <2>4. Consistent([m EXCEPT !.running = FALSE], created, parked, X)
    BY <2>2, SetsClock
  <2> QED
    BY <2>3, <2>4
<1>5. ASSUME UntilReturn PROVE Inv'
  BY <1>0, <1>4, <1>5, <1>stay DEF UntilReturn, Control
<1>6. ASSUME AdvanceMove PROVE Inv'
  <2>1. Consistent(MoveDue(tb), created, parked, X)
    BY <1>0, <1>6, Moves DEF AdvanceMove, IsDue
  <2> QED
    BY <1>0, <1>6, <1>stay, <2>1 DEF AdvanceMove
<1>7. ASSUME AdvanceReturn PROVE Inv'
  BY <1>0, <1>4, <1>7, <1>stay DEF AdvanceReturn, Control
<1>8. ASSUME NEW t \in Thread, ThreadFree(t) PROVE Inv'
  <2>1. Consistent(tb, created \ {t}, parked, X)
    BY <1>0, <1>8, Frees DEF ThreadFree
  <2> QED
    BY <1>0, <1>8, <1>stay, <2>1 DEF ThreadFree
<1>9. ASSUME NEW t \in Thread, ThreadCreate(t) PROVE Inv'
  <2>1. t \notin created /\ t \notin X
    BY <1>0, <1>9 DEF ThreadCreate, Consistent
  <2>2. Consistent(thread_init_common(tb, t), created \cup {t}, parked, X \cup {t})
    BY <1>0, <2>1, Creates
  <2>3. /\ exec' \in Seq(Thread) /\ Distinct(exec') /\ OnStack(exec') = X \cup {t}
    BY <1>0, <1>9, <2>1, StackPush DEF ThreadCreate
  <2> QED
    BY <1>0, <1>9, <2>2, <2>3 DEF Inv, ThreadCreate
<1>10. ASSUME NEW t \in Thread, Wake(t) PROVE Inv'
  <2>1. Consistent(zsp_timebase_schedule(tb, t), created, parked \ {t}, X)
    BY <1>0, <1>10, Wakes DEF Wake
  <2> QED
    BY <1>0, <1>10, <1>stay, <2>1 DEF Wake
<1>11. ASSUME NEW t \in Thread, TaskYield(t) PROVE Inv'
  <2>1. Consistent(zsp_timebase_yield(tb, t), created, parked, X)
    BY <1>0, <1>11, <1>t, Yields DEF TaskYield
  <2>2. Consistent(FinishActivation(zsp_timebase_yield(tb, t), t), created, parked, X \ {t})
    BY <1>11, <1>t, <2>1, Finishes DEF TaskYield
  <2> QED
    BY <1>11, <2>2, LeaveStep DEF TaskYield, Inv
<1>12. ASSUME NEW t \in Thread, NEW delay \in Delays, TaskWaitInline(t, delay)
       PROVE  Inv'
  <2>1. delay \in Nat /\ t \in X
    BY <1>12, <1>t, TimeAssumption DEF TaskWaitInline
  <2>2. tb' = WaitInline(tb, t, delay)
    BY <1>12 DEF TaskWaitInline, zsp_timebase_wait
  <2>3. Consistent(WaitInline(tb, t, delay), created, parked, X)
    BY <1>0, <2>1, WaitsInPlace
  <2> QED
    BY <1>0, <1>12, <1>stay, <2>2, <2>3 DEF TaskWaitInline
<1>13. ASSUME NEW t \in Thread, NEW delay \in Delays, TaskWait(t, delay)
       PROVE  Inv'
  <2>1. delay \in Nat /\ t \in X
    BY <1>13, <1>t, TimeAssumption DEF TaskWait
  <2>2. zsp_timebase_wait(tb, t, delay) = WaitSuspended(tb, t, delay)
    BY <1>13 DEF TaskWait, zsp_timebase_wait
  <2>3. Consistent(FinishActivation(WaitSuspended(tb, t, delay), t),
                   created, parked, X \ {t})
    BY <1>0, <2>1, Suspends
  <2> QED
    BY <1>13, <2>2, <2>3, LeaveStep DEF TaskWait, Inv
<1>14. ASSUME NEW t \in Thread, TaskBlock(t) PROVE Inv'
  <2>1. Consistent(FinishActivation(block_thread(tb, t), t),
                   created, parked \cup {t}, X \ {t})
    BY <1>0, <1>14, <1>t, Blocks DEF TaskBlock
  <2> QED
    BY <1>14, <2>1, LeaveStep DEF TaskBlock, Inv
<1>15. ASSUME NEW t \in Thread, TaskCall(t) PROVE Inv'
  <2>1. t \in X /\ tb.leaf[t] + 1 \in Nat /\ tb.leaf[t] + 1 > 0
    BY <1>0, <1>15, <1>t, Fields DEF TaskCall
  <2>2. Consistent([tb EXCEPT !.leaf = [tb.leaf EXCEPT ![t] = tb.leaf[t] + 1]],
                   created, parked, X)
    BY <1>0, <2>1, SetsLeaf
  <2> QED
    BY <1>0, <1>15, <1>stay, <2>2 DEF TaskCall
<1>16. ASSUME NEW t \in Thread, TaskReturnToCaller(t) PROVE Inv'
  <2>1. Consistent(zsp_timebase_return(tb, t), created, parked, X)
    BY <1>0, <1>16, <1>t, Returns DEF TaskReturnToCaller, ReturnContinues
  <2> QED
    BY <1>0, <1>16, <1>stay, <2>1 DEF TaskReturnToCaller
<1>17. ASSUME NEW t \in Thread, TaskReturn(t) PROVE Inv'
  <2> DEFINE r == FinishActivation(zsp_timebase_return(tb, t), t)
  <2>1. t \in X /\ t \in created /\ tb.leaf[t] > 0 /\ tb.leaf[t] \in Nat
    BY <1>0, <1>17, <1>t, NotWaiting, Fields DEF TaskReturn
  <2>2. CASE tb.leaf[t] = 1
    <3>1. Consistent(r, created, parked, X \ {t}) /\ r.leaf[t] = 0
      BY <1>0, <2>1, <2>2, Completes
    <3>2. Consistent(r, created \ {t}, parked, X \ {t})
      BY <2>1, <3>1, Frees
    <3>3. created' \in {created, created \ {t}} /\ UNCHANGED parked
      BY <1>17 DEF TaskReturn
    <3> QED
      BY <1>17, <3>1, <3>2, <3>3, LeaveStep DEF TaskReturn, Inv
  <2>3. CASE tb.leaf[t] # 1
    <3>1. Consistent(zsp_timebase_return(tb, t), created, parked, X)
      BY <1>0, <2>1, <2>3, Returns
    <3>2. Consistent(r, created, parked, X \ {t})
      BY <2>1, <3>1, Finishes
    <3>3. UNCHANGED <<created, parked>>
      BY <1>17, <2>3 DEF TaskReturn
    <3> QED
      BY <1>17, <3>2, <3>3, LeaveStep DEF TaskReturn, Inv
  <2> QED
    BY <2>2, <2>3
<1>18. ASSUME NEW t \in Thread, TaskStop(t) PROVE Inv'
  <2>1. Consistent([tb EXCEPT !.running = FALSE], created, parked, X)
    BY <1>0, SetsClock
  <2> QED
    BY <1>0, <1>18, <1>stay, <2>1 DEF TaskStop
<1>19. ASSUME UNCHANGED vars PROVE Inv'
  BY <1>0, <1>19, <1>stay DEF vars
<1> HIDE DEF X
<1> QED
  BY <1>1, <1>2, <1>3, <1>5, <1>6, <1>7, <1>8, <1>9, <1>10, <1>11, <1>12, <1>13,
     <1>14, <1>15, <1>16, <1>17, <1>18, <1>19
     DEF Next, Scheduler, Main, Task

(* So ready list, heap, flags, frames and C stack always agree. *)
THEOREM InvHolds == Spec => []Inv
BY InitInv, NextInv, PTL DEF Spec

-----------------------------------------------------------------------------
(* What the invariant says of the properties of ZspTimebase.               *)

(* A list without repetition is not longer than there are threads. *)
LEMMA ListIsShort ==
    ASSUME NEW n \in Nat, NEW q \in [1 .. n -> Thread],
           \A i, j \in 1 .. n : q[i] = q[j] => i = j
    PROVE  n \in 0 .. Cardinality(Thread)
<1>1. q \in Injection(1 .. n, Thread)
  BY DEF Injection, IsInjective
<1>2. Cardinality(1 .. n) <= Cardinality(Thread)
  BY <1>1, ThreadAssumption, FS_Injection
<1>3. Cardinality(1 .. n) = n
  BY FS_Interval
<1>4. Cardinality(Thread) \in Nat
  BY ThreadAssumption, FS_CardinalityType
<1> QED
  BY <1>2, <1>3, <1>4

(* The threads the invariant calls runnable are those of the properties. *)
LEMMA RunnableIsRunnable ==
    ASSUME exec \in Seq(Thread)
    PROVE  RunnableIn(tb, created, OnStack(exec)) = Runnable
BY DEF RunnableIn, OnStack, Runnable, InExec

(* Every field of the timebase and every variable keeps its type: in       *)
(* particular no frame is popped from an empty stack.                      *)
THEOREM TypeCorrect == Spec => []TypeOK
<1>1. Inv => TypeOK
  BY DEF Inv, Consistent, TypeOK
<1> QED
  BY <1>1, InvHolds, PTL

(* The ready queue of a consistent timebase lists the runnable threads.    *)
LEMMA InvListsRunnable == ASSUME Inv PROVE ReadyListIsRunnable
<1>1. HasList(tb, Runnable)
  BY RunnableIsRunnable DEF Inv, Consistent
<1>2. PICK n \in Nat : \E q \in [1 .. n -> Thread] :
         IsReadyList(tb, n, q) /\ Runnable = {q[i] : i \in 1 .. n}
  BY <1>1 DEF HasList
<1>3. PICK q \in [1 .. n -> Thread] :
         IsReadyList(tb, n, q) /\ Runnable = {q[i] : i \in 1 .. n}
  BY <1>2
<1>4. n \in 0 .. Cardinality(Thread)
  BY <1>3, ListIsShort DEF IsReadyList
<1> QED
  BY <1>3, <1>4 DEF ReadyListIsRunnable

(* The ready queue is one list of exactly the runnable threads, for any    *)
(* number of threads and any of the calls tasks and main programs make.    *)
THEOREM ReadyListIsRunnableHolds == Spec => []ReadyListIsRunnable
BY InvListsRunnable, InvHolds, PTL

(* No blocked thread is forgotten or accounted for twice. *)
THEOREM BlockedIsAccountedHolds == Spec => []BlockedIsAccounted
<1>1. ASSUME Inv PROVE BlockedIsAccounted
  <2>1. \A t \in Thread : Accounted(tb, created, parked, t) /\ HeldBy(tb, t) = EventsOf(t)
    BY <1>1 DEF Inv, Consistent, HeldBy, EventsOf
  <2> QED
    BY <2>1 DEF BlockedIsAccounted, Accounted, Waits
<1> QED
  BY <1>1, InvHolds, PTL

(* active is the number of ready threads and pending events. *)
THEOREM ActiveIsPendingHolds == Spec => []ActiveIsPending
<1>1. ASSUME Inv PROVE ActiveIsPending
  BY <1>1, RunnableIsRunnable DEF Inv, Consistent, ActiveIsPending
<1> QED
  BY <1>1, InvHolds, PTL
=============================================================================
