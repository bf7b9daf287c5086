-------------------------- MODULE RtlProcess_proofs --------------------------
(***************************************************************************)
(* For every process that is Reliable, with any clock, counter and waits,  *)
(* and calls of sim_run of any length: the coroutine sleeps between two    *)
(* calls until an edge that is to come, and has done by then what the      *)
(* process is written to do, when it is written to do it.                  *)
(***************************************************************************)
EXTENDS RtlProcess, FiniteSetTheorems, TLAPS

-----------------------------------------------------------------------------
(* Multiplication and division, where both operands may vary.              *)

(* What is used of products. *)
LEMMA Products ==
    ASSUME NEW a \in Int, NEW b \in Int, NEW d \in Nat \ {0}
    PROVE  /\ a * d \in Int /\ (a + b) * d = a * d + b * d /\ (a - b) * d = a * d - b * d
           /\ 1 * d = d /\ 0 * d = 0
           /\ a < b => a * d + d <= b * d
           /\ a <= b => a * d <= b * d
           /\ a * d < b * d => a < b
<1>1. a * d \in Int /\ b * d \in Int /\ (a + b) * d = a * d + b * d /\ (a - b) * d = a * d - b * d
  BY SMT
<1>2. ASSUME NEW x \in Int, NEW y \in Int, x < y PROVE x * d + d <= y * d
  <2>1. (y - x - 1) * d >= 0
    BY <1>2, SMT
  <2>2. (y - x - 1) * d = y * d - x * d - d
    BY SMT
  <2>3. x * d \in Int /\ y * d \in Int
    BY SMT
  <2>4. QED  BY <2>1, <2>2, <2>3
<1>3. 1 * d = d /\ 0 * d = 0
  BY SMT
<1>4. a < b => a * d + d <= b * d
  BY <1>2
<1>5. a <= b => a * d <= b * d
  <2>1. CASE a = b
    BY <2>1, <1>1
  <2>2. CASE a < b
    BY <2>2, <1>2, <1>1
  <2>3. QED  BY <2>1, <2>2
<1>6. a * d < b * d => a < b
  <2>1. b < a => b * d + d <= a * d
    BY <1>2
  <2>2. QED  BY <2>1, <1>1
<1>7. QED  BY <1>1, <1>3, <1>4, <1>5, <1>6

(* A number is its quotient and its remainder. *)
LEMMA Division ==
    ASSUME NEW a \in Nat, NEW d \in Nat \ {0}
    PROVE  /\ a \div d \in Nat /\ a % d \in 0 .. d - 1
           /\ a = (a \div d) * d + (a % d)
<1>1. a % d \in 0 .. d - 1
  BY SMT
<1>2. a = d * (a \div d) + (a % d)
  BY SMT
<1>3. a \div d \in Nat
  BY SMT
<1>4. QED  BY <1>1, <1>2, <1>3, SMT

(* There is only one quotient and one remainder. *)
LEMMA DivisionIs ==
    ASSUME NEW q \in Nat, NEW d \in Nat \ {0}, NEW r \in 0 .. d - 1
    PROVE  (q * d + r) \div d = q /\ (q * d + r) % d = r
<1> DEFINE a == q * d + r
<1>1. a \in Nat /\ q * d \in Nat
  BY SMT
<1>2. a \div d \in Nat /\ a % d \in 0 .. d - 1 /\ a = (a \div d) * d + (a % d)
  BY <1>1, Division
<1> DEFINE p == a \div d
           s == a % d
<1>3. p \in Nat /\ s \in 0 .. d - 1 /\ a = p * d + s
  BY <1>2
<1> HIDE DEF p, s
<1>4. p < q => p * d + d <= q * d
  BY <1>3, Products
<1>5. q < p => q * d + d <= p * d
  BY <1>3, Products
<1>6. p * d \in Int
  BY <1>3, Products
<1>7. p = q
  BY <1>1, <1>3, <1>4, <1>5, <1>6
<1>8. s = r
  BY <1>1, <1>3, <1>7, <1>6
<1>9. QED  BY <1>7, <1>8 DEF p, s

(* How many cycles after the k-th the counter has the value n: what        *)
(* _try_lower_counter_wait prints.                                         *)
CyclesUntil(n, k, M) == (((n - (k % M)) + M - 1) % M) + 1

(* It has the value then, and not before. *)
LEMMA CountsTo ==
    ASSUME NEW k \in Nat, NEW M \in Nat \ {0}, NEW n \in 0 .. M - 1
    PROVE  /\ CyclesUntil(n, k, M) \in 1 .. M
           /\ (k + CyclesUntil(n, k, M)) % M = n
           /\ \A m \in k + 1 .. k + CyclesUntil(n, k, M) - 1 : m % M # n
<1> DEFINE q == k \div M
           c == k % M
           x == (n - c) + M - 1
           d == CyclesUntil(n, k, M)
           b == q * M
<1>1. q \in Nat /\ c \in 0 .. M - 1 /\ k = b + c
  BY Division
<1>2. d = (x % M) + 1
  BY DEF CyclesUntil
<1> HIDE DEF q, c
<1>3. b \in Nat /\ (q + 1) * M = b + M /\ q + 1 \in Nat
  BY <1>1, Products
<1>4. b + n \in Nat /\ (b + n) % M = n /\ ((b + M) + n) % M = n
  BY <1>1, <1>3, DivisionIs
<1> HIDE DEF d
<1>5. n > c => d = n - c
  <2> HAVE n > c
  <2>1. x = 1 * M + (n - c - 1) /\ n - c - 1 \in 0 .. M - 1
    BY <1>1
  <2> HIDE DEF x
  <2>2. x % M = n - c - 1
    BY <2>1, DivisionIs
  <2>3. QED  BY <2>2, <1>1, <1>2
<1>6. ~(n > c) => d = (n - c) + M
  <2> HAVE ~(n > c)
  <2>1. x = 0 * M + x /\ x \in 0 .. M - 1
    BY <1>1
  <2>2. x % M = x
    BY <2>1, DivisionIs
  <2>3. QED  BY <2>2, <1>1, <1>2
<1> HIDE DEF b, x
<1>7. d \in 1 .. M /\ (k + d = b + n \/ k + d = (b + M) + n)
  BY <1>1, <1>3, <1>5, <1>6
<1>8. ASSUME NEW m \in k + 1 .. k + d - 1, m % M = n
      PROVE  FALSE
  <2> DEFINE p == m \div M
             a == p * M
  <2>1. m \in Nat
    BY <1>7
  <2>2. p \in Nat /\ m = a + n
    BY <2>1, <1>8, Division
  <2> HIDE DEF p
  <2>3. /\ p < q => a + M <= b
        /\ p = q => a = b
        /\ p = q + 1 => a = b + M
        /\ q + 1 < p => (b + M) + M <= a
        /\ a \in Int
    BY <2>2, <1>1, <1>3, Products DEF b
  <2> HIDE DEF a
  <2>4. p < q \/ p = q \/ p = q + 1 \/ q + 1 < p
    BY <2>2, <1>1
  <2>5. n > c => b + n > k /\ k + d = b + n
    BY <1>1, <1>3, <1>5
  <2>6. ~(n > c) => b + n <= k /\ k + d = (b + M) + n
    BY <1>1, <1>3, <1>6
  <2>7. m > k /\ m < k + d
    BY <1>7, <1>8
  <2>8. p # q + 1 /\ ~(q + 1 < p)
    BY <2>2, <2>3, <2>5, <2>6, <2>7, <1>1, <1>3
  <2>9. p # q /\ ~(p < q)
    BY <2>2, <2>3, <2>5, <2>6, <2>7, <1>1, <1>3
  <2>10. QED  BY <2>4, <2>8, <2>9
<1>9. (k + d) % M = n
  BY <1>4, <1>7
<1>10. QED  BY <1>7, <1>8, <1>9 DEF d

-----------------------------------------------------------------------------
(* Waits. *)

IsEdge(p, t) == \E k \in Nat : t = k * p.period

(* Edges are the times that are divided by the period. *)
LEMMA Edges ==
    ASSUME NEW p, p.period \in Nat \ {0}, NEW t \in Nat
    PROVE  /\ IsEdge(p, t) <=> t % p.period = 0
           /\ \A k \in Nat : t = k * p.period => t \div p.period = k
<1> DEFINE P == p.period
<1>1. P \in Nat \ {0}
  OBVIOUS
<1> HIDE DEF P
<1>2. ASSUME NEW k \in Nat, t = k * P PROVE t % P = 0 /\ t \div P = k
  <2>1. t = k * P + 0 /\ 0 \in 0 .. P - 1
    BY <1>1, <1>2
  <2>2. QED  BY <2>1, <1>1, DivisionIs
<1>3. t % P = 0 => t = (t \div P) * P /\ t \div P \in Nat
  <2> DEFINE q == t \div P
             r == t % P
  <2>1. q \in Nat /\ t = q * P + r
    BY <1>1, Division
  <2> HIDE DEF q, r
  <2>2. q * P \in Int
    BY <1>1, <2>1, Products
  <2>3. r = 0 => t = q * P /\ q \in Nat
    BY <2>1, <2>2
  <2>4. QED  BY <2>3 DEF q, r
<1>4. QED  BY <1>2, <1>3 DEF IsEdge, P

(* From one edge to a later one it takes a period at least. *)
LEMMA EdgesApart ==
    ASSUME NEW p, p.period \in Nat \ {0}, NEW t, NEW u, IsEdge(p, t), IsEdge(p, u)
    PROVE  /\ t \in Nat /\ u \in Nat
           /\ t < u => t + p.period <= u
           /\ IsEdge(p, t + p.period)
<1> DEFINE P == p.period
<1>1. P \in Nat \ {0}
  OBVIOUS
<1>2. PICK j \in Nat : t = j * P
  BY DEF IsEdge
<1>3. PICK k \in Nat : u = k * P
  BY DEF IsEdge
<1> HIDE DEF P
<1>4. t \in Nat /\ u \in Nat
  BY <1>1, <1>2, <1>3, SMT
<1>5. t < u => t + P <= u
  BY <1>1, <1>2, <1>3, <1>4, Products
<1>6. t + P = (j + 1) * P
  BY <1>1, <1>2, Products
<1>7. QED  BY <1>4, <1>5, <1>6 DEF IsEdge, P

Counts(p) == p.period \in Nat \ {0} /\ _build_info(p.ctr) \in Nat \ {0}

IsReliableWait(p, w) ==
    /\ w.kind \in {"wait_cycles", "wait_time", "wait_for", "wait_next"}
    /\ w.n \in Nat
    /\ w.kind \in {"wait_cycles", "wait_time"} => w.n > 0
    /\ w.kind = "wait_for" => w.n < _build_info(p.ctr)

(* A wait for a value of the counter ends when the counter has it. *)
LEMMA CounterWaitEnds ==
    ASSUME NEW p, Counts(p), NEW w, NEW k \in Nat, NEW n \in 0 .. _build_info(p.ctr) - 1,
           (w.kind = "wait_for" /\ n = w.n) \/ (w.kind = "wait_next" /\ n = 0)
    PROVE  /\ CyclesUntil(n, k, _build_info(p.ctr)) \in Nat \ {0}
           /\ Ends(p, w, k * p.period,
                   k * p.period + CyclesUntil(n, k, _build_info(p.ctr)) * p.period)
<1> DEFINE P == p.period
           M == _build_info(p.ctr)
           t == k * P
           d == CyclesUntil(n, k, M)
           e == t + d * P
<1>1. /\ P \in Nat \ {0} /\ p.period = P
      /\ M \in Nat \ {0} /\ n \in 0 .. M - 1
  BY DEF Counts
<1> HIDE DEF P, M
<1>2. d \in 1 .. M /\ (k + d) % M = n /\ \A m \in k + 1 .. k + d - 1 : m % M # n
  <2>1. d \in 1 .. M
    BY <1>1, CountsTo
  <2>2. (k + d) % M = n
    BY <1>1, CountsTo, SMT
  <2>3. \A m \in k + 1 .. k + d - 1 : m % M # n
    BY <1>1, CountsTo, SMT
  <2>4. QED  BY <2>1, <2>2, <2>3
<1>3. e = t + d * P /\ t = k * P
  OBVIOUS
<1>4. \A u : IsOver(p, w, t, u) <=> u > t /\ u % P = 0 /\ (u \div P) % M = n
  BY DEF IsOver, P, M
<1> HIDE DEF d, e, t
<1>5. k + d \in Nat /\ d \in Nat /\ k < k + d
  BY <1>2
<1>6. /\ t \in Int /\ d * P \in Int /\ (k + d) * P = k * P + d * P
      /\ k * P + P <= (k + d) * P /\ 0 * P <= k * P /\ 0 * P = 0
  BY <1>1, <1>5, <1>3, Products
<1>7. e = (k + d) * P /\ t + P <= e /\ t \in Nat /\ e \in Nat
  BY <1>1, <1>3, <1>6
<1>8. e % P = 0 /\ e \div P = k + d
  BY <1>1, <1>5, <1>7, Edges DEF IsEdge
<1>9. ASSUME NEW v \in t .. e - 1, IsOver(p, w, t, v)
      PROVE  FALSE
  <2>1. v > t /\ v % P = 0 /\ (v \div P) % M = n
    BY <1>9, <1>4, Zenon
  <2>2. v \in Nat
    BY <1>7
  <2>3. PICK m \in Nat : v = m * P /\ v \div P = m
    BY <2>1, <2>2, <1>1, Edges DEF IsEdge
  <2>4. k * P < m * P /\ m * P < (k + d) * P
    BY <2>1, <2>3, <1>1, <1>7, <1>3
  <2>5. k < m /\ m < k + d
    BY <2>4, <2>3, <1>1, <1>5, Products
  <2>6. m \in k + 1 .. k + d - 1
    BY <2>5, <2>3, <1>5
  <2>7. QED  BY <2>1, <2>6, <2>3, <1>2
<1>10. e > t
  BY <1>1, <1>7
<1>11. (e \div P) % M = n
  BY <1>2, <1>8, Zenon
<1>12. IsOver(p, w, t, e)
  BY <1>8, <1>10, <1>11, <1>4, Zenon
<1>13. Ends(p, w, t, e)
  BY <1>9, <1>12, Zenon DEF Ends
<1>14. QED  BY <1>2, <1>5, <1>13 DEF e, d, t, P, M

(* A wait for a time ends at the first edge from then on. *)
LEMMA FirstEdgeEnds ==
    ASSUME NEW p, Counts(p), NEW w, NEW k \in Nat, NEW n \in Nat, NEW d \in Nat \ {0},
           n <= d * p.period, d * p.period < n + p.period,
           \A u : IsOver(p, w, k * p.period, u) <=>
                     /\ u > k * p.period /\ u % p.period = 0
                     /\ u >= k * p.period + n
    PROVE  Ends(p, w, k * p.period, k * p.period + d * p.period)
<1> DEFINE P == p.period
           t == k * P
           e == (k + d) * P
<1>1. P \in Nat \ {0} /\ n <= d * P /\ d * P < n + P
  BY DEF Counts
<1>2. \A u : IsOver(p, w, t, u) <=> u > t /\ u % P = 0 /\ u >= t + n
  OBVIOUS
<1>3. p.period = P
  OBVIOUS
<1> HIDE DEF P
<1>4. /\ e = t + d * P /\ t + P <= e /\ t \in Nat /\ e \in Nat /\ k + d \in Nat
      /\ d * P \in Nat
  BY <1>1, Products
<1>5. e % P = 0
  BY <1>1, <1>4, Edges, <1>3 DEF IsEdge
<1>6. IsOver(p, w, t, e)
  BY <1>1, <1>2, <1>4, <1>5
<1>7. ASSUME NEW v \in t .. e - 1, IsOver(p, w, t, v) PROVE FALSE
  <2>1. v > t /\ v % P = 0 /\ v >= t + n /\ v \in Nat
    BY <1>2, <1>4, <1>7
  <2>2. PICK m \in Nat : v = m * P
    BY <2>1, <1>1, <1>3, Edges DEF IsEdge
  <2>3. v + P <= e
    BY <2>1, <2>2, <1>1, <1>4, <1>7, Products
  <2>4. QED  BY <2>1, <2>3, <1>1, <1>4
<1>8. QED  BY <1>4, <1>6, <1>7 DEF Ends, P

(* Each wait is lowered to a number of cycles, at least one, and ends at   *)
(* the first time that is right, as it is written.                         *)
LEMMA LoweredWaitEnds ==
    ASSUME NEW p, Counts(p), NEW w, IsReliableWait(p, w), NEW t, IsEdge(p, t)
    PROVE  /\ t + lower_await(p, w, t) > t
           /\ IsEdge(p, t + lower_await(p, w, t))
           /\ Ends(p, w, t, t + lower_await(p, w, t))
<1> DEFINE P == p.period
           M == _build_info(p.ctr)
<1>1. P \in Nat \ {0} /\ M \in Nat \ {0}
  BY DEF Counts
<1>2. PICK k \in Nat : t = k * P
  BY DEF IsEdge
<1>3. t \div P = k /\ t \in Nat
  <2>1. t \in Nat
    BY <1>1, <1>2, EdgesApart
  <2>2. QED  BY <2>1, <1>1, <1>2, Edges
<1>4. SUFFICES \E d \in Nat \ {0} : /\ lower_await(p, w, t) = d * P
                                    /\ Ends(p, w, k * P, k * P + d * P)
  <2>1. PICK d \in Nat \ {0} : lower_await(p, w, t) = d * P /\ Ends(p, w, k * P, k * P + d * P)
    BY <1>4
  <2> DEFINE D == d * P
  <2>2. D \in Nat /\ D >= P
    BY <2>1, <1>1, Products
  <2>3. t + D = (k + d) * P /\ k + d \in Nat
    BY <1>1, <1>2, Products
  <2> HIDE DEF D
  <2>4. t + D > t
    BY <2>2, <1>1, <1>3
  <2>5. IsEdge(p, t + D)
    BY <2>3 DEF IsEdge
  <2>6. Ends(p, w, t, t + D) /\ lower_await(p, w, t) = D
    BY <2>1, <1>2 DEF D
  <2>7. QED  BY <2>4, <2>5, <2>6
<1>5. CASE w.kind = "wait_cycles"
  <2>1. w.n \in Nat \ {0} /\ lower_await(p, w, t) = w.n * P
    BY <1>5 DEF IsReliableWait, lower_await
  <2>2. w.n * P \in Nat
    BY <2>1, <1>1, SMT
  <2>3. \A u : IsOver(p, w, k * P, u) <=>
                  u > k * P /\ u % P = 0 /\ u >= k * P + w.n * P
    BY <1>5 DEF IsOver
  <2>4. Ends(p, w, k * P, k * P + w.n * P)
    <3> DEFINE n == w.n * P
    <3>1. n \in Nat /\ n <= n /\ n < n + P
      BY <2>2, <1>1
    <3>2. QED  BY <3>1, <2>1, <2>3, FirstEdgeEnds
  <2>5. QED  BY <2>1, <2>4
<1>6. CASE w.kind = "wait_time"
  <2> DEFINE d == (w.n + P - 1) \div P
             r == (w.n + P - 1) % P
  <2>1. w.n \in Nat \ {0} /\ lower_await(p, w, t) = d * P
    BY <1>6 DEF IsReliableWait, lower_await, _lower_time
  <2>2. d \in Nat /\ r \in 0 .. P - 1 /\ w.n + P - 1 = d * P + r
    <3> DEFINE a == w.n + P - 1
    <3>1. a \in Nat
      BY <2>1, <1>1
    <3> HIDE DEF a, P
    <3>2. a \div P \in Nat /\ a % P \in 0 .. P - 1 /\ a = (a \div P) * P + (a % P)
      BY <3>1, <1>1, Division
    <3>3. QED  BY <3>2 DEF a
  <2>3. \A u : IsOver(p, w, k * P, u) <=> u > k * P /\ u % P = 0 /\ u >= k * P + w.n
    BY <1>6 DEF IsOver
  <2> HIDE DEF d, r
  <2>4. d * P \in Int /\ 0 * P = 0
    BY <2>2, <1>1, Products
  <2>5. w.n <= d * P /\ d * P < w.n + P
    BY <2>1, <2>2, <2>4, <1>1
  <2>6. d # 0
    BY <2>1, <2>4, <2>5
  <2>7. Ends(p, w, k * P, k * P + d * P)
    BY <2>1, <2>2, <2>3, <2>5, <2>6, FirstEdgeEnds
  <2>8. QED  BY <2>1, <2>2, <2>6, <2>7
<1>7. CASE w.kind = "wait_for"
  <2>1. w.n \in 0 .. M - 1
    BY <1>1, <1>7 DEF IsReliableWait
  <2>2. lower_await(p, w, t) = CyclesUntil(w.n, k, M) * P
    BY <1>3, <1>7 DEF lower_await, _try_lower_counter_wait, CyclesUntil
  <2>3. /\ CyclesUntil(w.n, k, M) \in Nat \ {0}
        /\ Ends(p, w, k * P, k * P + CyclesUntil(w.n, k, M) * P)
    BY <2>1, <1>7, CounterWaitEnds
  <2>4. QED  BY <2>2, <2>3
<1>8. CASE w.kind = "wait_next"
  <2> DEFINE c == k % M
  <2>1. lower_await(p, w, t) = (M - c) * P
    BY <1>3, <1>8 DEF lower_await, _try_lower_counter_wait
  <2>2. 0 \in 0 .. M - 1
    BY <1>1
  <2>3. CyclesUntil(0, k, M) = M - c
    <3>1. c \in 0 .. M - 1
      BY <1>1, Division
    <3>2. CyclesUntil(0, k, M) = (((0 - c) + M - 1) % M) + 1
      BY DEF CyclesUntil
    <3> HIDE DEF c, M
    <3>3. (0 - c) + M - 1 = 0 * M + ((M - 1) - c) /\ (M - 1) - c \in 0 .. M - 1
      BY <3>1, <1>1
    <3>4. ((0 - c) + M - 1) % M = (M - 1) - c
      BY <3>3, <1>1, DivisionIs
    <3>5. QED  BY <3>1, <3>2, <3>4, <1>1
  <2>4. /\ CyclesUntil(0, k, M) \in Nat \ {0}
        /\ Ends(p, w, k * P, k * P + CyclesUntil(0, k, M) * P)
    BY <2>2, <1>8, CounterWaitEnds
  <2>5. QED  BY <2>1, <2>3, <2>4
<1>9. QED  BY <1>5, <1>6, <1>7, <1>8 DEF IsReliableWait

-----------------------------------------------------------------------------
(* The text: cases and labels are found by the number of waits before them.*)

IsText(body) == Len(body) \in Nat /\ DOMAIN body = 1 .. Len(body)

(* The number of suspensions counts, and each wait has a number of its own. *)
LEMMA StateCounter ==
    ASSUME NEW body, IsText(body), NEW i \in DOMAIN body, IsWait(body[i])
    PROVE  /\ state_counter(body, i) \in Nat \ {0}
           /\ \A j \in 1 .. i - 1 : state_counter(body, j) < state_counter(body, i)
<1> DEFINE Waits(n) == {k \in 1 .. n : IsWait(body[k])}
<1>1. i \in Nat \ {0}
  BY DEF IsText
<1>2. ASSUME NEW n \in Nat
      PROVE  IsFiniteSet(Waits(n)) /\ Cardinality(Waits(n)) \in Nat
  <2>1. IsFiniteSet(1 .. n)
    BY FS_Interval
  <2>2. Waits(n) \in SUBSET (1 .. n)
    OBVIOUS
  <2>3. IsFiniteSet(Waits(n))
    BY <2>1, <2>2, FS_Subset
  <2>4. QED  BY <2>3, FS_CardinalityType
<1>3. i \in Waits(i)
  BY <1>1
<1>4. Cardinality(Waits(i)) \in Nat \ {0}
  <2>1. Waits(i) # {}
    BY <1>3
  <2>2. QED  BY <2>1, <1>1, <1>2, FS_EmptySet
<1>5. ASSUME NEW j \in 1 .. i - 1 PROVE Cardinality(Waits(j)) < Cardinality(Waits(i))
  <2>1. j \in Nat
    OBVIOUS
  <2>2. Waits(j) \in SUBSET Waits(i) /\ i \notin Waits(j)
    BY <1>1
  <2>3. Cardinality(Waits(j)) <= Cardinality(Waits(i)) /\ Cardinality(Waits(i)) # Cardinality(Waits(j))
    BY <2>2, <1>1, <1>2, <1>3, FS_Subset
  <2>4. Cardinality(Waits(j)) \in Nat /\ Cardinality(Waits(i)) \in Nat
    BY <2>1, <1>1, <1>2
  <2> HIDE DEF Waits
  <2>5. QED  BY <2>3, <2>4
<1>6. QED  BY <1>4, <1>5 DEF state_counter

(* The case with the number of a wait is where the wait is. *)
LEMMA CaseOfWait ==
    ASSUME NEW body, IsText(body), NEW i \in DOMAIN body, IsWait(body[i])
    PROVE  CaseLine(body, state_counter(body, i)) = i
<1> DEFINE n == state_counter(body, i)
           c == CaseLine(body, n)
<1>1. n # 0
  BY StateCounter
<1>2. c = CHOOSE j \in DOMAIN body : IsWait(body[j]) /\ state_counter(body, j) = n
  BY <1>1 DEF CaseLine
<1>3. c \in DOMAIN body /\ IsWait(body[c]) /\ state_counter(body, c) = n
  BY <1>2
<1> HIDE DEF c
<1>4. c < i => state_counter(body, c) < n /\ n \in Nat
  <2> HAVE c < i
  <2>1. c \in 1 .. i - 1
    BY <1>3 DEF IsText
  <2>2. QED  BY <2>1, StateCounter
<1>5. i < c => n < state_counter(body, c) /\ n \in Nat
  <2> HAVE i < c
  <2>1. i \in 1 .. c - 1
    BY <1>3 DEF IsText
  <2>2. QED  BY <2>1, <1>3, StateCounter
<1>6. c = i
  BY <1>3, <1>4, <1>5 DEF IsText
<1>7. QED  BY <1>6 DEF c

(* A goto leads to the loop it was printed for. *)
LEMMA LabelOfLoop ==
    ASSUME NEW p, Compiles(p), NEW i \in DOMAIN p.body, p.body[i] = While
    PROVE  LabelLine(p.body, state_counter(p.body, i)) = i
<1> DEFINE n == state_counter(p.body, i)
           c == LabelLine(p.body, n)
<1>1. c = CHOOSE j \in DOMAIN p.body : p.body[j] = While /\ state_counter(p.body, j) = n
  BY DEF LabelLine
<1>2. c \in DOMAIN p.body /\ p.body[c] = While /\ state_counter(p.body, c) = n
  BY <1>1
<1>3. QED  BY <1>2, Zenon DEF Compiles

-----------------------------------------------------------------------------
(* The invariant. *)

(* No loop ends before line i, so that line i is executed. *)
Live(p, i) == i \in DOMAIN p.body /\ \A k \in 1 .. i - 1 : p.body[k].s # "end"

TypeOK ==
    /\ proc \in Processes /\ Reliable(proc)
    /\ pc \in Nat /\ tick \in Nat /\ wake \in Nat /\ end \in Nat /\ at \in Nat
    /\ running \in BOOLEAN
    /\ log \in Seq(Nat \X Nat)

(* Time stands at an edge, and so does the end of a call. *)
ClockOK ==
    /\ IsEdge(proc, tick) /\ IsEdge(proc, end)
    /\ running => tick <= end
    /\ ~running => at = 0

(* Every line that was executed follows the one before it. *)
LogFollows ==
    \A k \in DOMAIN log :
        IF k = 1 THEN log[1] = <<1, 0>> ELSE Follows(proc, log[k - 1], log[k])

LastLine == log[Len(log)]

(* The next line, now, follows the last one that was executed. *)
IsNext(i, t) ==
    /\ Live(proc, i)
    /\ IF log = << >> THEN i = 1 /\ t = 0 ELSE Follows(proc, LastLine, <<i, t>>)

(* The coroutine has returned at a wait that ends at wake. *)
Sleeping ==
    /\ Live(proc, LastLine[1]) /\ IsWait(proc.body[LastLine[1]])
    /\ pc = state_counter(proc.body, LastLine[1])
    /\ Ends(proc, proc.body[LastLine[1]], LastLine[2], wake)
    /\ wake > tick /\ IsEdge(proc, wake)

Untouched == log = << >> /\ tick = 0 /\ pc = 0 /\ ~running

ProcessInv ==
    /\ TypeOK /\ ClockOK /\ LogFollows
    /\ IF at # 0 THEN IsNext(at, tick) ELSE Untouched \/ (log # << >> /\ Sleeping)

-----------------------------------------------------------------------------
(* The lines that are executed. *)

LEMMA ProcessFacts ==
    ASSUME NEW p \in Processes, Reliable(p)
    PROVE  /\ IsText(p.body) /\ Counts(p) /\ Compiles(p)
           /\ \A i \in DOMAIN p.body : IsLine(p.body, i)
           /\ \A i \in DOMAIN p.body : IsWait(p.body[i]) => IsReliableWait(p, p.body[i])
<1>1. IsText(p.body) /\ Counts(p) /\ \A i \in DOMAIN p.body : IsLine(p.body, i)
  BY ProcessesAssumption DEF IsText, Counts
<1>2. ASSUME NEW i \in DOMAIN p.body, IsWait(p.body[i]) PROVE IsReliableWait(p, p.body[i])
  BY <1>1, <1>2 DEF IsLine, Reliable, WaitsForSomething, IsReliableWait
<1>3. QED  BY <1>1, <1>2 DEF Reliable

(* The first line is executed, and so is the one behind a line that is not *)
(* the end of a loop.                                                      *)
LEMMA LiveLines ==
    ASSUME NEW p \in Processes, Reliable(p)
    PROVE  /\ Live(p, 1)
           /\ \A i \in DOMAIN p.body :
                 Live(p, i) /\ p.body[i].s # "end" => Live(p, i + 1)
<1>1. PICK e \in DOMAIN p.body :
          p.body[e].s = "end" /\ \A i \in 1 .. e - 1 : p.body[i].s # "end"
  BY DEF Reliable, LoopsAndWaits
<1>2. IsText(p.body)
  BY ProcessFacts
<1>3. Live(p, 1)
  BY <1>1, <1>2 DEF Live, IsText
<1>4. ASSUME NEW i \in DOMAIN p.body, Live(p, i), p.body[i].s # "end"
      PROVE  Live(p, i + 1)
  <2>1. i \in Nat /\ e \in Nat /\ i < e
    BY <1>1, <1>2, <1>4 DEF Live, IsText
  <2>2. i + 1 \in DOMAIN p.body
    BY <2>1, <1>1, <1>2 DEF IsText
  <2>3. ASSUME NEW k \in 1 .. (i + 1) - 1 PROVE p.body[k].s # "end"
    BY <2>1, <1>1
  <2>4. \A k \in 1 .. (i + 1) - 1 : p.body[k].s # "end"
    BY <2>3
  <2>5. QED  BY ONLY <2>2, <2>4 DEF Live
<1>5. QED  BY <1>3, <1>4

LEMMA NextOfLine ==
    ASSUME TypeOK, at # 0, IsNext(at, tick)
    PROVE  /\ at \in DOMAIN proc.body /\ Live(proc, at) /\ IsLine(proc.body, at)
           /\ IsText(proc.body) /\ at \in 1 .. Len(proc.body)
<1>1. at \in DOMAIN proc.body /\ Live(proc, at)
  BY DEF IsNext, Live
<1>2. QED  BY <1>1, ProcessFacts DEF TypeOK, IsText

(* A line is executed: the log grows by it. *)
LEMMA LogGrows ==
    ASSUME ProcessInv, at # 0, Execute, proc' = proc
    PROVE  /\ log' \in Seq(Nat \X Nat) /\ log' # << >>
           /\ LastLine' = <<at, tick>>
           /\ LogFollows'
<1>1. log \in Seq(Nat \X Nat) /\ at \in Nat /\ tick \in Nat
  BY DEF ProcessInv, TypeOK
<1>2. log' = Append(log, <<at, tick>>)
  BY DEF Execute
<1>3. <<at, tick>> \in Nat \X Nat
  BY <1>1
<1> DEFINE e == <<at, tick>>
<1> HIDE DEF e
<1>4. e \in Nat \X Nat /\ log' = Append(log, e)
  BY <1>2, <1>3 DEF e
<1>5. /\ log' \in Seq(Nat \X Nat) /\ Len(log') = Len(log) + 1 /\ Len(log) \in Nat
      /\ log'[Len(log) + 1] = e /\ \A k \in 1 .. Len(log) : log'[k] = log[k]
      /\ DOMAIN log' = 1 .. Len(log) + 1 /\ DOMAIN log = 1 .. Len(log)
  BY <1>1, <1>4
<1>6. log' # << >> /\ LastLine' = e
  BY <1>5 DEF LastLine
<1>7. ASSUME NEW k \in 1 .. Len(log) + 1
      PROVE  IF k = 1 THEN log'[1] = <<1, 0>> ELSE Follows(proc, log'[k - 1], log'[k])
  <2>1. CASE k \in 1 .. Len(log)
    <3>1. log'[k] = log[k] /\ (k # 1 => log'[k - 1] = log[k - 1])
      BY <2>1, <1>5
    <3>2. IF k = 1 THEN log[1] = <<1, 0>> ELSE Follows(proc, log[k - 1], log[k])
      BY <2>1, <1>5 DEF ProcessInv, LogFollows
    <3>3. QED  BY <3>1, <3>2
  <2>2. CASE k = Len(log) + 1
    <3>1. log'[k] = e
      BY <2>2, <1>5
    <3>2. CASE log = << >>
      <4>1. k = 1 /\ at = 1 /\ tick = 0
        BY <3>2, <2>2 DEF ProcessInv, IsNext
      <4>2. QED  BY <4>1, <3>1 DEF e
    <3>3. CASE log # << >>
      <4>1. Len(log) # 0 /\ Len(log) \in Nat
        BY <3>3, <1>1, <1>5
      <4>2. k # 1 /\ k - 1 = Len(log) /\ log'[k - 1] = log[Len(log)]
        BY <4>1, <2>2, <1>5
      <4>3. Follows(proc, log[Len(log)], e)
        BY <3>3 DEF ProcessInv, IsNext, LastLine, e
      <4>4. QED  BY <3>1, <4>2, <4>3
    <3>4. QED  BY <3>2, <3>3
  <2>3. QED  BY <2>1, <2>2, <1>5
<1>8. LogFollows'
  BY <1>5, <1>7 DEF LogFollows
<1>9. QED  BY <1>5, <1>6, <1>8 DEF e

-----------------------------------------------------------------------------
(* Each step preserves the invariant. *)

LEMMA InitialProcess == Init => ProcessInv
<1> SUFFICES ASSUME Init PROVE ProcessInv
  OBVIOUS
<1>1. proc \in Processes /\ Reliable(proc)
  BY DEF Init
<1>2. proc.period \in Nat \ {0}
  BY <1>1, ProcessesAssumption
<1>3. 0 = 0 * proc.period
  BY <1>2, Products
<1>4. IsEdge(proc, 0)
  BY <1>3 DEF IsEdge
<1>5. TypeOK
  <2>1. \A S : << >> \in Seq(S)
    OBVIOUS
  <2>2. log \in Seq(Nat \X Nat)
    BY <2>1 DEF Init
  <2>3. QED  BY <1>1, <2>2 DEF Init, TypeOK
<1>6. ClockOK /\ LogFollows /\ Untouched
  BY <1>4 DEF Init, ClockOK, LogFollows, Untouched
<1>7. QED  BY <1>5, <1>6 DEF Init, ProcessInv

(* What the invariant says of a process that sleeps. *)
LEMMA SleepingLine ==
    ASSUME TypeOK, Sleeping
    PROVE  /\ pc \in Nat \ {0}
           /\ Resumed = LastLine[1] + 1 /\ LastLine[1] \in Nat
           /\ Live(proc, LastLine[1] + 1)
           /\ Follows(proc, LastLine, <<LastLine[1] + 1, wake>>)
<1> DEFINE L == LastLine[1]
<1>1. Live(proc, L) /\ IsWait(proc.body[L]) /\ pc = state_counter(proc.body, L)
  BY DEF Sleeping
<1>2. L \in DOMAIN proc.body /\ IsText(proc.body)
  BY <1>1, ProcessFacts DEF TypeOK, Live
<1>3. L \in Nat /\ proc.body[L].s = "wait"
  BY <1>1, <1>2 DEF IsText, IsWait
<1>4. pc \in Nat \ {0} /\ CaseLine(proc.body, pc) = L
  BY <1>1, <1>2, StateCounter, CaseOfWait
<1>5. Live(proc, L + 1)
  BY <1>1, <1>2, <1>3, LiveLines DEF TypeOK
<1>6. Resumed = L + 1
  BY <1>4, <1>5 DEF Resumed, Entered, Live
<1>7. Follows(proc, LastLine, <<L + 1, wake>>)
  BY <1>3 DEF Sleeping, Follows
<1>8. QED  BY <1>3, <1>4, <1>5, <1>6, <1>7

LEMMA AwakeOrAsleep ==
    ASSUME ProcessInv
    PROVE  /\ at = 0 /\ running => log # << >> /\ Sleeping /\ ~Untouched
           /\ at = 0 /\ pc # 0 => log # << >> /\ Sleeping
           /\ at = 0 /\ pc = 0 => Untouched
<1>1. Sleeping => pc # 0
  BY SleepingLine DEF ProcessInv
<1>2. QED  BY <1>1 DEF ProcessInv, Untouched

(* The coroutine goes on behind its wait, at the time the wait ends. *)
LEMMA Wakes ==
    ASSUME ProcessInv, InLoop, tick' = wake, at' = Resumed, tick < end, wake <= end,
           UNCHANGED <<proc, pc, wake, running, end, log>>
    PROVE  ProcessInv'
<1>1. TypeOK /\ ClockOK /\ LogFollows /\ at = 0 /\ log # << >> /\ Sleeping
  BY AwakeOrAsleep DEF InLoop, ProcessInv
<1> DEFINE L == LastLine[1]
<1>2. /\ at' = L + 1 /\ L \in Nat /\ Live(proc, L + 1)
      /\ Follows(proc, LastLine, <<L + 1, wake>>)
  BY <1>1, SleepingLine
<1>3. TypeOK'
  BY <1>1, <1>2 DEF TypeOK
<1>4. ClockOK'
  BY <1>1 DEF ClockOK, Sleeping, IsEdge, InLoop
<1>5. LogFollows'
  BY <1>1 DEF LogFollows
<1>6. IsNext(at, tick)'
  <2>1. LastLine' = LastLine
    BY DEF LastLine
  <2>2. Live(proc, L + 1) /\ ~(log = << >>)
    BY <1>1, <1>2
  <2> HIDE DEF L
  <2>3. QED  BY <1>2, <2>1, <2>2 DEF IsNext
<1>7. at' # 0
  BY <1>2
<1>8. QED  BY <1>3, <1>4, <1>5, <1>6, <1>7 DEF ProcessInv

LEMMA CycleKeeps == ASSUME ProcessInv, Cycle PROVE ProcessInv'
<1>1. /\ TypeOK /\ ClockOK /\ LogFollows /\ at = 0 /\ running
      /\ log # << >> /\ Sleeping /\ InLoop
  BY AwakeOrAsleep DEF Cycle, InLoop, ProcessInv
<1>2. /\ tick < end /\ tick' = tick + proc.period
      /\ at' = IF pc >= 0 /\ tick' >= wake THEN Resumed ELSE 0
      /\ UNCHANGED <<proc, pc, wake, running, end, log>>
  BY DEF Cycle
<1>3. proc.period \in Nat \ {0} /\ tick \in Nat /\ wake \in Nat /\ end \in Nat /\ pc \in Nat
  BY <1>1, ProcessesAssumption DEF TypeOK
<1>4. IsEdge(proc, tick) /\ IsEdge(proc, end) /\ IsEdge(proc, wake) /\ wake > tick
  BY <1>1 DEF ClockOK, Sleeping
<1>5. tick' <= end /\ tick' <= wake /\ IsEdge(proc, tick + proc.period)
  <2>1. tick + proc.period <= end /\ IsEdge(proc, tick + proc.period)
    BY <1>2, <1>3, <1>4, EdgesApart
  <2>2. tick < wake
    BY <1>3, <1>4
  <2>3. tick + proc.period <= wake
    BY <2>2, <1>3, <1>4, EdgesApart
  <2>4. QED  BY <2>1, <2>3, <1>2
<1>6. CASE tick' >= wake
  <2>1. tick' = wake /\ wake <= end /\ at' = Resumed
    BY <1>2, <1>3, <1>5, <1>6
  <2>2. QED  BY <2>1, <1>1, <1>2, Wakes
<1>7. CASE ~(tick' >= wake)
  <2>1. at' = 0 /\ wake > tick'
    BY <1>2, <1>3, <1>7
  <2>2. TypeOK'
    BY <2>1, <1>1, <1>2, <1>3 DEF TypeOK
  <2>3. ClockOK'
    BY <2>1, <1>1, <1>2, <1>5 DEF ClockOK, IsEdge
  <2>4. LogFollows'
    BY <1>1, <1>2 DEF LogFollows
  <2>5. Sleeping'
    BY <2>1, <1>1, <1>2 DEF Sleeping, LastLine, IsEdge
  <2>6. log' # << >>
    BY <1>1, <1>2
  <2>7. QED  BY <2>1, <2>2, <2>3, <2>4, <2>5, <2>6 DEF ProcessInv
<1>8. QED  BY <1>6, <1>7

LEMMA CounterJumpKeeps == ASSUME ProcessInv, CounterJump PROVE ProcessInv'
  BY Wakes DEF CounterJump

LEMMA ReturnKeeps == ASSUME ProcessInv, Return PROVE ProcessInv'
<1>1. /\ TypeOK /\ ClockOK /\ LogFollows /\ at = 0 /\ running
      /\ log # << >> /\ Sleeping
  BY AwakeOrAsleep DEF Return, InLoop, ProcessInv
<1>2. /\ tick >= end \/ wake > end
      /\ tick' = end /\ running' = FALSE
      /\ UNCHANGED <<proc, pc, wake, end, at, log>>
  BY DEF Return
<1>3. wake > tick'
  BY <1>1, <1>2 DEF TypeOK, ClockOK, Sleeping
<1>4. TypeOK'
  BY <1>1, <1>2 DEF TypeOK
<1>5. ClockOK'
  BY <1>1, <1>2 DEF ClockOK, IsEdge
<1>6. LogFollows'
  BY <1>1, <1>2 DEF LogFollows
<1>7. Sleeping' /\ log' # << >> /\ at' = 0
  BY <1>1, <1>2, <1>3 DEF Sleeping, LastLine, IsEdge
<1>8. QED  BY <1>4, <1>5, <1>6, <1>7 DEF ProcessInv

LEMMA SimRunKeeps == ASSUME ProcessInv, sim_run PROVE ProcessInv'
<1>1. TypeOK /\ ClockOK /\ LogFollows /\ ~running
  BY DEF sim_run, _emit_sim_run, ProcessInv
<1>2. at = 0
  BY <1>1 DEF ClockOK
<1>3. PICK n \in 0 .. MaxRun : _emit_sim_run(n)
  BY DEF sim_run
<1>4. n \in Nat /\ proc.period \in Nat \ {0} /\ tick \in Nat
  BY <1>1, <1>3, CyclesAssumption, ProcessesAssumption DEF TypeOK
<1>5. n * proc.period \in Nat /\ IsEdge(proc, tick + n * proc.period)
  <2>1. PICK k \in Nat : tick = k * proc.period
    BY <1>1 DEF ClockOK, IsEdge
  <2>2. n * proc.period \in Nat
    BY <1>4, SMT
  <2>3. tick + n * proc.period = (k + n) * proc.period /\ k + n \in Nat
    BY <2>1, <1>4, Products
  <2>4. QED  BY <2>2, <2>3 DEF IsEdge
<1> DEFINE d == n * proc.period
<1>6. /\ running' = TRUE /\ end' = tick + d
      /\ at' = IF pc = 0 THEN Resumed ELSE 0
      /\ UNCHANGED <<proc, pc, tick, wake, log>>
  BY <1>3 DEF _emit_sim_run
<1>7. d \in Nat /\ IsEdge(proc, tick + d)
  BY <1>5
<1> HIDE DEF d
<1>8. CASE pc = 0
  <2>1. Untouched /\ Live(proc, 1)
    BY <1>1, <1>2, <1>8, AwakeOrAsleep, LiveLines DEF TypeOK
  <2>2. at' = 1
    BY <2>1, <1>6, <1>8 DEF Resumed, CaseLine, Entered, Live
  <2>3. TypeOK'
    BY <2>2, <1>1, <1>4, <1>6, <1>7 DEF TypeOK
  <2>4. ClockOK'
    BY <1>1, <1>4, <1>6, <1>7 DEF ClockOK, IsEdge
  <2>5. LogFollows'
    BY <1>1, <1>6 DEF LogFollows
  <2>6. IsNext(at, tick)'
    BY <2>1, <2>2, <1>6 DEF IsNext, Untouched
  <2>7. QED  BY <2>2, <2>3, <2>4, <2>5, <2>6 DEF ProcessInv
<1>9. CASE pc # 0
  <2>1. log # << >> /\ Sleeping
    BY <1>2, <1>9, AwakeOrAsleep
  <2>2. at' = 0
    BY <1>6, <1>9
  <2>3. TypeOK'
    BY <2>2, <1>1, <1>4, <1>6, <1>7 DEF TypeOK
  <2>4. ClockOK'
    BY <2>2, <1>1, <1>4, <1>6, <1>7 DEF ClockOK, IsEdge
  <2>5. LogFollows'
    BY <1>1, <1>6 DEF LogFollows
  <2>6. Sleeping' /\ log' # << >>
    BY <2>1, <1>6 DEF Sleeping, LastLine, IsEdge
  <2>7. QED  BY <2>2, <2>3, <2>4, <2>5, <2>6 DEF ProcessInv
<1>10. QED  BY <1>8, <1>9

(* A line that takes no time, and is followed by line i. *)
LEMMA Falls ==
    ASSUME ProcessInv, at # 0, Execute, UNCHANGED <<proc, pc, tick, wake, running, end>>,
           NEW i, at' = i, i \in Nat \ {0}, Live(proc, i),
           Follows(proc, <<at, tick>>, <<i, tick>>)
    PROVE  ProcessInv'
<1>1. TypeOK /\ ClockOK
  BY DEF ProcessInv
<1>2. log' \in Seq(Nat \X Nat) /\ log' # << >> /\ LastLine' = <<at, tick>> /\ LogFollows'
  BY LogGrows
<1>3. TypeOK'
  BY <1>1, <1>2 DEF TypeOK
<1>4. ClockOK'
  BY <1>1 DEF ClockOK, IsEdge
<1>5. IsNext(at, tick)'
  <2>1. Follows(proc', LastLine', <<at', tick'>>)
    BY <1>2
  <2>2. Live(proc', at') /\ ~(log' = << >>)
    BY <1>2
  <2>3. QED  BY <2>1, <2>2 DEF IsNext
<1>6. at' # 0
  OBVIOUS
<1>7. QED  BY <1>2, <1>3, <1>4, <1>5, <1>6 DEF ProcessInv

LEMMA StatementKeeps == ASSUME ProcessInv, _lower_behav_stmt PROVE ProcessInv'
<1>1. /\ at # 0 /\ proc.body[at].s \in {"act", "while"} /\ Execute /\ at' = Entered(at + 1)
      /\ UNCHANGED <<proc, pc, tick, wake, running, end>>
  BY DEF _lower_behav_stmt
<1>2. TypeOK /\ IsNext(at, tick)
  BY <1>1 DEF ProcessInv
<1>3. at \in Nat /\ at \in DOMAIN proc.body /\ Live(proc, at)
  BY <1>1, <1>2, NextOfLine DEF TypeOK
<1>4. Live(proc, at + 1)
  BY <1>1, <1>2, <1>3, LiveLines DEF TypeOK
<1>5. at' = at + 1
  BY <1>1, <1>4 DEF Entered, Live
<1>6. Follows(proc, <<at, tick>>, <<at + 1, tick>>)
  BY <1>1 DEF Follows
<1>7. QED  BY <1>1, <1>3, <1>4, <1>5, <1>6, Falls

LEMMA GotoKeeps == ASSUME ProcessInv, Goto PROVE ProcessInv'
<1> DEFINE loop == proc.body[at].loop
<1>1. /\ at # 0 /\ proc.body[at].s = "end" /\ Execute
      /\ at' = LabelLine(proc.body, state_counter(proc.body, loop))
      /\ UNCHANGED <<proc, pc, tick, wake, running, end>>
  BY DEF Goto
<1>2. TypeOK /\ IsNext(at, tick)
  BY <1>1 DEF ProcessInv
<1>3. /\ at \in DOMAIN proc.body /\ Live(proc, at) /\ IsLine(proc.body, at)
      /\ IsText(proc.body) /\ at \in 1 .. Len(proc.body)
  BY <1>1, <1>2, NextOfLine
<1>4. loop \in 1 .. at - 1 /\ proc.body[loop] = While
  BY <1>1, <1>3 DEF IsLine
<1>5. loop \in DOMAIN proc.body /\ loop \in Nat \ {0}
  BY <1>3, <1>4 DEF IsText
<1>6. at' = loop
  BY <1>1, <1>2, <1>4, <1>5, ProcessFacts, LabelOfLoop DEF TypeOK
<1>7. Live(proc, loop)
  BY <1>3, <1>4, <1>5 DEF Live
<1>8. Follows(proc, <<at, tick>>, <<loop, tick>>)
  BY <1>1 DEF Follows
<1> HIDE DEF loop
<1>9. QED  BY <1>1, <1>5, <1>6, <1>7, <1>8, Falls

LEMMA SuspendKeeps == ASSUME ProcessInv, Suspend PROVE ProcessInv'
<1>1. /\ at # 0 /\ IsWait(proc.body[at]) /\ Execute
      /\ wake' = tick + lower_await(proc, proc.body[at], tick)
      /\ pc' = state_counter(proc.body, at) /\ at' = 0
      /\ UNCHANGED <<proc, tick, running, end>>
  BY DEF Suspend
<1>2. TypeOK /\ IsNext(at, tick) /\ ClockOK
  BY <1>1 DEF ProcessInv
<1>3. at \in DOMAIN proc.body /\ Live(proc, at) /\ IsText(proc.body)
  BY <1>1, <1>2, NextOfLine
<1>4. IsReliableWait(proc, proc.body[at]) /\ Counts(proc) /\ IsEdge(proc, tick)
  BY <1>1, <1>2, <1>3, ProcessFacts DEF TypeOK, ClockOK
<1>5. wake' > tick /\ IsEdge(proc, wake') /\ Ends(proc, proc.body[at], tick, wake')
  BY <1>1, <1>4, LoweredWaitEnds
<1>6. wake' \in Nat
  <2>1. proc.period \in Nat \ {0}
    BY <1>4 DEF Counts
  <2>2. QED  BY <2>1, <1>4, <1>5, EdgesApart
<1>7. log' \in Seq(Nat \X Nat) /\ log' # << >> /\ LastLine' = <<at, tick>> /\ LogFollows'
  BY <1>1, LogGrows
<1>8. pc' \in Nat
  BY <1>1, <1>3, StateCounter
<1>9. TypeOK'
  BY <1>1, <1>2, <1>6, <1>7, <1>8 DEF TypeOK
<1>10. ClockOK'
  BY <1>1, <1>2 DEF ClockOK, IsEdge
<1>11. Sleeping'
  <2>1. LastLine'[1] = at /\ LastLine'[2] = tick
    BY <1>7
  <2>2. Live(proc', LastLine'[1]) /\ IsWait(proc'.body[LastLine'[1]])
    BY <2>1, <1>1, <1>3
  <2>3. pc' = state_counter(proc'.body, LastLine'[1])
    BY <2>1, <1>1
  <2>4. Ends(proc', proc'.body[LastLine'[1]], LastLine'[2], wake')
    BY <2>1, <1>1, <1>5
  <2>5. wake' > tick' /\ IsEdge(proc', wake')
    BY <1>1, <1>5
  <2>6. QED  BY <2>2, <2>3, <2>4, <2>5 DEF Sleeping
<1>12. QED  BY <1>1, <1>7, <1>9, <1>10, <1>11 DEF ProcessInv

LEMMA StutterKeeps == ASSUME ProcessInv, UNCHANGED vars PROVE ProcessInv'
  BY DEF ProcessInv, TypeOK, ClockOK, LogFollows, IsNext, Untouched, Sleeping, LastLine,
         Live, IsEdge, vars

-----------------------------------------------------------------------------
(* The theorems. *)

(* In every state the log is what the process is written to do so far, the *)
(* line that comes next is the right one, and a coroutine that has given   *)
(* way sleeps until the time its wait ends.                                *)
THEOREM ProcessInvHolds == Spec => []ProcessInv
<1>1. Init => ProcessInv
  BY InitialProcess
<1>2. ProcessInv /\ [Next]_vars => ProcessInv'
  <2> SUFFICES ASSUME ProcessInv, [Next]_vars PROVE ProcessInv'
    OBVIOUS
  <2>1. CASE sim_run
    BY <2>1, SimRunKeeps
  <2>2. CASE Cycle
    BY <2>2, CycleKeeps
  <2>3. CASE CounterJump
    BY <2>3, CounterJumpKeeps
  <2>4. CASE Return
    BY <2>4, ReturnKeeps
  <2>5. CASE _lower_behav_stmt
    BY <2>5, StatementKeeps
  <2>6. CASE Goto
    BY <2>6, GotoKeeps
  <2>7. CASE Suspend
    BY <2>7, SuspendKeeps
  <2>8. CASE UNCHANGED vars
    BY <2>8, StutterKeeps
  <2>9. QED  BY <2>1, <2>2, <2>3, <2>4, <2>5, <2>6, <2>7, <2>8 DEF Next
<1>3. QED  BY <1>1, <1>2, PTL DEF Spec

(* However a run is divided into calls of sim_run, the process does what   *)
(* it is written to do at the times its waits end, and a call that returns *)
(* has done all there is to do.                                            *)
THEOREM RunsOnTimeHolds == Spec => []RunsOnTime
<1>1. ProcessInv => RunsOnTime
  <2> SUFFICES ASSUME ProcessInv PROVE RunsOnTime
    OBVIOUS
  <2>1. \A k \in DOMAIN log :
           IF k = 1 THEN log[1] = <<1, 0>> ELSE Follows(proc, log[k - 1], log[k])
    BY DEF ProcessInv, LogFollows
  <2>2. ASSUME ~running, tick > 0 \/ log # << >>
        PROVE  /\ log # << >>
               /\ IsWait(proc.body[LastLine[1]])
               /\ \A u \in LastLine[2] .. tick :
                     ~IsOver(proc, proc.body[LastLine[1]], LastLine[2], u)
    <3>1. at = 0 /\ tick \in Nat /\ wake \in Nat /\ log \in Seq(Nat \X Nat)
      BY <2>2 DEF ProcessInv, TypeOK, ClockOK
    <3>2. log # << >> /\ Sleeping
      <4>1. ~Untouched
        BY <2>2, <3>1 DEF Untouched
      <4>2. QED  BY <4>1, <3>1 DEF ProcessInv
    <3>3. LastLine[2] \in Nat
      BY <3>1, <3>2 DEF LastLine
    <3>4. /\ wake > tick
          /\ \A u \in LastLine[2] .. wake - 1 :
                ~IsOver(proc, proc.body[LastLine[1]], LastLine[2], u)
      BY <3>2 DEF Sleeping, Ends
    <3>5. ASSUME NEW u \in LastLine[2] .. tick PROVE u \in LastLine[2] .. wake - 1
      BY <3>1, <3>3, <3>4
    <3>6. IsWait(proc.body[LastLine[1]])
      BY <3>2 DEF Sleeping
    <3>7. QED  BY <3>2, <3>4, <3>5, <3>6
  <2>3. QED  BY <2>1, <2>2 DEF RunsOnTime, LastLine
<1>2. QED  BY <1>1, ProcessInvHolds, PTL

(* Between two calls the coroutine sleeps until an edge that is to come.   *)
THEOREM SleepsUntilAnEdgeHolds == Spec => []SleepsUntilAnEdge
<1>1. ProcessInv => SleepsUntilAnEdge
  <2> SUFFICES ASSUME ProcessInv, ~running, pc # 0
               PROVE  wake > tick /\ wake % proc.period = 0
    BY DEF SleepsUntilAnEdge
  <2>1. Sleeping
    BY AwakeOrAsleep DEF ProcessInv, ClockOK
  <2>2. wake > tick /\ IsEdge(proc, wake)
    BY <2>1 DEF Sleeping
  <2>3. wake \in Nat /\ proc.period \in Nat \ {0}
    BY ProcessesAssumption DEF ProcessInv, TypeOK
  <2>4. wake % proc.period = 0
    BY <2>2, <2>3, Edges
  <2>5. QED  BY <2>2, <2>4
<1>2. QED  BY <1>1, ProcessInvHolds, PTL
=============================================================================
