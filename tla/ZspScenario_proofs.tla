-------------------------- MODULE ZspScenario_proofs --------------------------
(***************************************************************************)
(* The tasks of a scenario, for all programs whose parallel blocks join    *)
(* all their branches and whose branches suspend before they end, any      *)
(* number of threads and any delays: where each frame stands, which        *)
(* branches of a block still live, and what its counter says agree.        *)
(* Lemmas on the frames of one thread come first, then those on all        *)
(* threads, then one for each action, then the theorems.                   *)
(***************************************************************************)
EXTENDS ZspScenario, ZspTimebase_proofs

(* Parallel blocks join all their branches, and a branch suspends before   *)
(* it ends: it has a construct, and no randomization of it may fail.       *)
BranchesSuspend(p) ==
    \A a \in DOMAIN p : \A i \in DOMAIN p[a] :
        p[a][i].kind = "par" =>
            /\ p[a][i].join = "all"
            /\ Len(p[a][i].branches) > 0
            /\ \A j \in 1 .. Len(p[a][i].branches) :
                  /\ Len(p[p[a][i].branches[j]]) > 0
                  /\ p[a][i].branches[j] \notin MayFail

Bodies == {p \in Programs : BranchesSuspend(p)}

-----------------------------------------------------------------------------
(* The frames of one thread. *)

Refs == {NoRef} \cup {ParBlock(t, d, i) : t \in Thread, d \in Nat, i \in Nat}

Counters(p) == UNION {[DOMAIN p[a] -> Nat] : a \in DOMAIN p}

FrameSet(p) ==
    [action : DOMAIN p, idx : Nat, done : Counters(p), par : Refs]

Place == [case : Nat, spawned : Nat]

KindAt(p, f, i) ==
    IF i \in DOMAIN p[f.action] THEN p[f.action][i].kind ELSE "final"

Total(p, f, i) == Len(p[f.action][i].branches)

(* The counters of a frame about to run case c: the blocks before it have  *)
(* counted all their branches, the last of them all but k.                 *)
Counted(p, f, c, k) ==
    \A i \in DOMAIN p[f.action] :
        /\ i >= c => f.done[i] = 0
        /\ (i < c - 1 /\ KindAt(p, f, i) = "par") => f.done[i] = Total(p, f, i)
        /\ (i = c - 1 /\ KindAt(p, f, i) = "par") => f.done[i] + k = Total(p, f, i)

(* What the scheduler knows of a thread: it is on the C stack, it waits    *)
(* for a branch or for an import, or neither.                              *)
Stage(X, H, t) == IF t \in X THEN "runs" ELSE IF t \in H THEN "held" ELSE "free"

FrameOK(p, f) ==
    /\ f.idx \in 1 .. Len(p[f.action]) + 1
    /\ f.done \in [DOMAIN p[f.action] -> Nat]

(* The leaf frame f of a thread that is at place l, has k live branches    *)
(* and is at stage st.                                                     *)
Running(p, f, l, k) ==
    /\ l.case \in f.idx .. Len(p[f.action]) + 1
    /\ k = l.spawned
    /\ k # 0 => KindAt(p, f, l.case) = "par" /\ k <= Total(p, f, l.case)
    /\ Counted(p, f, l.case, 0)

Holding(p, f, k) ==
    /\ f.idx > 1
    /\ KindAt(p, f, f.idx - 1) \in {"par", "import"}
    /\ k # 0 <=> KindAt(p, f, f.idx - 1) = "par"
    /\ Counted(p, f, f.idx, k)

LeafOK(p, f, l, k, st) ==
    /\ st = "runs" => Running(p, f, l, k)
    /\ st = "held" => Holding(p, f, k)
    /\ st = "free" => k = 0 /\ Counted(p, f, f.idx, 0)

(* A frame that has called another. *)
Calling(p, f) ==
    /\ f.idx > 1
    /\ KindAt(p, f, f.idx - 1) = "invoke"
    /\ Counted(p, f, f.idx, 0)

(* The frame of a branch. *)
OfBranch(p, f) == f.action \notin MayFail /\ Len(p[f.action]) > 0

ThreadOK(p, F, l, k, st) ==
    /\ \A d \in 1 .. Len(F) :
          /\ FrameOK(p, F[d])
          /\ d > 1 => F[d].par = NoRef
          /\ d < Len(F) => Calling(p, F[d])
    /\ F = <<>> => k = 0 /\ st = "free"
    /\ F # <<>> => /\ F[1].par # NoRef => OfBranch(p, F[1])
                   /\ LeafOK(p, F[Len(F)], l, k, st)

(* Bodies are sequences of constructs. *)
LEMMA BodyFacts ==
    ASSUME NEW p \in Bodies, NEW a \in DOMAIN p
    PROVE  /\ Len(p[a]) \in Nat /\ DOMAIN p[a] = 1 .. Len(p[a])
           /\ \A i \in DOMAIN p[a] :
                 /\ p[a][i].kind \in {"wait", "invoke", "par", "import"}
                 /\ p[a][i].kind = "wait" => p[a][i].time \in Nat
                 /\ p[a][i].kind = "invoke" => p[a][i].target \in DOMAIN p
                 /\ p[a][i].kind = "par" =>
                       /\ p[a][i].branches \in Seq(DOMAIN p)
                       /\ p[a][i].join = "all"
                       /\ Len(p[a][i].branches) \in Nat \ {0}
<1>1. /\ Len(p[a]) \in Nat /\ DOMAIN p[a] = 1 .. Len(p[a])
      /\ \A i \in DOMAIN p[a] : IsConstruct(p, p[a][i])
  BY ProgramsAssumption DEF Bodies
<1>2. ASSUME NEW i \in DOMAIN p[a]
      PROVE  /\ p[a][i].kind \in {"wait", "invoke", "par", "import"}
             /\ p[a][i].kind = "wait" => p[a][i].time \in Nat
             /\ p[a][i].kind = "invoke" => p[a][i].target \in DOMAIN p
             /\ p[a][i].kind = "par" => p[a][i].branches \in Seq(DOMAIN p)
  BY <1>1, <1>2 DEF IsConstruct
<1>3. ASSUME NEW i \in DOMAIN p[a], p[a][i].kind = "par"
      PROVE  p[a][i].join = "all" /\ Len(p[a][i].branches) \in Nat \ {0}
  <2>1. p[a][i].join = "all" /\ Len(p[a][i].branches) > 0
    BY <1>3 DEF Bodies, BranchesSuspend
  <2>2. Len(p[a][i].branches) \in Nat
    BY <1>2, <1>3, LenProperties
  <2> QED
    BY <2>1, <2>2
<1> QED
  BY <1>1, <1>2, <1>3

(* The types of the fields of a frame. *)
LEMMA FrameFields ==
    ASSUME NEW p \in Bodies, NEW f \in FrameSet(p)
    PROVE  /\ f.action \in DOMAIN p /\ f.idx \in Nat
           /\ f.done \in Counters(p) /\ f.par \in Refs
           /\ \A n \in Nat : /\ [f EXCEPT !.idx = n] \in FrameSet(p)
                              /\ [f EXCEPT !.idx = n].action = f.action
                              /\ [f EXCEPT !.idx = n].idx = n
                              /\ [f EXCEPT !.idx = n].done = f.done
                              /\ [f EXCEPT !.idx = n].par = f.par
           /\ \A c \in Counters(p) : /\ [f EXCEPT !.done = c] \in FrameSet(p)
                                      /\ [f EXCEPT !.done = c].action = f.action
                                      /\ [f EXCEPT !.done = c].idx = f.idx
                                      /\ [f EXCEPT !.done = c].done = c
                                      /\ [f EXCEPT !.done = c].par = f.par
BY DEF FrameSet

(* A sequence whose last element is replaced. *)
WithLast(F, g) == [F EXCEPT ![Len(F)] = g]

(* What WithLast keeps and what it replaces. *)
LEMMA LastReplaced ==
    ASSUME NEW S, NEW F \in Seq(S), F # <<>>, NEW g \in S
    PROVE  /\ Len(F) \in Nat /\ Len(F) > 0 /\ F[Len(F)] \in S
           /\ WithLast(F, g) \in Seq(S)
           /\ Len(WithLast(F, g)) = Len(F)
           /\ WithLast(F, g)[Len(F)] = g
           /\ \A d \in 1 .. Len(F) - 1 : WithLast(F, g)[d] = F[d]
BY DEF WithLast

(* A sequence one longer, and one shorter. *)
LEMMA LastAdded ==
    ASSUME NEW S, NEW F \in Seq(S), NEW g \in S
    PROVE  /\ Append(F, g) \in Seq(S)
           /\ Len(Append(F, g)) = Len(F) + 1
           /\ Append(F, g)[Len(F) + 1] = g
           /\ \A d \in 1 .. Len(F) : Append(F, g)[d] = F[d]
OBVIOUS

(* The sequence without its last element. *)
LEMMA LastRemoved ==
    ASSUME NEW S, NEW F \in Seq(S), F # <<>>
    PROVE  /\ SubSeq(F, 1, Len(F) - 1) \in Seq(S)
           /\ Len(SubSeq(F, 1, Len(F) - 1)) = Len(F) - 1
           /\ \A d \in 1 .. Len(F) - 1 : SubSeq(F, 1, Len(F) - 1)[d] = F[d]
<1>1. Len(F) \in Nat /\ Len(F) > 0 /\ \A d \in 1 .. Len(F) : F[d] \in S
  OBVIOUS
<1>2. ASSUME NEW n \in Nat, \A d \in 1 .. n : F[d] \in S
      PROVE  /\ SubSeq(F, 1, n) \in Seq(S)
             /\ Len(SubSeq(F, 1, n)) = n
             /\ \A d \in 1 .. n : SubSeq(F, 1, n)[d] = F[d]
  BY <1>2, SubSeqProperties
<1>3. Len(F) - 1 \in Nat /\ \A d \in 1 .. Len(F) - 1 : d \in 1 .. Len(F)
  BY <1>1
<1> QED
  BY <1>1, <1>2, <1>3

-----------------------------------------------------------------------------
(* What a case of the emitted function does to the frames of its thread.   *)

(* Past a construct: its counter says that k of its branches live.         *)
LEMMA CountedNext ==
    ASSUME NEW p \in Bodies, NEW f \in FrameSet(p), FrameOK(p, f),
           NEW c \in Nat, Counted(p, f, c, 0),
           NEW k \in Nat, KindAt(p, f, c) = "par" => k = Total(p, f, c)
    PROVE  Counted(p, f, c + 1, k)
<1>1. /\ f.action \in DOMAIN p
      /\ DOMAIN p[f.action] = 1 .. Len(p[f.action]) /\ Len(p[f.action]) \in Nat
      /\ \A i \in DOMAIN p[f.action] : f.done[i] \in Nat
  BY FrameFields, BodyFacts DEF FrameOK
<1>2. ASSUME NEW i \in DOMAIN p[f.action]
      PROVE  /\ i >= c + 1 => f.done[i] = 0
             /\ (i < c + 1 - 1 /\ KindAt(p, f, i) = "par") => f.done[i] = Total(p, f, i)
             /\ (i = c + 1 - 1 /\ KindAt(p, f, i) = "par") => f.done[i] + k = Total(p, f, i)
  <2>1. i \in Nat /\ f.done[i] \in Nat
    BY <1>1
  <2>2. /\ i >= c => f.done[i] = 0
        /\ (i < c - 1 /\ KindAt(p, f, i) = "par") => f.done[i] = Total(p, f, i)
        /\ (i = c - 1 /\ KindAt(p, f, i) = "par") => f.done[i] + 0 = Total(p, f, i)
    BY DEF Counted
  <2> QED
    BY <2>1, <2>2
<1> QED
  BY <1>2 DEF Counted

(* The leaf frame of a thread that has one. *)
LEMMA LeafFacts ==
    ASSUME NEW p \in Bodies, NEW F \in Seq(FrameSet(p)), F # <<>>,
           NEW l, NEW k, NEW st, ThreadOK(p, F, l, k, st)
    PROVE  /\ Len(F) \in Nat /\ Len(F) > 0
           /\ F[Len(F)] \in FrameSet(p) /\ FrameOK(p, F[Len(F)])
           /\ LeafOK(p, F[Len(F)], l, k, st)
           /\ Len(F) > 1 => F[Len(F)].par = NoRef
           /\ F[Len(F)].action \in DOMAIN p /\ F[Len(F)].idx \in Nat
           /\ Len(p[F[Len(F)].action]) \in Nat
           /\ DOMAIN p[F[Len(F)].action] = 1 .. Len(p[F[Len(F)].action])
<1>1. Len(F) \in Nat /\ Len(F) > 0 /\ F[Len(F)] \in FrameSet(p) /\ Len(F) \in 1 .. Len(F)
  OBVIOUS
<1> QED
  BY <1>1, BodyFacts, FrameFields DEF ThreadOK

(* zsp_timebase_run calls the leaf frame's function with its idx. *)
LEMMA Resumes ==
    ASSUME NEW p \in Bodies, NEW F \in Seq(FrameSet(p)), F # <<>>,
           NEW l, NEW k, ThreadOK(p, F, l, k, "free")
    PROVE  k = 0 /\ ThreadOK(p, F, AtCase(F[Len(F)].idx), k, "runs")
<1> DEFINE f == F[Len(F)]
<1>1. /\ f \in FrameSet(p) /\ FrameOK(p, f) /\ LeafOK(p, f, l, k, "free")
      /\ f.idx \in Nat /\ Len(p[f.action]) \in Nat
  BY LeafFacts
<1> HIDE DEF f
<1>2. k = 0 /\ LeafOK(p, f, AtCase(f.idx), k, "runs")
  BY <1>1 DEF LeafOK, Running, AtCase, FrameOK
<1> QED
  BY <1>2 DEF ThreadOK, f

(* A wait that returned in place, and a case without a suspension. *)
LEMMA FallsThrough ==
    ASSUME NEW p \in Bodies, NEW F \in Seq(FrameSet(p)), F # <<>>,
           NEW l \in Place, NEW k, ThreadOK(p, F, l, k, "runs"),
           KindAt(p, F[Len(F)], l.case) = "wait"
    PROVE  k = 0 /\ ThreadOK(p, F, AtCase(l.case + 1), k, "runs")
<1> DEFINE f == F[Len(F)]
<1>1. /\ f \in FrameSet(p) /\ FrameOK(p, f) /\ LeafOK(p, f, l, k, "runs")
      /\ f.idx \in Nat /\ Len(p[f.action]) \in Nat
      /\ DOMAIN p[f.action] = 1 .. Len(p[f.action])
  BY LeafFacts
<1>2. l.case \in Nat /\ KindAt(p, f, l.case) = "wait"
  BY DEF Place
<1> HIDE DEF f
<1>3. k = 0 /\ Counted(p, f, l.case, 0) /\ l.case \in f.idx .. Len(p[f.action]) + 1
  BY <1>1, <1>2 DEF LeafOK, Running
<1>4. l.case \in DOMAIN p[f.action]
  BY <1>2 DEF KindAt
<1>5. Counted(p, f, l.case + 1, 0)
  BY <1>1, <1>2, <1>3, CountedNext
<1>6. LeafOK(p, f, AtCase(l.case + 1), k, "runs")
  BY <1>1, <1>2, <1>3, <1>4, <1>5 DEF LeafOK, Running, AtCase
<1> QED
  BY <1>3, <1>6 DEF ThreadOK, f

(* The leaf frame is to resume at the next case. *)
ResumedNext(F, l) == [F EXCEPT ![Len(F)].idx = l.case + 1]

(* A case that ends leaves the frame at the next one, its counter
   complete. *)
LEMMA ResumesNext ==
    ASSUME NEW p \in Bodies, NEW F \in Seq(FrameSet(p)), F # <<>>,
           NEW l \in Place, NEW k \in Nat, ThreadOK(p, F, l, k, "runs"),
           KindAt(p, F[Len(F)], l.case) # "final",
           NEW n \in Nat,
           KindAt(p, F[Len(F)], l.case) = "par" => n = Total(p, F[Len(F)], l.case)
    PROVE  LET G == ResumedNext(F, l)
               g == G[Len(F)]
           IN  /\ G \in Seq(FrameSet(p)) /\ Len(G) = Len(F) /\ G # <<>>
               /\ \A d \in 1 .. Len(F) - 1 : G[d] = F[d]
               /\ g \in FrameSet(p) /\ FrameOK(p, g) /\ g.par = F[Len(F)].par
               /\ g.action = F[Len(F)].action
               /\ g.idx = l.case + 1 /\ g.idx > 1 /\ g.idx - 1 = l.case
               /\ Counted(p, g, l.case + 1, n)
<1> DEFINE f == F[Len(F)]
           g == [f EXCEPT !.idx = l.case + 1]
           G == WithLast(F, g)
<1>1. /\ f \in FrameSet(p) /\ FrameOK(p, f) /\ LeafOK(p, f, l, k, "runs")
      /\ f.idx \in Nat /\ Len(p[f.action]) \in Nat
      /\ DOMAIN p[f.action] = 1 .. Len(p[f.action])
  BY LeafFacts
<1>2. l.case \in Nat /\ KindAt(p, f, l.case) # "final"
  BY DEF Place
<1>3. ResumedNext(F, l) = G
  BY DEF ResumedNext, WithLast
<1>4. KindAt(p, f, l.case) = "par" => n = Total(p, f, l.case)
  OBVIOUS
<1> HIDE DEF f
<1>5. Counted(p, f, l.case, 0) /\ l.case \in f.idx .. Len(p[f.action]) + 1
  BY <1>1 DEF LeafOK, Running
<1>6. l.case \in DOMAIN p[f.action]
  BY <1>2 DEF KindAt
<1>7. Counted(p, f, l.case + 1, n)
  BY <1>1, <1>2, <1>4, <1>5, CountedNext
<1>8. l.case + 1 \in Nat
  BY <1>2
<1>9. /\ g \in FrameSet(p) /\ g.action = f.action /\ g.idx = l.case + 1
      /\ g.done = f.done /\ g.par = f.par
  BY <1>1, <1>8, FrameFields
<1> HIDE DEF g
<1>10. FrameOK(p, g) /\ g.idx > 1 /\ g.idx - 1 = l.case
  <2>1. l.case \in 1 .. Len(p[f.action])
    BY <1>1, <1>6
  <2>2. g.idx \in 1 .. Len(p[f.action]) + 1 /\ g.idx > 1 /\ g.idx - 1 = l.case
    BY <1>1, <1>9, <2>1
  <2>3. f.done \in [DOMAIN p[f.action] -> Nat]
    BY <1>1 DEF FrameOK
  <2> QED
    BY <1>9, <2>2, <2>3 DEF FrameOK
<1>11. Counted(p, g, l.case + 1, n)
  BY <1>7, <1>9 DEF Counted, KindAt, Total
<1>12. /\ G \in Seq(FrameSet(p)) /\ Len(G) = Len(F) /\ G[Len(F)] = g
       /\ \A d \in 1 .. Len(F) - 1 : G[d] = F[d]
       /\ Len(F) \in Nat /\ Len(F) > 0
  BY <1>9, LastReplaced
<1> HIDE DEF G
<1>13. G # <<>>
  BY <1>12
<1> QED
  BY <1>3, <1>9, <1>10, <1>11, <1>12, <1>13 DEF f

(* What ThreadOK asks of the frames below the leaf. *)
Callers(p, F) ==
    \A d \in 1 .. Len(F) - 1 :
        FrameOK(p, F[d]) /\ Calling(p, F[d]) /\ (d > 1 => F[d].par = NoRef)

Bottom(p, F) == F[1].par # NoRef => OfBranch(p, F[1])

(* ThreadOK as what holds below the leaf and what holds of the leaf. *)
LEMMA FromParts ==
    ASSUME NEW p \in Bodies, NEW F \in Seq(FrameSet(p)), F # <<>>,
           NEW l, NEW k, NEW st
    PROVE  ThreadOK(p, F, l, k, st) <=>
              /\ Callers(p, F) /\ Bottom(p, F)
              /\ FrameOK(p, F[Len(F)])
              /\ Len(F) > 1 => F[Len(F)].par = NoRef
              /\ LeafOK(p, F[Len(F)], l, k, st)
<1>1. Len(F) \in Nat /\ Len(F) > 0
  OBVIOUS
<1>2. \A d \in 1 .. Len(F) : d = Len(F) \/ d \in 1 .. Len(F) - 1
  BY <1>1
<1>3. \A d \in 1 .. Len(F) - 1 : d \in 1 .. Len(F) /\ d < Len(F)
  BY <1>1
<1>4. Len(F) \in 1 .. Len(F) /\ ~(Len(F) < Len(F))
  BY <1>1
<1> QED
  BY <1>1, <1>2, <1>3, <1>4 DEF ThreadOK, Callers, Bottom

(* Only the leaf frame changes, to one of the same action and block. *)
LEMMA LeafChanges ==
    ASSUME NEW p \in Bodies, NEW F \in Seq(FrameSet(p)), F # <<>>,
           NEW l, NEW k, NEW st, ThreadOK(p, F, l, k, st),
           NEW G \in Seq(FrameSet(p)), Len(G) = Len(F),
           \A d \in 1 .. Len(F) - 1 : G[d] = F[d],
           FrameOK(p, G[Len(F)]),
           G[Len(F)].par = F[Len(F)].par, G[Len(F)].action = F[Len(F)].action,
           NEW m, NEW n, NEW tt, LeafOK(p, G[Len(F)], m, n, tt)
    PROVE  ThreadOK(p, G, m, n, tt)
<1>1. Len(F) \in Nat /\ Len(F) > 0 /\ G # <<>>
  OBVIOUS
<1>2. /\ Callers(p, F) /\ Bottom(p, F)
      /\ Len(F) > 1 => F[Len(F)].par = NoRef
  BY FromParts
<1>3. Callers(p, G)
  BY <1>2 DEF Callers
<1>4. Bottom(p, G)
  <2>1. CASE Len(F) = 1
    BY <1>2, <2>1 DEF Bottom, OfBranch
  <2>2. CASE Len(F) > 1
    <3>1. 1 \in 1 .. Len(F) - 1
      BY <1>1, <2>2
    <3> QED
      BY <1>2, <3>1 DEF Bottom
  <2> QED
    BY <1>1, <2>1, <2>2
<1> QED
  BY <1>1, <1>2, <1>3, <1>4, FromParts

(* The block its thread is a branch of. *)
BranchOf(F) == IF F = <<>> THEN NoRef ELSE F[1].par

(* The first frame says which it is. *)
LEMMA SameBranch ==
    ASSUME NEW S, NEW F \in Seq(S), F # <<>>, NEW G \in Seq(S), Len(G) = Len(F),
           \A d \in 1 .. Len(F) - 1 : G[d] = F[d],
           G[Len(F)].par = F[Len(F)].par
    PROVE  BranchOf(G) = BranchOf(F)
<1>1. \A n \in Nat : n > 0 => n = 1 \/ 1 \in 1 .. n - 1
  OBVIOUS
<1>2. Len(F) \in Nat /\ Len(F) > 0 /\ G # <<>>
  OBVIOUS
<1>3. Len(F) = 1 \/ 1 \in 1 .. Len(F) - 1
  BY <1>1, <1>2
<1>4. G[1].par = F[1].par
  BY <1>3
<1> QED
  BY <1>2, <1>4 DEF BranchOf

(* A wait that suspends. *)
LEMMA WaitSuspends ==
    ASSUME NEW p \in Bodies, NEW F \in Seq(FrameSet(p)), F # <<>>,
           NEW l \in Place, NEW k \in Nat, ThreadOK(p, F, l, k, "runs"),
           KindAt(p, F[Len(F)], l.case) = "wait"
    PROVE  /\ k = 0
           /\ LET G == ResumedNext(F, l)
              IN  /\ G \in Seq(FrameSet(p)) /\ Len(G) = Len(F)
                  /\ BranchOf(G) = BranchOf(F)
                  /\ ThreadOK(p, G, l, k, "free")
<1> DEFINE G == ResumedNext(F, l)
<1>1. k = 0
  BY FallsThrough
<1>2. /\ G \in Seq(FrameSet(p)) /\ Len(G) = Len(F) /\ G # <<>>
      /\ \A d \in 1 .. Len(F) - 1 : G[d] = F[d]
      /\ FrameOK(p, G[Len(G)]) /\ G[Len(G)].par = F[Len(F)].par
      /\ G[Len(G)].action = F[Len(F)].action
      /\ G[Len(G)].idx = l.case + 1
      /\ Counted(p, G[Len(G)], l.case + 1, k)
  BY <1>1, ResumesNext
<1> HIDE DEF G
<1>3. LeafOK(p, G[Len(G)], l, k, "free")
  BY <1>1, <1>2 DEF LeafOK
<1>4. ThreadOK(p, G, l, k, "free")
  BY <1>2, <1>3, LeafChanges
<1>5. BranchOf(G) = BranchOf(F)
  BY <1>2, SameBranch
<1> QED
  BY <1>1, <1>2, <1>4, <1>5 DEF G

(* A parallel block all of whose branches are created. *)
LEMMA ParSuspends ==
    ASSUME NEW p \in Bodies, NEW F \in Seq(FrameSet(p)), F # <<>>,
           NEW l \in Place, NEW k \in Nat, ThreadOK(p, F, l, k, "runs"),
           KindAt(p, F[Len(F)], l.case) = "par",
           l.spawned = Total(p, F[Len(F)], l.case)
    PROVE  LET G == ResumedNext(F, l)
           IN  /\ G \in Seq(FrameSet(p)) /\ Len(G) = Len(F)
               /\ BranchOf(G) = BranchOf(F) /\ k # 0 /\ k \in Nat
               /\ G[Len(G)].idx - 1 = l.case
               /\ ThreadOK(p, G, l, k, "held")
<1> DEFINE G == ResumedNext(F, l)
           f == F[Len(F)]
           g == G[Len(G)]
<1>1. /\ LeafOK(p, f, l, k, "runs") /\ f.action \in DOMAIN p
  BY LeafFacts
<1>2. k = Total(p, f, l.case)
  BY <1>1 DEF LeafOK, Running
<1>3. /\ G \in Seq(FrameSet(p)) /\ Len(G) = Len(F) /\ G # <<>>
      /\ \A d \in 1 .. Len(F) - 1 : G[d] = F[d]
      /\ FrameOK(p, g) /\ g.par = f.par /\ g.action = f.action
      /\ g.idx = l.case + 1 /\ g.idx > 1 /\ g.idx - 1 = l.case
      /\ Counted(p, g, l.case + 1, k)
  BY <1>2, ResumesNext
<1>4. k # 0
  BY <1>1, <1>2, BodyFacts DEF KindAt, Total
<1>5. KindAt(p, g, g.idx - 1) = "par"
  BY <1>3 DEF KindAt
<1> HIDE DEF G
<1>6. LeafOK(p, g, l, k, "held")
  BY <1>3, <1>4, <1>5 DEF LeafOK, Holding
<1>7. ThreadOK(p, G, l, k, "held")
  BY <1>3, <1>6, LeafChanges
<1>8. BranchOf(G) = BranchOf(F)
  BY <1>3, SameBranch
<1> QED
  BY <1>3, <1>4, <1>7, <1>8 DEF G

(* An import that is posted. *)
LEMMA ImportSuspends ==
    ASSUME NEW p \in Bodies, NEW F \in Seq(FrameSet(p)), F # <<>>,
           NEW l \in Place, NEW k \in Nat, ThreadOK(p, F, l, k, "runs"),
           KindAt(p, F[Len(F)], l.case) = "import"
    PROVE  /\ k = 0
           /\ LET G == ResumedNext(F, l)
              IN  /\ G \in Seq(FrameSet(p)) /\ Len(G) = Len(F)
                  /\ BranchOf(G) = BranchOf(F)
                  /\ ThreadOK(p, G, l, k, "held")
<1> DEFINE G == ResumedNext(F, l)
           f == F[Len(F)]
           g == G[Len(G)]
<1>1. LeafOK(p, f, l, k, "runs")
  BY LeafFacts
<1>2. k = 0
  BY <1>1 DEF LeafOK, Running
<1>3. /\ G \in Seq(FrameSet(p)) /\ Len(G) = Len(F) /\ G # <<>>
      /\ \A d \in 1 .. Len(F) - 1 : G[d] = F[d]
      /\ FrameOK(p, g) /\ g.par = f.par /\ g.action = f.action
      /\ g.idx = l.case + 1 /\ g.idx > 1 /\ g.idx - 1 = l.case
      /\ Counted(p, g, l.case + 1, k)
  BY <1>2, ResumesNext
<1>5. KindAt(p, g, g.idx - 1) = "import"
  BY <1>3 DEF KindAt
<1> HIDE DEF G
<1>6. LeafOK(p, g, l, k, "held")
  BY <1>2, <1>3, <1>5 DEF LeafOK, Holding
<1>7. ThreadOK(p, G, l, k, "held")
  BY <1>3, <1>6, LeafChanges
<1>8. BranchOf(G) = BranchOf(F)
  BY <1>3, SameBranch
<1> QED
  BY <1>2, <1>3, <1>7, <1>8 DEF G

(* The frame thread_create and zsp_timebase_call allocate. *)
FreshFrame(p, a, ref) ==
    [action |-> a, idx |-> 1, done |-> [i \in DOMAIN p[a] |-> 0], par |-> ref]

(* The frame that a call or a new branch starts with. *)
LEMMA Fresh ==
    ASSUME NEW p \in Bodies, NEW a \in DOMAIN p, NEW ref \in Refs
    PROVE  LET f == FreshFrame(p, a, ref)
           IN  /\ f \in FrameSet(p) /\ FrameOK(p, f)
               /\ f.action = a /\ f.par = ref
               /\ LeafOK(p, f, AtCase(1), 0, "runs")
<1> DEFINE done == [i \in DOMAIN p[a] |-> 0]
           f == [action |-> a, idx |-> 1, done |-> done, par |-> ref]
<1>1. done \in [DOMAIN p[a] -> Nat] /\ \A i \in DOMAIN p[a] : done[i] = 0
  OBVIOUS
<1>2. Len(p[a]) \in Nat /\ DOMAIN p[a] = 1 .. Len(p[a])
  BY BodyFacts
<1>3. FreshFrame(p, a, ref) = f
  BY DEF FreshFrame
<1> HIDE DEF done
<1>4. done \in Counters(p)
  BY <1>1 DEF Counters
<1>5. /\ f \in FrameSet(p) /\ f.action = a /\ f.idx = 1 /\ f.done = done
      /\ f.par = ref
  BY <1>4 DEF FrameSet
<1> HIDE DEF f
<1>6. FrameOK(p, f)
  BY <1>1, <1>2, <1>5 DEF FrameOK
<1>7. Counted(p, f, 1, 0)
  BY <1>1, <1>2, <1>5 DEF Counted
<1>8. LeafOK(p, f, AtCase(1), 0, "runs")
  BY <1>2, <1>5, <1>7 DEF LeafOK, Running, AtCase
<1> QED
  BY <1>3, <1>5, <1>6, <1>8

(* A new thread at its first case. *)
LEMMA Begins ==
    ASSUME NEW p \in Bodies, NEW a \in DOMAIN p, NEW ref \in Refs,
           ref # NoRef => Len(p[a]) > 0 /\ a \notin MayFail
    PROVE  LET F == <<FreshFrame(p, a, ref)>>
           IN  /\ F \in Seq(FrameSet(p)) /\ F # <<>> /\ Len(F) = 1 /\ F[1].par = ref
               /\ ThreadOK(p, F, AtCase(1), 0, "runs")
<1> DEFINE f == FreshFrame(p, a, ref)
           F == <<f>>
<1>1. /\ f \in FrameSet(p) /\ FrameOK(p, f) /\ f.action = a /\ f.par = ref
      /\ LeafOK(p, f, AtCase(1), 0, "runs")
  BY Fresh
<1> HIDE DEF f
<1>2. F \in Seq(FrameSet(p)) /\ F # <<>> /\ Len(F) = 1 /\ F[1] = f
  BY <1>1
<1> HIDE DEF F
<1>3. Callers(p, F) /\ Bottom(p, F)
  BY <1>1, <1>2 DEF Callers, Bottom, OfBranch
<1>4. ThreadOK(p, F, AtCase(1), 0, "runs")
  BY <1>1, <1>2, <1>3, FromParts
<1> QED
  BY <1>1, <1>2, <1>4 DEF F, f

(* zsp_timebase_call. *)
LEMMA Invokes ==
    ASSUME NEW p \in Bodies, NEW F \in Seq(FrameSet(p)), F # <<>>,
           NEW l \in Place, NEW k \in Nat, ThreadOK(p, F, l, k, "runs"),
           KindAt(p, F[Len(F)], l.case) = "invoke",
           NEW a \in DOMAIN p
    PROVE  LET G == Append(ResumedNext(F, l), FreshFrame(p, a, NoRef))
           IN  /\ k = 0
               /\ G \in Seq(FrameSet(p)) /\ Len(G) = Len(F) + 1 /\ G # <<>>
               /\ G[1].par = F[1].par
               /\ ThreadOK(p, G, AtCase(1), k, "runs")
<1> DEFINE E == ResumedNext(F, l)
           f == F[Len(F)]
           e == E[Len(E)]
           g == FreshFrame(p, a, NoRef)
           G == Append(E, g)
<1>1. LeafOK(p, f, l, k, "runs") /\ Len(F) \in Nat /\ Len(F) > 0
  BY LeafFacts
<1>2. k = 0
  BY <1>1 DEF LeafOK, Running
<1>3. /\ E \in Seq(FrameSet(p)) /\ Len(E) = Len(F) /\ E # <<>>
      /\ \A d \in 1 .. Len(F) - 1 : E[d] = F[d]
      /\ FrameOK(p, e) /\ e.par = f.par /\ e.action = f.action
      /\ e.idx = l.case + 1 /\ e.idx > 1 /\ e.idx - 1 = l.case
      /\ Counted(p, e, l.case + 1, 0)
  BY <1>2, ResumesNext
<1>4. Calling(p, e)
  BY <1>3 DEF Calling, KindAt
<1>5. LeafOK(p, e, l, 0, "free")
  BY <1>3 DEF LeafOK
<1> HIDE DEF E
<1>6. ThreadOK(p, E, l, 0, "free")
  BY <1>3, <1>5, LeafChanges
<1>7. /\ g \in FrameSet(p) /\ FrameOK(p, g) /\ g.par = NoRef
      /\ LeafOK(p, g, AtCase(1), 0, "runs")
  BY Fresh DEF Refs
<1> HIDE DEF g
<1>8. /\ G \in Seq(FrameSet(p)) /\ Len(G) = Len(E) + 1 /\ G[Len(E) + 1] = g
      /\ \A d \in 1 .. Len(E) : G[d] = E[d]
  BY <1>3, <1>7, LastAdded
<1> HIDE DEF G
<1>9. G # <<>> /\ Len(G) > 1 /\ Len(G) = Len(F) + 1
  BY <1>1, <1>3, <1>8
<1>10. /\ Callers(p, E) /\ Bottom(p, E)
       /\ Len(E) > 1 => E[Len(E)].par = NoRef
  BY <1>3, <1>6, FromParts
<1>11. Callers(p, G)
  <2>1. ASSUME NEW d \in 1 .. Len(G) - 1
        PROVE  FrameOK(p, G[d]) /\ Calling(p, G[d]) /\ (d > 1 => G[d].par = NoRef)
    <3>1. d \in 1 .. Len(E) /\ G[d] = E[d]
      BY <1>1, <1>3, <1>8, <2>1
    <3>2. CASE d = Len(E)
      BY <1>3, <1>4, <1>10, <3>1, <3>2
    <3>3. CASE d # Len(E)
      <4>1. d \in 1 .. Len(E) - 1
        BY <1>1, <1>3, <3>1, <3>3
      <4> QED
        BY <1>10, <3>1, <4>1 DEF Callers
    <3> QED
      BY <3>2, <3>3
  <2> QED
    BY <2>1 DEF Callers
<1>12. G[1] = E[1]
  BY <1>1, <1>3, <1>8
<1>13. Bottom(p, G)
  BY <1>10, <1>12 DEF Bottom
<1>14. ThreadOK(p, G, AtCase(1), 0, "runs")
  BY <1>7, <1>8, <1>9, <1>11, <1>13, FromParts
<1>15. E[1].par = F[1].par
  <2>1. CASE Len(F) = 1
    BY <1>3, <2>1
  <2>2. CASE Len(F) > 1
    BY <1>1, <1>3, <2>2
  <2>3. \A n \in Nat : n > 0 => n = 1 \/ n > 1
    OBVIOUS
  <2>4. Len(F) = 1 \/ Len(F) > 1
    BY <1>1, <2>3
  <2> HIDE DEF E
  <2> QED
    BY <2>1, <2>2, <2>4
<1> QED
  BY <1>2, <1>8, <1>9, <1>12, <1>14, <1>15 DEF G, g, E

(* zsp_timebase_return, where there is a caller: it may go on or not. *)
LEMMA Pops ==
    ASSUME NEW p \in Bodies, NEW F \in Seq(FrameSet(p)), Len(F) > 1,
           NEW l, NEW k, NEW st, ThreadOK(p, F, l, k, st), NEW m
    PROVE  LET G == SubSeq(F, 1, Len(F) - 1)
           IN  /\ G \in Seq(FrameSet(p)) /\ Len(G) = Len(F) - 1 /\ G # <<>>
               /\ G[1].par = F[1].par /\ G[Len(G)] = F[Len(F) - 1]
               /\ ThreadOK(p, G, m, 0, "free")
               /\ ThreadOK(p, G, AtCase(F[Len(F) - 1].idx), 0, "runs")
<1> DEFINE G == SubSeq(F, 1, Len(F) - 1)
           g == G[Len(G)]
<1>1. Len(F) \in Nat /\ F # <<>>
  OBVIOUS
<1>2. /\ G \in Seq(FrameSet(p)) /\ Len(G) = Len(F) - 1
      /\ \A d \in 1 .. Len(F) - 1 : G[d] = F[d]
  BY <1>1, LastRemoved
<1>3. Callers(p, F) /\ Bottom(p, F)
  BY <1>1, FromParts
<1> HIDE DEF G
<1>4. /\ G # <<>> /\ G[1] = F[1] /\ G[Len(G)] = F[Len(F) - 1]
      /\ Len(F) - 1 \in 1 .. Len(F) - 1
  BY <1>1, <1>2
<1>5. Callers(p, G)
  <2>1. \A d \in 1 .. Len(G) - 1 : d \in 1 .. Len(F) - 1
    BY <1>1, <1>2
  <2> QED
    BY <1>2, <1>3, <2>1 DEF Callers
<1>6. Bottom(p, G)
  BY <1>3, <1>4 DEF Bottom
<1>7. /\ FrameOK(p, g) /\ Calling(p, g)
      /\ Len(G) > 1 => g.par = NoRef
  BY <1>1, <1>2, <1>3, <1>4 DEF Callers
<1>8. LeafOK(p, g, m, 0, "free")
  BY <1>7 DEF LeafOK, Calling
<1>9. ThreadOK(p, G, m, 0, "free")
  BY <1>2, <1>4, <1>5, <1>6, <1>7, <1>8, FromParts
<1>10. ThreadOK(p, G, AtCase(g.idx), 0, "runs")
  BY <1>2, <1>4, <1>9, Resumes
<1> QED
  BY <1>2, <1>4, <1>9, <1>10 DEF G

(* One more branch of a parallel block is created. *)
LEMMA Spawns ==
    ASSUME NEW p \in Bodies, NEW F \in Seq(FrameSet(p)), F # <<>>,
           NEW l \in Place, NEW k \in Nat, ThreadOK(p, F, l, k, "runs"),
           KindAt(p, F[Len(F)], l.case) = "par",
           l.spawned < Total(p, F[Len(F)], l.case)
    PROVE  /\ k = l.spawned
           /\ F[Len(F)].done[l.case] = 0
           /\ ThreadOK(p, F, [l EXCEPT !.spawned = k + 1], k + 1, "runs")
<1> DEFINE f == F[Len(F)]
           m == [l EXCEPT !.spawned = k + 1]
<1>1. /\ LeafOK(p, f, l, k, "runs") /\ f.action \in DOMAIN p
  BY LeafFacts
<1>2. k = l.spawned /\ Counted(p, f, l.case, 0)
  BY <1>1 DEF LeafOK, Running
<1>3. /\ l.case \in DOMAIN p[f.action] /\ Total(p, f, l.case) \in Nat
      /\ l.case \in Nat
  BY <1>1, BodyFacts DEF KindAt, Total, Place
<1>4. f.done[l.case] = 0
  BY <1>2, <1>3 DEF Counted
<1>5. m.case = l.case /\ m.spawned = k + 1
  BY DEF Place
<1>6. k + 1 <= Total(p, f, l.case)
  BY <1>2, <1>3
<1> HIDE DEF m
<1>7. LeafOK(p, f, m, k + 1, "runs")
  BY <1>1, <1>2, <1>5, <1>6 DEF LeafOK, Running
<1>8. ThreadOK(p, F, m, k + 1, "runs")
  BY <1>7 DEF ThreadOK
<1> QED
  BY <1>2, <1>4, <1>8 DEF m

(* A branch has ended: zsp_par_block_join counts it. *)
CountedUp(F, at) ==
    [F EXCEPT ![Len(F)].done[at] = F[Len(F)].done[at] + 1]

(* The parent's frame with the counter raised, one branch fewer live. *)
LEMMA CountsUp ==
    ASSUME NEW p \in Bodies, NEW F \in Seq(FrameSet(p)), F # <<>>,
           NEW l, NEW k \in Nat, k > 0, ThreadOK(p, F, l, k, "held"),
           NEW at, at = F[Len(F)].idx - 1
    PROVE  LET G == CountedUp(F, at)
           IN  /\ G \in Seq(FrameSet(p)) /\ Len(G) = Len(F) /\ G # <<>>
               /\ G[Len(F)].idx = F[Len(F)].idx
               /\ G[Len(F)].action = F[Len(F)].action
               /\ KindAt(p, F[Len(F)], at) = "par"
               /\ \A d \in 1 .. Len(F) - 1 : G[d] = F[d]
               /\ G[Len(F)].par = F[Len(F)].par
               /\ F[Len(F)].done[at] + 1 = Total(p, F[Len(F)], at) <=> k = 1
               /\ k > 1 => ThreadOK(p, G, l, k - 1, "held")
               /\ k = 1 => ThreadOK(p, G, l, k - 1, "free")
<1> DEFINE f == F[Len(F)]
           c == [f.done EXCEPT ![at] = f.done[at] + 1]
           g == [f EXCEPT !.done = c]
           G == WithLast(F, g)
<1>1. /\ f \in FrameSet(p) /\ FrameOK(p, f) /\ LeafOK(p, f, l, k, "held")
      /\ f.idx \in Nat /\ Len(p[f.action]) \in Nat /\ f.action \in DOMAIN p
      /\ DOMAIN p[f.action] = 1 .. Len(p[f.action])
      /\ Len(F) \in Nat /\ Len(F) > 0
  BY LeafFacts
<1>2. Holding(p, f, k) /\ KindAt(p, f, at) = "par"
  BY <1>1 DEF LeafOK, Holding
<1>3. at \in DOMAIN p[f.action] /\ f.done \in [DOMAIN p[f.action] -> Nat] /\ at = f.idx - 1
  BY <1>1, <1>2 DEF KindAt, FrameOK
<1>4. CountedUp(F, at) = G
  BY DEF CountedUp, WithLast
<1> HIDE DEF f
<1>5. /\ c \in [DOMAIN p[f.action] -> Nat] /\ c[at] = f.done[at] + 1
      /\ \A i \in DOMAIN p[f.action] : i # at => c[i] = f.done[i]
  BY <1>3
<1> HIDE DEF c
<1>6. c \in Counters(p)
  BY <1>1, <1>5 DEF Counters
<1>7. /\ g \in FrameSet(p) /\ g.action = f.action /\ g.idx = f.idx
      /\ g.done = c /\ g.par = f.par
  BY <1>1, <1>6, FrameFields
<1> HIDE DEF g
<1>8. FrameOK(p, g)
  BY <1>1, <1>5, <1>7 DEF FrameOK
<1>9. Counted(p, f, f.idx, k)
  BY <1>2 DEF Holding
<1>10. Total(p, f, at) \in Nat /\ f.done[at] + k = Total(p, f, at) /\ f.done[at] \in Nat
  <2>1. Total(p, f, at) \in Nat
    BY <1>1, <1>2, <1>3, BodyFacts DEF KindAt, Total
  <2> QED
    BY <1>2, <1>3, <1>9, <2>1 DEF Counted
<1>11. Counted(p, g, f.idx, k - 1)
  <2>1. ASSUME NEW i \in DOMAIN p[g.action]
        PROVE  /\ i >= f.idx => g.done[i] = 0
               /\ (i < f.idx - 1 /\ KindAt(p, g, i) = "par") => g.done[i] = Total(p, g, i)
               /\ (i = f.idx - 1 /\ KindAt(p, g, i) = "par") =>
                     g.done[i] + (k - 1) = Total(p, g, i)
    <3>1. KindAt(p, g, i) = KindAt(p, f, i) /\ Total(p, g, i) = Total(p, f, i)
      BY <1>7 DEF KindAt, Total
    <3>2. /\ i >= f.idx => f.done[i] = 0
          /\ (i < f.idx - 1 /\ KindAt(p, f, i) = "par") => f.done[i] = Total(p, f, i)
      BY <1>7, <1>9, <2>1 DEF Counted
    <3>3. CASE i = at
      <4>1. g.done[i] = f.done[at] + 1
        BY <1>5, <1>7, <3>3
      <4>2. g.done[i] + (k - 1) = Total(p, g, i)
        BY <1>10, <3>1, <3>3, <4>1
      <4>3. ~(i >= f.idx) /\ i = f.idx - 1 /\ ~(i < f.idx - 1)
        BY <1>1, <1>3, <3>3
      <4> QED
        BY <4>2, <4>3
    <3>4. CASE i # at
      <4>1. g.done[i] = f.done[i] /\ i # f.idx - 1
        BY <1>3, <1>5, <1>7, <3>4
      <4> QED
        BY <3>1, <3>2, <4>1
    <3> QED
      BY <3>3, <3>4
  <2> QED
    BY <2>1 DEF Counted
<1>12. /\ G \in Seq(FrameSet(p)) /\ Len(G) = Len(F) /\ G[Len(F)] = g
       /\ \A d \in 1 .. Len(F) - 1 : G[d] = F[d]
  BY <1>7, LastReplaced
<1> HIDE DEF G
<1>13. G # <<>>
  BY <1>1, <1>12
<1>14. f.done[at] + 1 = Total(p, f, at) <=> k = 1
  BY <1>10
<1>15. KindAt(p, g, g.idx - 1) = "par" /\ g.idx > 1
  BY <1>2, <1>3, <1>7 DEF KindAt, Holding
<1>16. ASSUME k > 1 PROVE ThreadOK(p, G, l, k - 1, "held")
  <2>1. k - 1 # 0
    BY <1>16
  <2>2. LeafOK(p, g, l, k - 1, "held")
    BY <1>7, <1>11, <1>15, <2>1 DEF LeafOK, Holding
  <2> QED
    BY <1>7, <1>8, <1>12, <2>2, LeafChanges DEF f
<1>17. ASSUME k = 1 PROVE ThreadOK(p, G, l, k - 1, "free")
  <2>1. k - 1 = 0
    BY <1>17
  <2>2. LeafOK(p, g, l, k - 1, "free")
    BY <1>7, <1>11, <2>1 DEF LeafOK
  <2> QED
    BY <1>7, <1>8, <1>12, <2>2, LeafChanges DEF f
<1> QED
  BY <1>2, <1>4, <1>7, <1>12, <1>13, <1>14, <1>16, <1>17 DEF f

-----------------------------------------------------------------------------
(* The frames of all threads.                                              *)

(* The live branches of t: all of one block, as t has one leaf frame.      *)
Kids(fr, t) == {u \in Thread : BranchOf(fr[u]) # NoRef /\ BranchOf(fr[u]).thread = t}

BlockOf(t, F, l, st) ==
    ParBlock(t, Len(F), IF st = "runs" THEN l.case ELSE F[Len(F)].idx - 1)

(* Branches are threads created later: there is no cycle of parents.       *)
Ranked(fr) ==
    \E r \in [Thread -> Nat] : \A t \in Thread : \A u \in Kids(fr, t) : r[u] < r[t]

KidsOK(p, fr, l, st, t) ==
    /\ ThreadOK(p, fr[t], l, Cardinality(Kids(fr, t)), st)
    /\ \A u \in Kids(fr, t) : BranchOf(fr[u]) = BlockOf(t, fr[t], l, st)

Tasks(p, fr, lc, X, H) ==
    /\ fr \in [Thread -> Seq(FrameSet(p))]
    /\ lc \in [Thread -> Place]
    /\ \A t \in Thread : KidsOK(p, fr, lc[t], Stage(X, H, t), t)
    /\ Ranked(fr)

(* The live branches of a thread are finitely many. *)
LEMMA KidsFinite ==
    ASSUME NEW fr, NEW t
    PROVE  /\ IsFiniteSet(Kids(fr, t)) /\ Cardinality(Kids(fr, t)) \in Nat
           /\ Cardinality(Kids(fr, t)) = 0 <=> Kids(fr, t) = {}
<1>1. Kids(fr, t) \in SUBSET Thread
  BY DEF Kids
<1> QED
  BY <1>1, FiniteThreads, FS_EmptySet

(* A thread without frames has no branches. *)
LEMMA NoFrames ==
    ASSUME NEW p, NEW fr, NEW lc, NEW X, NEW H, Tasks(p, fr, lc, X, H),
           NEW t \in Thread, fr[t] = <<>>
    PROVE  Kids(fr, t) = {} /\ t \notin X /\ t \notin H
BY KidsFinite DEF Tasks, KidsOK, ThreadOK, Stage

(* Two functions, two assignments of stages, differ at t only. *)
ButFor(t, f, g) == \A u \in Thread \ {t} : g[u] = f[u]
SameStages(t, X, H, Y, K) == \A u \in Thread \ {t} : Stage(Y, K, u) = Stage(X, H, u)

(* t, with k branches of a block, has frames F2, place l2 and stage st2    *)
(* after a step from F, l and st; it stays the branch it was and its       *)
(* branches, if it has any, stay those of the same block.                  *)
Becomes(p, t, k, F, l, st, F2, l2, st2) ==
    /\ BranchOf(F2) = BranchOf(F)
    /\ ThreadOK(p, F2, l2, k, st2)
    /\ k # 0 => BlockOf(t, F2, l2, st2) = BlockOf(t, F, l, st)

(* One thread changes its frames, its place or its stage. *)
LEMMA OneThread ==
    ASSUME NEW p, NEW fr, NEW lc, NEW X, NEW H, Tasks(p, fr, lc, X, H),
           NEW t \in Thread,
           NEW fr2 \in [Thread -> Seq(FrameSet(p))], NEW lc2 \in [Thread -> Place],
           NEW X2, NEW H2,
           ButFor(t, fr, fr2), ButFor(t, lc, lc2), SameStages(t, X, H, X2, H2),
           Becomes(p, t, Cardinality(Kids(fr, t)), fr[t], lc[t], Stage(X, H, t),
                   fr2[t], lc2[t], Stage(X2, H2, t))
    PROVE  Tasks(p, fr2, lc2, X2, H2)
<1> DEFINE k == Cardinality(Kids(fr, t))
<1>0. /\ \A u \in Thread \ {t} : /\ fr2[u] = fr[u] /\ lc2[u] = lc[u]
                                  /\ Stage(X2, H2, u) = Stage(X, H, u)
      /\ BranchOf(fr2[t]) = BranchOf(fr[t])
      /\ ThreadOK(p, fr2[t], lc2[t], k, Stage(X2, H2, t))
      /\ k # 0 => BlockOf(t, fr2[t], lc2[t], Stage(X2, H2, t)) =
                  BlockOf(t, fr[t], lc[t], Stage(X, H, t))
  BY DEF ButFor, SameStages, Becomes
<1>1. \A u \in Thread : BranchOf(fr2[u]) = BranchOf(fr[u])
  BY <1>0
<1>2. \A u \in Thread : Kids(fr2, u) = Kids(fr, u)
  BY <1>1 DEF Kids
<1>3. \A u \in Thread : KidsOK(p, fr, lc[u], Stage(X, H, u), u)
  BY DEF Tasks
<1>4. ASSUME NEW u \in Thread PROVE KidsOK(p, fr2, lc2[u], Stage(X2, H2, u), u)
  <2>1. CASE u = t
    <3>1. ThreadOK(p, fr2[t], lc2[t], Cardinality(Kids(fr2, t)), Stage(X2, H2, t))
      BY <1>0, <1>2
    <3>2. ASSUME NEW v \in Kids(fr2, t)
          PROVE  BranchOf(fr2[v]) = BlockOf(t, fr2[t], lc2[t], Stage(X2, H2, t))
      <4>1. v \in Kids(fr, t) /\ v \in Thread
        BY <1>2 DEF Kids
      <4>2. k # 0
        BY <4>1, KidsFinite
      <4> QED
        BY <1>0, <1>1, <1>3, <4>1, <4>2 DEF KidsOK
    <3> QED
      BY <2>1, <3>1, <3>2 DEF KidsOK
  <2>2. CASE u # t
    <3>1. fr2[u] = fr[u] /\ lc2[u] = lc[u] /\ Stage(X2, H2, u) = Stage(X, H, u)
      BY <1>0, <2>2
    <3>2. \A v \in Kids(fr, u) : v \in Thread
      BY DEF Kids
    <3> QED
      BY <1>1, <1>2, <1>3, <3>1, <3>2 DEF KidsOK
  <2> QED
    BY <2>1, <2>2
<1>5. Ranked(fr2)
  BY <1>2 DEF Tasks, Ranked
<1> QED
  BY <1>4, <1>5 DEF Tasks

(* Of the places, only those of t and u change, and t stays in its case.   *)
SameCase(t, u, lc, lc2) ==
    /\ \A v \in Thread \ {t, u} : lc2[v] = lc[v]
    /\ lc2[t].case = lc[t].case

(* t creates one more branch, u. *)
LEMMA BranchCreated ==
    ASSUME NEW p, NEW fr, NEW lc, NEW X, NEW H, Tasks(p, fr, lc, X, H),
           NEW t \in Thread, t \in X,
           NEW u \in Thread, fr[u] = <<>>,
           NEW fr2 \in [Thread -> Seq(FrameSet(p))], NEW lc2 \in [Thread -> Place],
           ButFor(u, fr, fr2), SameCase(t, u, lc, lc2),
           fr[t] # <<>>,
           BranchOf(fr2[u]) = BlockOf(t, fr[t], lc[t], "runs"),
           ThreadOK(p, fr[t], lc2[t], Cardinality(Kids(fr, t)) + 1, "runs"),
           ThreadOK(p, fr2[u], lc2[u], 0, "runs")
    PROVE  Tasks(p, fr2, lc2, X \cup {u}, H)
<1> DEFINE Y == X \cup {u}
<1>a. /\ \A v \in Thread \ {u} : fr2[v] = fr[v]
      /\ \A v \in Thread \ {t, u} : lc2[v] = lc[v]
      /\ lc2[t].case = lc[t].case
  BY DEF ButFor, SameCase
<1>0. t # u /\ Kids(fr, u) = {} /\ u \notin X /\ u \notin H
  BY NoFrames
<1>1. BranchOf(fr2[u]) # NoRef /\ BranchOf(fr2[u]).thread = t
  BY DEF BlockOf, ParBlock, NoRef
<1>2. u \notin Kids(fr, t)
  BY DEF Kids, BranchOf
<1>3. /\ Kids(fr2, t) = Kids(fr, t) \cup {u}
      /\ \A v \in Thread \ {t} : Kids(fr2, v) = Kids(fr, v)
  <2>1. \A v \in Thread \ {u} : BranchOf(fr2[v]) = BranchOf(fr[v])
    BY <1>a
  <2>2. BranchOf(fr[u]) = NoRef
    BY DEF BranchOf
  <2>3. ASSUME NEW v \in Thread, NEW w \in Thread
        PROVE  w \in Kids(fr2, v) <=> w \in Kids(fr, v) \/ (w = u /\ v = t)
    <3>1. CASE w = u
      BY <1>1, <2>2, <3>1 DEF Kids
    <3>2. CASE w # u
      BY <2>1, <3>2 DEF Kids
    <3> QED
      BY <3>1, <3>2
  <2>4. \A v : Kids(fr2, v) \subseteq Thread /\ Kids(fr, v) \subseteq Thread
    BY DEF Kids
  <2>5. Kids(fr2, t) = Kids(fr, t) \cup {u}
    BY <2>3, <2>4
  <2>6. ASSUME NEW v \in Thread \ {t} PROVE Kids(fr2, v) = Kids(fr, v)
    BY <2>3, <2>4
  <2> QED
    BY <2>5, <2>6
<1>4. Cardinality(Kids(fr2, t)) = Cardinality(Kids(fr, t)) + 1
  BY <1>2, <1>3, KidsFinite, FS_AddElement
<1>5. \A v \in Thread : KidsOK(p, fr, lc[v], Stage(X, H, v), v)
  BY DEF Tasks
<1>6. ASSUME NEW v \in Thread PROVE KidsOK(p, fr2, lc2[v], Stage(Y, H, v), v)
  <2>1. CASE v = t
    <3>1. Stage(X, H, t) = "runs" /\ Stage(Y, H, t) = "runs" /\ fr2[t] = fr[t]
      BY <1>0, <1>a DEF Stage
    <3>2. BlockOf(t, fr[t], lc2[t], "runs") = BlockOf(t, fr[t], lc[t], "runs")
      BY <1>a DEF BlockOf
    <3>3. ASSUME NEW w \in Kids(fr2, t)
          PROVE  BranchOf(fr2[w]) = BlockOf(t, fr2[t], lc2[t], "runs")
      <4>1. CASE w = u
        BY <3>1, <3>2, <4>1
      <4>2. CASE w # u
        <5>1. w \in Kids(fr, t) /\ w \in Thread
          BY <1>3, <4>2 DEF Kids
        <5>2. BranchOf(fr[w]) = BlockOf(t, fr[t], lc[t], "runs")
          BY <1>5, <3>1, <5>1 DEF KidsOK
        <5>3. fr2[w] = fr[w]
          BY <1>a, <4>2, <5>1
        <5> QED
          BY <3>1, <3>2, <5>2, <5>3
      <4> QED
        BY <4>1, <4>2
    <3> QED
      BY <1>4, <2>1, <3>1, <3>3 DEF KidsOK
  <2>2. CASE v = u
    <3>1. Stage(Y, H, u) = "runs" /\ Kids(fr2, u) = {}
      BY <1>0, <1>3 DEF Stage
    <3>2. Cardinality(Kids(fr2, u)) = 0
      BY <3>1, FS_EmptySet
    <3> QED
      BY <2>2, <3>1, <3>2 DEF KidsOK
  <2>3. CASE v # t /\ v # u
    <3>1. /\ fr2[v] = fr[v] /\ lc2[v] = lc[v] /\ Stage(Y, H, v) = Stage(X, H, v)
          /\ Kids(fr2, v) = Kids(fr, v)
      BY <1>3, <1>a, <2>3 DEF Stage
    <3>2. ASSUME NEW w \in Kids(fr, v) PROVE fr2[w] = fr[w]
      BY <1>a, <1>3, <2>3 DEF Kids, BranchOf, NoRef
    <3> QED
      BY <1>5, <3>1, <3>2 DEF KidsOK
  <2> QED
    BY <2>1, <2>2, <2>3
<1>7. Ranked(fr2)
  <2>1. PICK r \in [Thread -> Nat] :
           \A v \in Thread : \A w \in Kids(fr, v) : r[w] < r[v]
    BY DEF Tasks, Ranked
  <2> DEFINE q == [v \in Thread |-> IF v = u THEN 0 ELSE r[v] + 1]
  <2>2. /\ q \in [Thread -> Nat] /\ q[u] = 0
        /\ \A v \in Thread \ {u} : q[v] = r[v] + 1
    OBVIOUS
  <2> HIDE DEF q
  <2>3. ASSUME NEW v \in Thread, NEW w \in Kids(fr2, v) PROVE q[w] < q[v]
    <3>1. w \in Thread
      BY DEF Kids
    <3>2. CASE w = u
      <4>1. v = t
        BY <1>1, <2>3, <3>2 DEF Kids
      <4>2. r[t] \in Nat /\ q[t] = r[t] + 1
        BY <1>0, <2>1, <2>2
      <4> QED
        BY <2>2, <3>2, <4>1, <4>2
    <3>3. CASE w # u
      <4>1. w \in Kids(fr, v)
        BY <1>3, <2>3, <3>3
      <4>2. v # u
        BY <1>0, <4>1
      <4>3. r[w] < r[v] /\ r[w] \in Nat /\ r[v] \in Nat
        BY <2>1, <3>1, <4>1
      <4> QED
        BY <2>2, <3>1, <3>3, <4>2, <4>3
    <3> QED
      BY <3>2, <3>3
  <2> QED
    BY <2>2, <2>3 DEF Ranked
<1> QED
  BY <1>6, <1>7 DEF Tasks

(* t has one branch less and is otherwise what it was, of all threads t    *)
(* and u are the only ones that change.                                    *)
CountsOne(p, t, k, F, l, st, F2, st2) ==
    /\ BranchOf(F2) = BranchOf(F)
    /\ ThreadOK(p, F2, l, k - 1, st2)
    /\ k > 1 => BlockOf(t, F2, l, st2) = BlockOf(t, F, l, st)
ButForBoth(t, u, f, g) == \A v \in Thread \ {t, u} : g[v] = f[v]
StagesButForBoth(t, u, X, H, Y, K) ==
    \A v \in Thread \ {t, u} : Stage(Y, K, v) = Stage(X, H, v)

(* The branch u of t ends. *)
LEMMA BranchEnded ==
    ASSUME NEW p, NEW fr, NEW lc, NEW X, NEW H, Tasks(p, fr, lc, X, H),
           NEW t \in Thread, NEW u \in Kids(fr, t), t # u,
           Kids(fr, u) = {},
           NEW fr2 \in [Thread -> Seq(FrameSet(p))],
           fr2[u] = <<>>, ButForBoth(t, u, fr, fr2),
           NEW X2, NEW H2, u \notin X2, u \notin H2,
           StagesButForBoth(t, u, X, H, X2, H2),
           CountsOne(p, t, Cardinality(Kids(fr, t)), fr[t], lc[t], Stage(X, H, t),
                     fr2[t], Stage(X2, H2, t))
    PROVE  Tasks(p, fr2, lc, X2, H2)
<1>a. /\ \A v \in Thread \ {t, u} : fr2[v] = fr[v] /\ Stage(X2, H2, v) = Stage(X, H, v)
      /\ BranchOf(fr2[t]) = BranchOf(fr[t])
      /\ ThreadOK(p, fr2[t], lc[t], Cardinality(Kids(fr, t)) - 1, Stage(X2, H2, t))
      /\ Cardinality(Kids(fr, t)) > 1 =>
            BlockOf(t, fr2[t], lc[t], Stage(X2, H2, t)) =
            BlockOf(t, fr[t], lc[t], Stage(X, H, t))
  BY DEF ButForBoth, StagesButForBoth, CountsOne
<1>0. u \in Thread /\ BranchOf(fr[u]).thread = t
  BY DEF Kids
<1>1. BranchOf(fr2[u]) = NoRef /\ \A v \in Thread \ {u} : BranchOf(fr2[v]) = BranchOf(fr[v])
  BY <1>a DEF BranchOf
<1>2. /\ Kids(fr2, t) = Kids(fr, t) \ {u}
      /\ \A v \in Thread \ {t} : Kids(fr2, v) = Kids(fr, v)
  <2>1. ASSUME NEW v \in Thread, NEW w \in Thread
        PROVE  w \in Kids(fr2, v) <=> w \in Kids(fr, v) /\ ~(w = u /\ v = t)
    <3>1. CASE w = u
      BY <1>0, <1>1, <3>1 DEF Kids
    <3>2. CASE w # u
      BY <1>1, <3>2 DEF Kids
    <3> QED
      BY <3>1, <3>2
  <2>2. \A v : Kids(fr2, v) \subseteq Thread /\ Kids(fr, v) \subseteq Thread
    BY DEF Kids
  <2>3. Kids(fr2, t) = Kids(fr, t) \ {u}
    BY <2>1, <2>2
  <2>4. ASSUME NEW v \in Thread \ {t} PROVE Kids(fr2, v) = Kids(fr, v)
    BY <2>1, <2>2
  <2> QED
    BY <2>3, <2>4
<1>3. Cardinality(Kids(fr2, t)) = Cardinality(Kids(fr, t)) - 1
  BY <1>2, KidsFinite, FS_RemoveElement
<1>4. \A v \in Thread : KidsOK(p, fr, lc[v], Stage(X, H, v), v)
  BY DEF Tasks
<1>5. ASSUME NEW v \in Thread PROVE KidsOK(p, fr2, lc[v], Stage(X2, H2, v), v)
  <2>1. CASE v = t
    <3>1. ASSUME NEW w \in Kids(fr2, t)
          PROVE  BranchOf(fr2[w]) = BlockOf(t, fr2[t], lc[t], Stage(X2, H2, t))
      <4>1. w \in Kids(fr, t) /\ w \in Thread /\ w # u
        BY <1>2 DEF Kids
      <4>2. Cardinality(Kids(fr, t)) > 1
        <5>1. Cardinality(Kids(fr2, t)) # 0 /\ Cardinality(Kids(fr2, t)) \in Nat
          BY <3>1, KidsFinite
        <5>2. Cardinality(Kids(fr, t)) \in Nat
          BY KidsFinite
        <5> QED
          BY <1>3, <5>1, <5>2
      <4>3. BranchOf(fr[w]) = BlockOf(t, fr[t], lc[t], Stage(X, H, t))
        BY <1>4, <4>1 DEF KidsOK
      <4> QED
        BY <1>a, <1>1, <4>1, <4>2, <4>3
    <3> QED
      BY <1>a, <1>3, <2>1, <3>1 DEF KidsOK
  <2>2. CASE v = u
    <3>1. Stage(X2, H2, u) = "free" /\ Kids(fr2, u) = {}
      BY <1>2, <2>2 DEF Stage
    <3>2. Cardinality(Kids(fr2, u)) = 0 /\ Len(fr2[u]) = 0
      BY <3>1, FS_EmptySet
    <3>3. ThreadOK(p, fr2[u], lc[u], 0, "free")
      BY <3>2 DEF ThreadOK
    <3> QED
      BY <2>2, <3>1, <3>2, <3>3 DEF KidsOK
  <2>3. CASE v # t /\ v # u
    <3>1. /\ fr2[v] = fr[v] /\ Stage(X2, H2, v) = Stage(X, H, v)
          /\ Kids(fr2, v) = Kids(fr, v)
      BY <1>a, <1>2, <2>3
    <3>2. ASSUME NEW w \in Kids(fr, v) PROVE BranchOf(fr2[w]) = BranchOf(fr[w])
      BY <1>0, <1>1, <2>3 DEF Kids
    <3> QED
      BY <1>4, <3>1, <3>2 DEF KidsOK
  <2> QED
    BY <2>1, <2>2, <2>3
<1>6. Ranked(fr2)
  BY <1>2 DEF Tasks, Ranked
<1> QED
  BY <1>5, <1>6 DEF Tasks

-----------------------------------------------------------------------------
(* What the calls of the scheduler do to the threads that are being        *)
(* created and to the number of frames.                                    *)

Initial(s) == {t \in Thread : "INITIAL" \in s.flags[t]}

Same(s, r) == r \in TimebaseState /\ Initial(r) = Initial(s) /\ r.leaf = s.leaf

(* An assignment to the flags of t that keeps INITIAL as it is, or not.    *)
LEMMA FlagsSet ==
    ASSUME NEW s \in TimebaseState, NEW t \in Thread, NEW F \in SUBSET ThreadFlag
    PROVE  LET r == [s EXCEPT !.flags = [s.flags EXCEPT ![t] = F]]
           IN  /\ r \in TimebaseState /\ r.leaf = s.leaf /\ r.flags[t] = F
               /\ "INITIAL" \in F <=> "INITIAL" \in s.flags[t] => Same(s, r)
               /\ "INITIAL" \notin F => Initial(r) = Initial(s) \ {t}
<1> DEFINE r == [s EXCEPT !.flags = [s.flags EXCEPT ![t] = F]]
<1>1. /\ r \in TimebaseState /\ r.leaf = s.leaf /\ r.flags[t] = F
      /\ \A u \in Thread \ {t} : r.flags[u] = s.flags[u]
  BY FlagsOfOne
<1> HIDE DEF r
<1>2. \A u \in Thread : u # t => (u \in Initial(r) <=> u \in Initial(s))
  BY <1>1 DEF Initial
<1>3. t \in Initial(r) <=> "INITIAL" \in F
  BY <1>1 DEF Initial
<1>4. t \in Initial(s) <=> "INITIAL" \in s.flags[t]
  BY DEF Initial
<1>5. Initial(r) \subseteq Thread /\ Initial(s) \subseteq Thread
  BY DEF Initial
<1>6. ASSUME "INITIAL" \in F <=> "INITIAL" \in s.flags[t] PROVE Initial(r) = Initial(s)
  BY <1>2, <1>3, <1>4, <1>5, <1>6
<1>7. ASSUME "INITIAL" \notin F PROVE Initial(r) = Initial(s) \ {t}
  BY <1>2, <1>3, <1>5, <1>7
<1> QED
  BY <1>1, <1>6, <1>7 DEF r, Same

(* Putting a thread on the ready list changes no depth and no INITIAL. *)
LEMMA SameAdd ==
    ASSUME NEW s \in TimebaseState, NEW t \in Thread
    PROVE  Same(s, ready_queue_add(s, t))
<1>1. \A u \in Thread : "INITIAL" \in ready_queue_add(s, t).flags[u] <=>
                        "INITIAL" \in s.flags[u]
  BY AddFlags
<1> QED
  BY <1>1, AddType, AddRest DEF Same, Initial

(* Nor does scheduling it, *)
LEMMA SameSchedule ==
    ASSUME NEW s \in TimebaseState, NEW t \in Thread
    PROVE  Same(s, zsp_timebase_schedule(s, t))
<1> DEFINE m == [s EXCEPT !.active = s.active + 1]
<1>1. m \in TimebaseState
  BY Fields, FieldTypes
<1>2. m.flags = s.flags /\ m.leaf = s.leaf
  BY DEF TimebaseState
<1>3. zsp_timebase_schedule(s, t) = ready_queue_add(m, t)
  BY DEF zsp_timebase_schedule
<1> HIDE DEF m
<1> QED
  BY <1>1, <1>2, <1>3, SameAdd DEF Same, Initial

(* nor clearing its link, *)
LEMMA SameClear ==
    ASSUME NEW s \in TimebaseState, NEW t \in Thread
    PROVE  Same(s, clear_next(s, t))
BY ClearNext DEF Same, Initial

(* nor blocking it, *)
LEMMA SameBlock ==
    ASSUME NEW s \in TimebaseState, NEW t \in Thread
    PROVE  Same(s, block_thread(s, t))
<1> DEFINE F == s.flags[t] \cup {"BLOCKED"}
<1>1. F \in SUBSET ThreadFlag
  BY Fields DEF ThreadFlag
<1>2. "INITIAL" \in F <=> "INITIAL" \in s.flags[t]
  OBVIOUS
<1>3. block_thread(s, t) = [s EXCEPT !.flags = [s.flags EXCEPT ![t] = F]]
  BY DEF block_thread
<1> HIDE DEF F
<1> QED
  BY <1>1, <1>2, <1>3, FlagsSet

(* nor putting it back after a task that did not block, *)
LEMMA SameRequeue ==
    ASSUME NEW s \in TimebaseState, NEW t \in Thread
    PROVE  Same(s, Requeue(s, t))
<1> DEFINE F == s.flags[t] \ {"SUSPEND"}
           r == [s EXCEPT !.flags = [s.flags EXCEPT ![t] = F]]
<1>1. F \in SUBSET ThreadFlag
  BY Fields
<1>2. "INITIAL" \in F <=> "INITIAL" \in s.flags[t]
  OBVIOUS
<1>3. Requeue(s, t) = IF "BLOCKED" \in s.flags[t] THEN clear_next(s, t)
                      ELSE zsp_timebase_schedule(r, t)
  BY DEF Requeue
<1> HIDE DEF F
<1>4. Same(s, r)
  BY <1>1, <1>2, FlagsSet
<1> HIDE DEF r
<1>5. Same(r, zsp_timebase_schedule(r, t))
  BY <1>4, SameSchedule DEF Same
<1> QED
  BY <1>3, <1>4, <1>5, SameClear DEF Same

(* The end of an activation is the end of the creation of its thread. *)
LEMMA FinishInitial ==
    ASSUME NEW s \in TimebaseState, NEW t \in Thread
    PROVE  LET r == FinishActivation(s, t)
           IN  /\ r \in TimebaseState /\ r.leaf = s.leaf
               /\ Initial(r) = Initial(s) \ {t}
<1> DEFINE F == s.flags[t] \ {"INITIAL"}
           m == [s EXCEPT !.flags = [s.flags EXCEPT ![t] = F]]
<1>0. s.leaf[t] \in Nat
  BY Fields
<1>1. F \in SUBSET ThreadFlag
  BY Fields
<1>2. "INITIAL" \notin F
  OBVIOUS
<1>3. CASE "INITIAL" \in s.flags[t]
  <2>1. FinishActivation(s, t) =
           IF s.leaf[t] > 0 THEN Requeue(m, t)
           ELSE clear_next(block_thread(m, t), t)
    BY <1>3 DEF FinishActivation, FinishInit
  <2> HIDE DEF F
  <2>2. m \in TimebaseState /\ m.leaf = s.leaf /\ Initial(m) = Initial(s) \ {t}
    BY <1>1, <1>2, FlagsSet
  <2> HIDE DEF m
  <2>3. Same(m, Requeue(m, t)) /\ Same(m, block_thread(m, t))
    BY <2>2, SameRequeue, SameBlock
  <2>4. Same(block_thread(m, t), clear_next(block_thread(m, t), t))
    BY <2>3, SameClear DEF Same
  <2> QED
    BY <2>1, <2>2, <2>3, <2>4 DEF Same
<1>4. CASE "INITIAL" \notin s.flags[t]
  <2>1. FinishActivation(s, t) = IF s.leaf[t] > 0 THEN Requeue(s, t) ELSE s
    BY <1>4 DEF FinishActivation, FinishRun
  <2>2. Initial(s) = Initial(s) \ {t}
    BY <1>4 DEF Initial
  <2> QED
    BY <2>1, <2>2, SameRequeue DEF Same
<1> QED
  BY <1>3, <1>4

(* nor taking the head of the ready list, *)
LEMMA SameRun ==
    ASSUME NEW s \in TimebaseState, s.ready_head # NULL
    PROVE  Same(s, BeginRun(s))
<1> DEFINE m == [s EXCEPT !.active = s.active - 1]
<1>1. m \in TimebaseState
  BY Fields, FieldTypes
<1>2. m.flags = s.flags /\ m.leaf = s.leaf /\ m.ready_head = s.ready_head
  BY DEF TimebaseState
<1>3. BeginRun(s) = ready_queue_pop(m)
  BY DEF BeginRun
<1> HIDE DEF m
<1>4. ready_queue_pop(m) \in TimebaseState
  BY <1>1, <1>2, PopType
<1>5. ready_queue_pop(m).flags = s.flags /\ ready_queue_pop(m).leaf = s.leaf
  BY <1>1, <1>2, PopRest
<1> QED
  BY <1>3, <1>4, <1>5 DEF Same, Initial

(* nor moving a due delay to the ready list. *)
LEMMA SameMove ==
    ASSUME NEW s \in TimebaseState, s.events # {}
    PROVE  Same(s, MoveDue(s))
<1> DEFINE e == FirstEvent(s)
           m == [s EXCEPT !.events = s.events \ {e}]
<1>1. e \in s.events /\ s.events \subseteq Event
  BY FirstEventIn, Fields
<1>2. MoveDue(s) = ready_queue_add(m, e.thread)
  BY DEF MoveDue
<1> HIDE DEF e
<1>3. e.thread \in Thread
  BY <1>1 DEF Event
<1>4. m \in TimebaseState
  BY <1>1, FieldTypes
<1>5. m.flags = s.flags /\ m.leaf = s.leaf
  BY DEF TimebaseState
<1> HIDE DEF m
<1> QED
  BY <1>2, <1>3, <1>4, <1>5, SameAdd DEF Same, Initial

(* A wait sets and clears other flags. *)
LEMMA SameWaits ==
    ASSUME NEW s \in TimebaseState, NEW t \in Thread, NEW delay \in Nat
    PROVE  Same(s, WaitInline(s, t, delay)) /\ Same(s, WaitSuspended(s, t, delay))
<1>1. Same(s, WaitInline(s, t, delay))
  <2> DEFINE m == [s EXCEPT !.current_time = s.current_time + delay]
             F == m.flags[t] \cup {"SUSPEND"}
  <2>1. m \in TimebaseState
    BY Fields, FieldTypes
  <2>2. m.flags = s.flags /\ m.leaf = s.leaf
    BY DEF TimebaseState
  <2>3. WaitInline(s, t, delay) = [m EXCEPT !.flags = [m.flags EXCEPT ![t] = F]]
    BY DEF WaitInline, zsp_timebase_yield
  <2> HIDE DEF m
  <2>4. F \in SUBSET ThreadFlag /\ ("INITIAL" \in F <=> "INITIAL" \in m.flags[t])
    BY <2>1, Fields DEF ThreadFlag
  <2> HIDE DEF F
  <2>5. Same(m, WaitInline(s, t, delay))
    BY <2>1, <2>3, <2>4, FlagsSet
  <2> QED
    BY <2>2, <2>5 DEF Same, Initial
<1>2. Same(s, WaitSuspended(s, t, delay))
  <2> DEFINE F  == (s.flags[t] \cup {"BLOCKED"}) \ {"SUSPEND"}
             m  == [s EXCEPT !.flags = [s.flags EXCEPT ![t] = F]]
             e  == [wake_time |-> m.current_time + delay, seq |-> m.event_seq,
                    thread |-> t]
             m1 == [m EXCEPT !.active = m.active + 1]
             m2 == [m1 EXCEPT !.event_seq = (m.event_seq + 1) % SeqModulus]
             b  == [m2 EXCEPT !.events = m.events \cup {e}]
  <2>1. F \in SUBSET ThreadFlag /\ ("INITIAL" \in F <=> "INITIAL" \in s.flags[t])
    BY Fields DEF ThreadFlag
  <2>2. WaitSuspended(s, t, delay) = b
    BY DEF WaitSuspended, zsp_timebase_schedule_at
  <2> HIDE DEF F
  <2>3. Same(s, m)
    BY <2>1, FlagsSet
  <2>4. m \in TimebaseState
    BY <2>3 DEF Same
  <2> HIDE DEF m
  <2>5. e \in Event /\ m.events \cup {e} \in SUBSET Event
    BY <2>4, Fields DEF Event
  <2> HIDE DEF e
  <2>6. (m.event_seq + 1) % SeqModulus \in 0 .. SeqModulus - 1
    <3>1. m.event_seq \in Nat /\ SeqModulus \in Nat \ {0}
      BY <2>4, Fields, SeqAssumption
    <3> QED
      BY <3>1
  <2>7. m1 \in TimebaseState
    BY <2>4, Fields, FieldTypes
  <2>8. m1.flags = m.flags /\ m1.leaf = m.leaf
    BY <2>4 DEF TimebaseState
  <2> HIDE DEF m1
  <2>9. m2 \in TimebaseState
    BY <2>6, <2>7, FieldTypes
  <2>10. m2.flags = m.flags /\ m2.leaf = m.leaf
    BY <2>7, <2>8 DEF TimebaseState
  <2> HIDE DEF m2
  <2>11. b \in TimebaseState
    BY <2>5, <2>9, FieldTypes
  <2>12. b.flags = m.flags /\ b.leaf = m.leaf
    BY <2>9, <2>10 DEF TimebaseState
  <2> HIDE DEF b
  <2> QED
    BY <2>2, <2>3, <2>11, <2>12 DEF Same, Initial
<1> QED
  BY <1>1, <1>2

(* One frame more or less. *)
LEMMA LeafSet ==
    ASSUME NEW s \in TimebaseState, NEW t \in Thread, NEW k \in Nat
    PROVE  LET r == [s EXCEPT !.leaf = [s.leaf EXCEPT ![t] = k]]
           IN  /\ r \in TimebaseState /\ Initial(r) = Initial(s) /\ r.flags = s.flags
               /\ r.leaf[t] = k /\ \A u \in Thread \ {t} : r.leaf[u] = s.leaf[u]
<1> DEFINE leaf == [s.leaf EXCEPT ![t] = k]
           r == [s EXCEPT !.leaf = leaf]
<1>1. /\ leaf \in [Thread -> Nat] /\ leaf[t] = k
      /\ \A u \in Thread \ {t} : leaf[u] = s.leaf[u]
  BY Fields
<1> HIDE DEF leaf
<1>2. r \in TimebaseState
  BY <1>1, FieldTypes
<1>3. r.flags = s.flags /\ r.leaf = leaf
  BY DEF TimebaseState
<1> HIDE DEF r
<1> QED
  BY <1>1, <1>2, <1>3 DEF Initial, r, leaf

(* zsp_timebase_return removes one frame of the thread and keeps INITIAL. *)
LEMMA ReturnInitial ==
    ASSUME NEW s \in TimebaseState, NEW t \in Thread, s.leaf[t] > 0
    PROVE  LET r == zsp_timebase_return(s, t)
           IN  /\ r \in TimebaseState /\ Initial(r) = Initial(s)
               /\ r.leaf[t] = s.leaf[t] - 1
               /\ \A u \in Thread \ {t} : r.leaf[u] = s.leaf[u]
<1> DEFINE m == [s EXCEPT !.leaf = [s.leaf EXCEPT ![t] = s.leaf[t] - 1]]
           F == IF ReturnContinues(s, t) THEN s.flags[t] \ {"SUSPEND"} ELSE s.flags[t]
           r == zsp_timebase_return(s, t)
<1>1. s.leaf[t] \in Nat /\ s.leaf[t] - 1 \in Nat /\ s.flags[t] \in SUBSET ThreadFlag
      /\ s.flags \in [Thread -> SUBSET ThreadFlag]
  BY Fields
<1>2. /\ m \in TimebaseState /\ Initial(m) = Initial(s) /\ m.flags = s.flags
      /\ m.leaf[t] = s.leaf[t] - 1 /\ \A u \in Thread \ {t} : m.leaf[u] = s.leaf[u]
  BY <1>1, LeafSet
<1>3. r = [m EXCEPT !.flags = [s.flags EXCEPT ![t] = F]]
  <2>1. s.flags = [s.flags EXCEPT ![t] = s.flags[t]]
    BY <1>1
  <2>2. CASE ReturnContinues(s, t)
    BY <2>2 DEF zsp_timebase_return
  <2>3. CASE ~ReturnContinues(s, t)
    <3>1. r = [m EXCEPT !.flags = s.flags]
      BY <2>3 DEF zsp_timebase_return
    <3>2. F = s.flags[t]
      BY <2>3
    <3> HIDE DEF m, F, r
    <3> QED
      BY <2>1, <3>1, <3>2
  <2> QED
    BY <2>2, <2>3
<1>4. F \in SUBSET ThreadFlag /\ ("INITIAL" \in F <=> "INITIAL" \in s.flags[t])
  BY <1>1
<1> HIDE DEF m, F, r
<1>5. Same(m, r)
  BY <1>2, <1>3, <1>4, FlagsSet
<1> QED
  BY <1>2, <1>5 DEF Same, r

(* A thread that is created is INITIAL and has one frame. *)
LEMMA CreateInitial ==
    ASSUME NEW s \in TimebaseState, NEW t \in Thread
    PROVE  LET r == thread_init_common(s, t)
           IN  /\ r \in TimebaseState /\ Initial(r) = Initial(s) \cup {t}
               /\ r.leaf[t] = 1 /\ \A u \in Thread \ {t} : r.leaf[u] = s.leaf[u]
<1> DEFINE next  == [s.next EXCEPT ![t] = NULL]
           flags == [s.flags EXCEPT ![t] = {"INITIAL"}]
           leaf  == [s.leaf EXCEPT ![t] = 1]
           s1 == [s EXCEPT !.next = next]
           s2 == [s1 EXCEPT !.flags = flags]
           r  == [s2 EXCEPT !.leaf = leaf]
<1>1. /\ next \in [Thread -> Thread \cup {NULL}]
      /\ flags \in [Thread -> SUBSET ThreadFlag]
      /\ leaf \in [Thread -> Nat]
      /\ leaf[t] = 1 /\ flags[t] = {"INITIAL"}
      /\ \A u \in Thread \ {t} : leaf[u] = s.leaf[u] /\ flags[u] = s.flags[u]
  BY Fields DEF ThreadFlag
<1>2. thread_init_common(s, t) = r
  BY DEF thread_init_common
<1> HIDE DEF next, flags, leaf
<1>3. s1 \in TimebaseState
  BY <1>1, FieldTypes
<1> HIDE DEF s1
<1>4. s2 \in TimebaseState
  BY <1>1, <1>3, FieldTypes
<1>5. s2.flags = flags
  BY <1>3 DEF TimebaseState
<1> HIDE DEF s2
<1>6. r \in TimebaseState
  BY <1>1, <1>4, FieldTypes
<1>7. r.flags = flags /\ r.leaf = leaf
  BY <1>4, <1>5 DEF TimebaseState
<1> HIDE DEF r
<1>8. \A u \in Thread : u \in Initial(r) <=> u \in Initial(s) \cup {t}
  BY <1>1, <1>7 DEF Initial
<1>9. Initial(r) = Initial(s) \cup {t}
  BY <1>8 DEF Initial
<1> QED
  BY <1>1, <1>2, <1>6, <1>7, <1>9

-----------------------------------------------------------------------------
(* The state of the scenario: the program p, the timebase s, the threads C *)
(* that exist, the C stack x, the frames fr and places lc, and the threads *)
(* H that wait for a branch or for an import.                              *)

(* Every thread on the C stack but the first is being created.             *)
Nested(I, x) == I \subseteq OnStack(x) /\ \A i \in 2 .. Len(x) : x[i] \in I

(* leaf counts the frames, of which a thread that does not exist has none. *)
FramesCounted(s, C, fr) ==
    \A t \in Thread : s.leaf[t] = Len(fr[t]) /\ (t \notin C => fr[t] = <<>>)

SameDepths(t, f, g) == \A u \in Thread \ {t} : Len(g[u]) = Len(f[u])

ScenarioState(p, s, C, x, fr, lc, H) ==
    /\ x \in Seq(Thread) /\ Distinct(x)
    /\ Consistent(s, C, H, OnStack(x))
    /\ Tasks(p, fr, lc, OnStack(x), H)
    /\ FramesCounted(s, C, fr)
    /\ Nested(Initial(s), x)
    /\ \A t \in Initial(s) : Len(fr[t]) = 1 => lc[t].case = 1

Now(H) == program \in Bodies /\ ScenarioState(program, tb, created, exec, frames, loc, H)
After(H) == program' = program /\
            ScenarioState(program, tb', created', exec', frames', loc', H)

(* The executing thread. *)
LEMMA ExecutingFacts ==
    ASSUME NEW H, Now(H), NEW t \in Thread, Executing(t)
    PROVE  /\ exec # <<>> /\ t = exec[Len(exec)] /\ t \in OnStack(exec)
           /\ t \in created /\ t \notin H
           /\ tb \in TimebaseState /\ tb.leaf[t] = Len(frames[t]) /\ tb.leaf[t] > 0
           /\ frames[t] \in Seq(FrameSet(program)) /\ frames[t] # <<>>
           /\ Len(frames[t]) \in Nat /\ Len(frames[t]) > 0
           /\ frames \in [Thread -> Seq(FrameSet(program))]
           /\ loc \in [Thread -> Place] /\ loc[t] \in Place
           /\ KidsOK(program, frames, loc[t], "runs", t)
           /\ Stage(OnStack(exec), H, t) = "runs"
<1>1. exec # <<>> /\ t = exec[Len(exec)] /\ t \in OnStack(exec)
  BY StackPop DEF Executing, Now, ScenarioState
<1>2. /\ t \in created /\ t \notin H /\ tb \in TimebaseState /\ tb.leaf[t] > 0
  BY <1>1, NotWaiting DEF Now, ScenarioState
<1>3. Stage(OnStack(exec), H, t) = "runs"
  BY <1>1 DEF Stage
<1>4. /\ frames \in [Thread -> Seq(FrameSet(program))] /\ loc \in [Thread -> Place]
      /\ KidsOK(program, frames, loc[t], "runs", t)
      /\ tb.leaf[t] = Len(frames[t])
  BY <1>3 DEF Now, ScenarioState, Tasks, FramesCounted
<1>5. /\ frames[t] \in Seq(FrameSet(program)) /\ loc[t] \in Place
  BY <1>4
<1>6. Len(frames[t]) \in Nat /\ Len(frames[t]) > 0
  BY <1>2, <1>4, <1>5, LenProperties
<1>7. frames[t] # <<>>
  BY <1>6
<1> QED
  BY <1>1, <1>2, <1>3, <1>4, <1>5, <1>6, <1>7

(* The case that the executing thread is in. *)
LEMMA ReachesFacts ==
    ASSUME NEW H, Now(H), NEW t \in Thread, NEW kind, Reaches(t, kind)
    PROVE  /\ Executing(t)
           /\ Leaf(t) = frames[t][Len(frames[t])]
           /\ Leaf(t) \in FrameSet(program) /\ Leaf(t).action \in DOMAIN program
           /\ KindAt(program, Leaf(t), loc[t].case) = kind
           /\ kind # "final" => /\ loc[t].case \in DOMAIN program[Leaf(t).action]
                                /\ Suspend(t) = program[Leaf(t).action][loc[t].case]
           /\ kind = "final" => loc[t].case \notin DOMAIN program[Leaf(t).action]
<1>1. Executing(t) /\ Suspend(t).kind = kind
  BY DEF Reaches
<1>2. Leaf(t) = frames[t][Len(frames[t])]
  BY DEF Leaf, Depth
<1>3. Leaf(t) \in FrameSet(program) /\ program \in Bodies
  BY <1>1, <1>2, ExecutingFacts, LeafFacts DEF KidsOK, Now
<1>4. Leaf(t).action \in DOMAIN program
  BY <1>3, FrameFields
<1>5. \A i \in DOMAIN program[Leaf(t).action] :
         program[Leaf(t).action][i].kind # "final"
  BY <1>3, <1>4, BodyFacts
<1> QED
  BY <1>1, <1>2, <1>3, <1>4, <1>5 DEF Suspend, Body, KindAt

(* The executing thread gives up the processor. *)
LEMMA Left ==
    ASSUME NEW p, NEW s, NEW C, NEW x, NEW fr, NEW lc, NEW H,
           ScenarioState(p, s, C, x, fr, lc, H), x # <<>>,
           NEW t \in Thread, t = x[Len(x)],
           NEW r, NEW fr2, NEW K,
           Consistent(r, C, K, OnStack(x) \ {t}),
           Tasks(p, fr2, lc, OnStack(x) \ {t}, K),
           FramesCounted(r, C, fr2), SameDepths(t, fr, fr2),
           Initial(r) = Initial(s) \ {t}
    PROVE  ScenarioState(p, r, C, SubSeq(x, 1, Len(x) - 1), fr2, lc, K)
<1> DEFINE y == SubSeq(x, 1, Len(x) - 1)
<1>1. /\ x \in Seq(Thread) /\ Distinct(x) /\ Nested(Initial(s), x)
      /\ \A u \in Initial(s) : Len(fr[u]) = 1 => lc[u].case = 1
  BY DEF ScenarioState
<1>2. /\ y \in Seq(Thread) /\ Distinct(y) /\ OnStack(y) = OnStack(x) \ {t}
  BY <1>1, StackPop
<1>3. Len(x) \in Nat /\ Len(y) = Len(x) - 1 /\ \A i \in 1 .. Len(x) - 1 : y[i] = x[i]
  BY <1>1, LastRemoved, LenProperties
<1> HIDE DEF y
<1>4. Nested(Initial(r), y)
  <2>1. Initial(r) \subseteq OnStack(y)
    BY <1>1, <1>2 DEF Nested
  <2>2. ASSUME NEW i \in 2 .. Len(y) PROVE y[i] \in Initial(r)
    <3>1. i \in 2 .. Len(x) /\ y[i] = x[i] /\ i \in 1 .. Len(x) /\ i # Len(x)
      BY <1>3
    <3>2. x[i] # t
      <4>1. Len(x) \in 1 .. Len(x)
        BY <1>3, <3>1
      <4> QED
        BY <1>1, <3>1, <4>1 DEF Distinct
    <3> QED
      BY <1>1, <3>1, <3>2 DEF Nested
  <2> QED
    BY <2>1, <2>2 DEF Nested
<1>5. \A u \in Initial(r) : Len(fr2[u]) = 1 => lc[u].case = 1
  BY <1>1 DEF Initial, SameDepths
<1> QED
  BY <1>2, <1>4, <1>5 DEF ScenarioState, y

(* It keeps the processor. *)
LEMMA Kept ==
    ASSUME NEW p, NEW s, NEW C, NEW x, NEW fr, NEW lc, NEW H,
           ScenarioState(p, s, C, x, fr, lc, H),
           NEW r, NEW fr2, NEW lc2, NEW K,
           Consistent(r, C, K, OnStack(x)),
           Tasks(p, fr2, lc2, OnStack(x), K),
           FramesCounted(r, C, fr2),
           Initial(r) = Initial(s),
           \A u \in Initial(s) : Len(fr2[u]) = 1 => lc2[u].case = 1
    PROVE  ScenarioState(p, r, C, x, fr2, lc2, K)
BY DEF ScenarioState

(* Only the first frame of a thread is a branch's. *)
FirstOnly(fr) ==
    \A u \in Thread : \A d \in 1 .. Len(fr[u]) : d > 1 => fr[u][d].par = NoRef

(* Removing the leaf frame touches no other frame where it has no branch.  *)
LEMMA PoppedIs ==
    ASSUME NEW p \in Bodies, NEW fr \in [Thread -> Seq(FrameSet(p))],
           FirstOnly(fr),
           NEW t \in Thread, Kids(fr, t) = {}, fr[t] # <<>>
    PROVE  /\ Popped(fr, t) \in [Thread -> Seq(FrameSet(p))]
           /\ Popped(fr, t)[t] = SubSeq(fr[t], 1, Len(fr[t]) - 1)
           /\ \A u \in Thread \ {t} : Popped(fr, t)[u] = fr[u]
           /\ Popped(fr, t) = [fr EXCEPT ![t] = SubSeq(fr[t], 1, Len(fr[t]) - 1)]
<1> DEFINE gone(f) == /\ f.par.kind = "block"
                      /\ f.par.thread = t /\ f.par.depth = Len(fr[t])
           G == Popped(fr, t)
<1>1. G = [u \in Thread |->
              IF u = t THEN SubSeq(fr[t], 1, Len(fr[t]) - 1)
              ELSE [d \in DOMAIN fr[u] |->
                      IF gone(fr[u][d]) THEN [fr[u][d] EXCEPT !.par = Dangling(t)]
                      ELSE fr[u][d]]]
  BY DEF Popped
<1>2. ASSUME NEW u \in Thread, NEW d \in DOMAIN fr[u] PROVE ~gone(fr[u][d])
  <2>1. fr[u] \in Seq(FrameSet(p)) /\ d \in 1 .. Len(fr[u]) /\ d \in Nat /\ d > 0
    OBVIOUS
  <2>2. CASE d = 1
    <3>1. BranchOf(fr[u]) = fr[u][1].par
      BY <2>1, <2>2 DEF BranchOf
    <3>2. u \notin Kids(fr, t)
      OBVIOUS
    <3> QED
      BY <2>2, <3>1, <3>2 DEF Kids, NoRef
  <2>3. CASE d > 1
    BY <2>1, <2>3 DEF NoRef, FirstOnly
  <2> QED
    BY <2>1, <2>2, <2>3
<1>3. ASSUME NEW u \in Thread \ {t} PROVE G[u] = fr[u]
  <2>1. G[u] = [d \in DOMAIN fr[u] |->
                   IF gone(fr[u][d]) THEN [fr[u][d] EXCEPT !.par = Dangling(t)]
                   ELSE fr[u][d]]
    BY <1>1, <1>3
  <2>2. fr[u] = [d \in DOMAIN fr[u] |-> fr[u][d]]
    <3>1. fr[u] \in Seq(FrameSet(p))
      OBVIOUS
    <3> QED
      BY <3>1
  <2> HIDE DEF gone, G
  <2> QED
    BY <1>2, <2>1, <2>2
<1>4. G[t] = SubSeq(fr[t], 1, Len(fr[t]) - 1)
  BY <1>1
<1>5. G[t] \in Seq(FrameSet(p))
  <2>1. fr[t] \in Seq(FrameSet(p))
    OBVIOUS
  <2> QED
    BY <1>4, <2>1, LastRemoved
<1>6. DOMAIN G = Thread /\ G = [u \in Thread |-> G[u]]
  BY <1>1
<1> HIDE DEF G
<1>7. G \in [Thread -> Seq(FrameSet(p))]
  BY <1>3, <1>5, <1>6
<1>8. G = [fr EXCEPT ![t] = SubSeq(fr[t], 1, Len(fr[t]) - 1)]
  <2> DEFINE v == SubSeq(fr[t], 1, Len(fr[t]) - 1)
  <2>1. G[t] = v
    BY <1>4
  <2> HIDE DEF v
  <2>2. G = [fr EXCEPT ![t] = v]
    BY <1>3, <1>6, <2>1
  <2> QED
    BY <2>2 DEF v
<1> QED
  BY <1>3, <1>4, <1>7, <1>8 DEF G

-----------------------------------------------------------------------------
(* What a step of a task leaves alone: the other threads stay where they   *)
(* are, and those that stand at an import keep waiting or keep being ready. *)

(* A leaf frame at the same case of the same action. *)
SameLeaf(F, G) ==
    /\ F = <<>> <=> G = <<>>
    /\ F # <<>> => /\ G[Len(G)].action = F[Len(F)].action
                   /\ G[Len(G)].idx = F[Len(F)].idx

AtImport(p, F) ==
    F # <<>> /\ F[Len(F)].idx > 1 /\ KindAt(p, F[Len(F)], F[Len(F)].idx - 1) = "import"

LeavesOthers(t, H, K) ==
    /\ \A u \in created \ {t} :
          /\ SameLeaf(frames[u], frames'[u])
          /\ HeldBy(tb', u) = HeldBy(tb, u)
          /\ AtImport(program, frames[u]) => (u \in K <=> u \in H)
    /\ created \subseteq created'
    /\ OnStack(exec) \ {t} \subseteq OnStack(exec')
    /\ OnStack(exec') \subseteq OnStack(exec) \cup (created' \ created)
    /\ created' \ created \subseteq OnStack(exec')
    /\ t \notin OnStack(exec') => ~AtImport(program, frames'[t])

(* Whether a frame stands at an import depends on its action and case. *)
LEMMA SameImport ==
    ASSUME NEW p, NEW F, NEW G, SameLeaf(F, G)
    PROVE  AtImport(p, F) <=> AtImport(p, G)
BY DEF SameLeaf, AtImport, KindAt

(* A frame that resumes behind its case stands at an import if that is one. *)
LEMMA ResumedAt ==
    ASSUME NEW p \in Bodies, NEW F \in Seq(FrameSet(p)), F # <<>>, NEW l \in Place,
           KindAt(p, F[Len(F)], l.case) # "import"
    PROVE  ~AtImport(p, ResumedNext(F, l))
<1> DEFINE f == F[Len(F)]
           g == [f EXCEPT !.idx = l.case + 1]
<1>1. ResumedNext(F, l) = WithLast(F, g) /\ Len(F) \in Nat /\ Len(F) > 0
  BY DEF ResumedNext, WithLast
<1>2. f \in FrameSet(p) /\ l.case \in Nat
  BY LastReplaced DEF Place
<1>3. g.idx = l.case + 1 /\ g.action = f.action /\ g \in FrameSet(p)
  BY <1>2 DEF FrameSet
<1> HIDE DEF f, g
<1>5. Len(WithLast(F, g)) = Len(F) /\ WithLast(F, g)[Len(F)] = g
  BY <1>3, LastReplaced
<1>6. KindAt(p, g, g.idx - 1) # "import"
  <2>1. g.idx - 1 = l.case
    BY <1>2, <1>3
  <2>2. KindAt(p, g, l.case) = KindAt(p, f, l.case)
    BY <1>3 DEF KindAt
  <2>3. KindAt(p, f, l.case) # "import"
    BY DEF f
  <2> QED
    BY <2>1, <2>2, <2>3
<1> QED
  BY <1>1, <1>5, <1>6 DEF AtImport

(* Of the operations of the timebase only a wait adds to the heap. *)
LEMMA ScheduleEvents ==
    ASSUME NEW s \in TimebaseState, NEW t \in Thread
    PROVE  zsp_timebase_schedule(s, t).events = s.events
<1> DEFINE a == [s EXCEPT !.active = s.active + 1]
<1>1. s.active + 1 \in Int
  BY Fields
<1>2. a \in TimebaseState
  BY <1>1, FieldTypes
<1>3. a.events = s.events
  BY DEF TimebaseState
<1>4. zsp_timebase_schedule(s, t) = ready_queue_add(a, t)
  BY DEF zsp_timebase_schedule
<1> HIDE DEF a
<1> QED
  BY <1>2, <1>3, <1>4, AddRest

(* In particular the end of an activation does not, *)
LEMMA FinishEvents ==
    ASSUME NEW s \in TimebaseState, NEW t \in Thread
    PROVE  FinishActivation(s, t).events = s.events
<1>1. ASSUME NEW r \in TimebaseState PROVE Requeue(r, t).events = r.events
  <2> DEFINE m == [r EXCEPT !.flags = [r.flags EXCEPT ![t] = @ \ {"SUSPEND"}]]
  <2>1. [r.flags EXCEPT ![t] = @ \ {"SUSPEND"}] \in [Thread -> SUBSET ThreadFlag]
    BY Fields
  <2>2. m \in TimebaseState /\ m.events = r.events
    BY <2>1, FieldTypes DEF TimebaseState
  <2> HIDE DEF m
  <2>5. zsp_timebase_schedule(m, t).events = r.events
    BY <2>2, ScheduleEvents
  <2>6. clear_next(r, t).events = r.events
    BY DEF clear_next, TimebaseState
  <2>7. Requeue(r, t) = IF "BLOCKED" \in r.flags[t] THEN clear_next(r, t)
                        ELSE zsp_timebase_schedule(m, t)
    BY DEF Requeue, m
  <2> QED
    BY <2>5, <2>6, <2>7
<1> DEFINE c == [s EXCEPT !.flags = [s.flags EXCEPT ![t] = @ \ {"INITIAL"}]]
<1>2. [s.flags EXCEPT ![t] = @ \ {"INITIAL"}] \in [Thread -> SUBSET ThreadFlag]
  BY Fields
<1>3. c \in TimebaseState /\ c.events = s.events
  BY <1>2, FieldTypes DEF TimebaseState
<1>4. FinishActivation(s, t) =
         IF "INITIAL" \in s.flags[t]
         THEN IF s.leaf[t] > 0 THEN Requeue(c, t) ELSE clear_next(block_thread(c, t), t)
         ELSE IF s.leaf[t] > 0 THEN Requeue(s, t) ELSE s
  <2>1. c.leaf = s.leaf
    BY DEF TimebaseState
  <2> QED
    BY <2>1 DEF FinishActivation, FinishInit, FinishRun
<1> HIDE DEF c
<1>5. clear_next(block_thread(c, t), t).events = c.events
  BY <1>3 DEF clear_next, block_thread, TimebaseState
<1> QED
  BY <1>1, <1>3, <1>4, <1>5

(* nor the start of one, *)
LEMMA RunEvents ==
    ASSUME NEW s \in TimebaseState, s.ready_head # NULL
    PROVE  BeginRun(s).events = s.events
<1> DEFINE r == [s EXCEPT !.active = s.active - 1]
<1>1. r \in TimebaseState
  BY Fields, FieldTypes
<1>2. r.ready_head = s.ready_head /\ r.events = s.events
  BY DEF TimebaseState
<1>3. BeginRun(s) = ready_queue_pop(r)
  BY DEF BeginRun
<1> HIDE DEF r
<1> QED
  BY <1>1, <1>2, <1>3, PopRest

(* nor does the return from a frame. *)
LEMMA ReturnEvents ==
    ASSUME NEW s \in TimebaseState, NEW t \in Thread, s.leaf[t] > 0, NEW fr,
           ReturnFrom(s, fr, t)
    PROVE  /\ tb'.events = s.events /\ UNCHANGED created
           /\ exec' = exec \/ exec' = SubSeq(exec, 1, Len(exec) - 1)
<1> DEFINE r == zsp_timebase_return(s, t)
<1>1. r \in TimebaseState
  BY ReturnInitial
<1>2. r.events = s.events
  BY DEF zsp_timebase_return, TimebaseState
<1>3. tb' = r \/ tb' = FinishActivation(r, t)
  BY DEF ReturnFrom, Leave
<1> HIDE DEF r
<1>4. tb'.events = s.events
  BY <1>1, <1>2, <1>3, FinishEvents
<1> QED
  BY <1>4 DEF ReturnFrom, Leave

(* What a step of t does to every other thread. *)
OthersAre(t, H, K) ==
    \A u \in Thread \ {t} : /\ SameLeaf(frames[u], frames'[u])
                            /\ HeldBy(tb', u) = HeldBy(tb, u)
                            /\ AtImport(program, frames[u]) => (u \in K <=> u \in H)

(* A step that creates no thread leaves the others alone. *)
LEMMA OthersLeft ==
    ASSUME NEW H, Now(H), NEW t \in Thread, Executing(t), NEW K,
           UNCHANGED created,
           exec' = exec \/ exec' = SubSeq(exec, 1, Len(exec) - 1),
           exec' # exec => ~AtImport(program, frames'[t]),
           OthersAre(t, H, K)
    PROVE  LeavesOthers(t, H, K)
<1>1. /\ exec \in Seq(Thread) /\ Distinct(exec) /\ exec # <<>> /\ t = exec[Len(exec)]
      /\ created \subseteq Thread
  BY DEF Now, ScenarioState, Consistent, Executing
<1>2. t \in OnStack(exec) /\ OnStack(SubSeq(exec, 1, Len(exec) - 1)) = OnStack(exec) \ {t}
  BY <1>1, StackPop
<1> QED
  BY <1>1, <1>2 DEF LeavesOthers, OthersAre

(* The same where only the frames of t change. *)
LEMMA OwnFrames ==
    ASSUME NEW H, Now(H), NEW t \in Thread, Executing(t), NEW K,
           K = H \/ K = H \cup {t},
           UNCHANGED created,
           exec' = exec \/ exec' = SubSeq(exec, 1, Len(exec) - 1),
           exec' # exec => ~AtImport(program, frames'[t]),
           NEW G, frames' = [frames EXCEPT ![t] = G],
           \A u \in Thread \ {t} : HeldBy(tb', u) = HeldBy(tb, u)
    PROVE  LeavesOthers(t, H, K)
<1>1. frames \in [Thread -> Seq(FrameSet(program))]
  BY DEF Now, ScenarioState, Tasks
<1>2. \A u \in Thread \ {t} : SameLeaf(frames[u], frames'[u])
  BY <1>1 DEF SameLeaf
<1>3. \A u \in Thread \ {t} : u \in K <=> u \in H
  OBVIOUS
<1> QED
  BY <1>2, <1>3, OthersLeft DEF OthersAre

-----------------------------------------------------------------------------
(* Every step of a task preserves the state. *)

(* A function changed at one argument. *)
LEMMA Assigned ==
    ASSUME NEW S, NEW T, NEW f \in [S -> T], NEW t \in S, NEW v \in T
    PROVE  /\ [f EXCEPT ![t] = v] \in [S -> T]
           /\ [f EXCEPT ![t] = v][t] = v
           /\ \A u \in S \ {t} : [f EXCEPT ![t] = v][u] = f[u]
OBVIOUS

(* A place at a case is a place. *)
LEMMA AtCaseType == ASSUME NEW c \in Nat PROVE AtCase(c) \in Place
BY DEF AtCase, Place

(* What the two lemmas below say of the frames of the other threads.       *)
LEMMA OthersKeep ==
    ASSUME NEW H, Now(H), NEW t \in Thread, t \in created,
           NEW fr2, ButFor(t, frames, fr2),
           NEW s, s.leaf[t] = Len(fr2[t]), ButFor(t, tb.leaf, s.leaf)
    PROVE  FramesCounted(s, created, fr2) /\ SameDepths(t, frames, fr2)
BY DEF Now, ScenarioState, ButFor, FramesCounted, SameDepths

(* A step that gives up the processor and changes the frames of t only.    *)
LEMMA TaskLeaves ==
    ASSUME NEW H, Now(H), NEW t \in Thread, Executing(t),
           NEW G \in Seq(FrameSet(program)), frames' = [frames EXCEPT ![t] = G],
           UNCHANGED <<program, created, loc>>,
           exec' = SubSeq(exec, 1, Len(exec) - 1),
           NEW K, K = H \/ K = H \cup {t},
           Consistent(tb', created, K, OnStack(exec) \ {t}),
           Initial(tb') = Initial(tb) \ {t},
           tb'.leaf[t] = Len(G),
           ButFor(t, tb.leaf, tb'.leaf),
           Becomes(program, t, Cardinality(Kids(frames, t)), frames[t], loc[t], "runs",
                   G, loc[t], IF t \in K THEN "held" ELSE "free")
    PROVE  After(K)
<1> DEFINE X == OnStack(exec)
           Y == X \ {t}
           k == Cardinality(Kids(frames, t))
<1>1. /\ exec # <<>> /\ t = exec[Len(exec)] /\ t \in X /\ t \in created
      /\ frames \in [Thread -> Seq(FrameSet(program))] /\ loc \in [Thread -> Place]
      /\ Stage(X, H, t) = "runs" /\ t \notin H
  BY ExecutingFacts
<1>2. /\ frames' \in [Thread -> Seq(FrameSet(program))] /\ frames'[t] = G
      /\ ButFor(t, frames, frames') /\ ButFor(t, loc, loc)
  BY <1>1, Assigned DEF ButFor
<1>3. Stage(Y, K, t) = IF t \in K THEN "held" ELSE "free"
  BY DEF Stage
<1>4. SameStages(t, X, H, Y, K)
  BY DEF Stage, SameStages
<1>5. Becomes(program, t, k, frames[t], loc[t], Stage(X, H, t),
              frames'[t], loc[t], Stage(Y, K, t))
  BY <1>1, <1>2, <1>3
<1>7. Tasks(program, frames, loc, X, H)
  BY DEF Now, ScenarioState
<1>y. Consistent(tb', created, K, Y)
  OBVIOUS
<1> HIDE DEF X, Y, k
<1>8. Tasks(program, frames', loc, Y, K)
  BY <1>1, <1>2, <1>4, <1>5, <1>7, OneThread DEF k
<1>9. FramesCounted(tb', created, frames') /\ SameDepths(t, frames, frames')
  BY <1>1, <1>2, OthersKeep
<1>11. ScenarioState(program, tb, created, exec, frames, loc, H)
  BY DEF Now
<1>12. ScenarioState(program, tb', created, SubSeq(exec, 1, Len(exec) - 1), frames', loc, K)
  BY <1>1, <1>y, <1>8, <1>9, <1>11, Left DEF X, Y
<1> QED
  BY <1>12 DEF After

(* A step that keeps it. *)
LEMMA TaskStays ==
    ASSUME NEW H, Now(H), NEW t \in Thread, Executing(t),
           NEW G \in Seq(FrameSet(program)), frames' = [frames EXCEPT ![t] = G],
           NEW l \in Place, loc' = [loc EXCEPT ![t] = l],
           UNCHANGED <<program, created, exec>>,
           Consistent(tb', created, H, OnStack(exec)),
           Initial(tb') = Initial(tb),
           tb'.leaf[t] = Len(G),
           ButFor(t, tb.leaf, tb'.leaf),
           Becomes(program, t, Cardinality(Kids(frames, t)), frames[t], loc[t], "runs",
                   G, l, "runs"),
           t \in Initial(tb) /\ Len(G) = 1 => l.case = 1
    PROVE  After(H)
<1> DEFINE X == OnStack(exec)
           k == Cardinality(Kids(frames, t))
<1>1. /\ t \in X /\ t \in created
      /\ frames \in [Thread -> Seq(FrameSet(program))] /\ loc \in [Thread -> Place]
      /\ Stage(X, H, t) = "runs"
  BY ExecutingFacts
<1>2. /\ frames' \in [Thread -> Seq(FrameSet(program))] /\ frames'[t] = G
      /\ ButFor(t, frames, frames')
  BY <1>1, Assigned DEF ButFor
<1>3. /\ loc' \in [Thread -> Place] /\ loc'[t] = l /\ ButFor(t, loc, loc')
  BY <1>1, Assigned DEF ButFor
<1>4. ScenarioState(program, tb, created, exec, frames, loc, H)
  BY DEF Now
<1>5. Tasks(program, frames, loc, X, H)
  BY <1>4 DEF ScenarioState
<1>s. SameStages(t, X, H, X, H)
  BY DEF SameStages
<1>b. Becomes(program, t, k, frames[t], loc[t], Stage(X, H, t),
              frames'[t], loc'[t], Stage(X, H, t))
  BY <1>1, <1>2, <1>3
<1>y. Consistent(tb', created, H, X)
  OBVIOUS
<1> HIDE DEF X, k
<1>6. Tasks(program, frames', loc', X, H)
  BY <1>1, <1>2, <1>3, <1>5, <1>s, <1>b, OneThread DEF k
<1>7. FramesCounted(tb', created, frames')
  BY <1>1, <1>2, OthersKeep
<1>9. \A u \in Initial(tb) : Len(frames'[u]) = 1 => loc'[u].case = 1
  <2>1. \A u \in Initial(tb) : u \in Thread /\ (Len(frames[u]) = 1 => loc[u].case = 1)
    BY <1>4 DEF ScenarioState, Initial
  <2> QED
    BY <1>2, <1>3, <2>1 DEF ButFor
<1>10. ScenarioState(program, tb', created, exec, frames', loc', H)
  BY <1>4, <1>6, <1>7, <1>9, <1>y, Kept DEF X
<1> QED
  BY <1>10 DEF After

(* "ScWait": the task goes on, or it resumes at the next case. *)
LEMMA WaitsStep ==
    ASSUME NEW H, Now(H), NEW t \in Thread, TaskWaits(t)
    PROVE  After(H) /\ LeavesOthers(t, H, H)
<1> DEFINE F == frames[t]
           l == loc[t]
           X == OnStack(exec)
           k == Cardinality(Kids(frames, t))
           delay == Suspend(t).time
<1>1. /\ Executing(t) /\ Leaf(t) = F[Len(F)] /\ Leaf(t).action \in DOMAIN program
      /\ KindAt(program, Leaf(t), l.case) = "wait" /\ Suspend(t).kind = "wait"
      /\ l.case \in DOMAIN program[Leaf(t).action]
      /\ Suspend(t) = program[Leaf(t).action][l.case]
  BY ReachesFacts DEF TaskWaits, Reaches
<1>2. delay \in Nat
  BY <1>1, BodyFacts DEF Now
<1>3. /\ t \in X /\ t \in created /\ t \notin H /\ tb \in TimebaseState /\ tb.leaf[t] = Len(F)
      /\ F \in Seq(FrameSet(program)) /\ F # <<>> /\ l \in Place
      /\ ThreadOK(program, F, l, k, "runs")
      /\ frames \in [Thread -> Seq(FrameSet(program))]
      /\ Consistent(tb, created, H, X) /\ program \in Bodies
  BY <1>1, ExecutingFacts DEF KidsOK, Now, ScenarioState
<1>4. k = 0 /\ ThreadOK(program, F, AtCase(l.case + 1), k, "runs")
  BY <1>1, <1>3, FallsThrough
<1>5. CASE WaitsInline(tb, t, delay)
  <2>1. /\ tb' = WaitInline(tb, t, delay) /\ loc' = [loc EXCEPT ![t] = AtCase(l.case + 1)]
        /\ UNCHANGED <<frames, exec, created, program>>
    BY <1>1, <1>5 DEF TaskWaits, zsp_timebase_wait, FallThrough
  <2>2. Consistent(tb', created, H, X)
    BY <1>2, <1>3, <2>1, WaitsInPlace
  <2>3. Initial(tb') = Initial(tb) /\ tb'.leaf = tb.leaf
    BY <1>2, <1>3, <2>1, SameWaits DEF Same
  <2>4. frames' = [frames EXCEPT ![t] = F]
    BY <1>3, <2>1
  <2>5. t \notin Initial(tb)
    BY <1>5 DEF WaitsInline, Initial
  <2>6. AtCase(l.case + 1) \in Place
    BY <1>3, AtCaseType DEF Place
  <2>7. Becomes(program, t, k, F, l, "runs", F, AtCase(l.case + 1), "runs")
    BY <1>4 DEF Becomes
  <2>8. tb'.leaf[t] = Len(F) /\ ButFor(t, tb.leaf, tb'.leaf)
    BY <1>3, <2>3 DEF ButFor
  <2>9. After(H)
    BY <1>1, <1>3, <2>1, <2>2, <2>3, <2>4, <2>5, <2>6, <2>7, <2>8, TaskStays
  <2>10. tb'.events = tb.events
    BY <1>3, <2>1 DEF WaitInline, zsp_timebase_yield, TimebaseState
  <2>11. LeavesOthers(t, H, H)
    <3>1. \A u \in Thread \ {t} : HeldBy(tb', u) = HeldBy(tb, u)
      BY <2>10 DEF HeldBy
    <3> QED
      BY <1>1, <2>1, <2>4, <3>1, OwnFrames
  <2> QED
    BY <2>9, <2>11
<1>6. CASE ~WaitsInline(tb, t, delay)
  <2> DEFINE s == WaitSuspended(tb, t, delay)
             G == ResumedNext(F, l)
  <2>1. /\ tb' = FinishActivation(s, t) /\ frames' = [frames EXCEPT ![t] = G]
        /\ exec' = SubSeq(exec, 1, Len(exec) - 1)
        /\ UNCHANGED <<loc, created, program>>
    BY <1>1, <1>6 DEF TaskWaits, zsp_timebase_wait, ResumeAtNext, Leave, Depth, ResumedNext
  <2>2. Consistent(tb', created, H, X \ {t})
    BY <1>2, <1>3, <2>1, Suspends
  <2>3. Same(tb, s)
    BY <1>2, <1>3, SameWaits
  <2> HIDE DEF s
  <2>4. Initial(tb') = Initial(tb) \ {t} /\ tb'.leaf = tb.leaf
    BY <2>1, <2>3, FinishInitial DEF Same
  <2>6. /\ G \in Seq(FrameSet(program)) /\ Len(G) = Len(F) /\ BranchOf(G) = BranchOf(F)
        /\ ThreadOK(program, G, l, k, "free")
    BY <1>1, <1>3, <1>4, WaitSuspends
  <2>7. Becomes(program, t, k, F, l, "runs", G, l, IF t \in H THEN "held" ELSE "free")
    BY <1>3, <1>4, <2>6 DEF Becomes
  <2>8. tb'.leaf[t] = Len(G) /\ ButFor(t, tb.leaf, tb'.leaf)
    BY <1>3, <2>4, <2>6 DEF ButFor
  <2>9. ~AtImport(program, G)
    BY <1>1, <1>3, ResumedAt
  <2> HIDE DEF G
  <2>10. After(H)
    BY <1>1, <1>3, <2>1, <2>2, <2>4, <2>6, <2>7, <2>8, TaskLeaves
  <2>11. \A u \in Thread \ {t} : HeldBy(tb', u) = HeldBy(tb, u)
    <3>1. s \in TimebaseState
      BY <2>3 DEF Same
    <3>2. tb'.events = s.events
      BY <2>1, <3>1, FinishEvents
    <3>3. s.events = tb.events \cup
              {[wake_time |-> tb.current_time + delay, seq |-> tb.event_seq, thread |-> t]}
      BY <1>3 DEF s, WaitSuspended, zsp_timebase_schedule_at, TimebaseState
    <3> QED
      BY <3>2, <3>3 DEF HeldBy
  <2>12. frames'[t] = G
    BY <1>3, <2>1
  <2>13. LeavesOthers(t, H, H)
    BY <1>1, <2>1, <2>9, <2>11, <2>12, OwnFrames
  <2> QED
    BY <2>10, <2>13
<1> QED
  BY <1>5, <1>6

(* "ScInvoke": the callee's frame is entered on the same thread. *)
LEMMA InvokesStep ==
    ASSUME NEW H, Now(H), NEW t \in Thread, TaskInvokes(t)
    PROVE  After(H) /\ LeavesOthers(t, H, H)
<1> DEFINE F == frames[t]
           l == loc[t]
           X == OnStack(exec)
           k == Cardinality(Kids(frames, t))
           a == Suspend(t).target
           G == Append(ResumedNext(F, l), FreshFrame(program, a, NoRef))
           n == tb.leaf[t] + 1
<1>1. /\ Executing(t) /\ Leaf(t) = F[Len(F)] /\ Leaf(t).action \in DOMAIN program
      /\ KindAt(program, Leaf(t), l.case) = "invoke" /\ Suspend(t).kind = "invoke"
      /\ l.case \in DOMAIN program[Leaf(t).action]
      /\ Suspend(t) = program[Leaf(t).action][l.case]
  BY ReachesFacts DEF TaskInvokes, Reaches
<1>2. a \in DOMAIN program
  BY <1>1, BodyFacts DEF Now
<1>3. /\ t \in X /\ t \in created /\ tb \in TimebaseState /\ tb.leaf[t] = Len(F)
      /\ F \in Seq(FrameSet(program)) /\ F # <<>> /\ l \in Place /\ Len(F) \in Nat
      /\ Len(F) > 0
      /\ ThreadOK(program, F, l, k, "runs")
      /\ frames \in [Thread -> Seq(FrameSet(program))]
      /\ Consistent(tb, created, H, X) /\ program \in Bodies
  BY <1>1, ExecutingFacts DEF KidsOK, Now, ScenarioState
<1>4. /\ loc' = [loc EXCEPT ![t] = AtCase(1)] /\ UNCHANGED <<exec, created, program>>
      /\ tb' = [tb EXCEPT !.leaf = [tb.leaf EXCEPT ![t] = n]]
  BY DEF TaskInvokes
<1>5. frames' = [frames EXCEPT ![t] = G]
  <2>1. frames' = [ResumeAtNext(t) EXCEPT ![t] = Append(@, NewFrame(a, NoRef))]
    BY DEF TaskInvokes
  <2>2. ResumeAtNext(t) = [frames EXCEPT ![t] = ResumedNext(F, l)]
    BY DEF ResumeAtNext, ResumedNext, Depth
  <2>3. NewFrame(a, NoRef) = FreshFrame(program, a, NoRef)
    BY DEF NewFrame, FreshFrame
  <2> QED
    BY <1>3, <2>1, <2>2, <2>3
<1>6. n \in Nat /\ n > 0
  BY <1>3
<1> HIDE DEF n
<1>7. Consistent(tb', created, H, X)
  BY <1>3, <1>4, <1>6, SetsLeaf
<1>8. /\ Initial(tb') = Initial(tb) /\ tb'.leaf[t] = n
      /\ ButFor(t, tb.leaf, tb'.leaf)
  BY <1>3, <1>4, <1>6, LeafSet DEF ButFor
<1>9. k \in Nat
  BY KidsFinite
<1>10. /\ k = 0 /\ G \in Seq(FrameSet(program)) /\ Len(G) = Len(F) + 1 /\ G # <<>>
       /\ G[1].par = F[1].par /\ ThreadOK(program, G, AtCase(1), k, "runs")
  BY <1>1, <1>2, <1>3, <1>9, Invokes
<1> HIDE DEF G
<1>11. Becomes(program, t, k, F, l, "runs", G, AtCase(1), "runs")
  BY <1>3, <1>10 DEF Becomes, BranchOf
<1>12. tb'.leaf[t] = Len(G) /\ AtCase(1) \in Place /\ AtCase(1).case = 1
  BY <1>3, <1>8, <1>10, AtCaseType DEF n, AtCase
<1>13. \A u \in Thread \ {t} : HeldBy(tb', u) = HeldBy(tb, u)
  BY <1>3, <1>4 DEF HeldBy, TimebaseState
<1>14. LeavesOthers(t, H, H)
  BY <1>1, <1>4, <1>5, <1>13, OwnFrames
<1> QED
  BY <1>1, <1>3, <1>4, <1>5, <1>7, <1>8, <1>10, <1>11, <1>12, <1>14, TaskStays

(* "ScPar": all branches are created and the parent blocks. *)
LEMMA AwaitsStep ==
    ASSUME NEW H, Now(H), NEW t \in Thread, TaskAwaitsBranches(t)
    PROVE  After(H \cup {t}) /\ LeavesOthers(t, H, H \cup {t})
<1> DEFINE F == frames[t]
           l == loc[t]
           X == OnStack(exec)
           k == Cardinality(Kids(frames, t))
           G == ResumedNext(F, l)
           b == block_thread(tb, t)
<1>1. /\ Executing(t) /\ Leaf(t) = F[Len(F)] /\ Leaf(t).action \in DOMAIN program
      /\ KindAt(program, Leaf(t), l.case) = "par" /\ Suspend(t).kind = "par"
      /\ l.case \in DOMAIN program[Leaf(t).action]
      /\ Suspend(t) = program[Leaf(t).action][l.case]
  BY ReachesFacts DEF TaskAwaitsBranches, Reaches
<1>2. Suspend(t).join = "all" /\ l.spawned = Total(program, F[Len(F)], l.case)
  BY <1>1, BodyFacts DEF Now, TaskAwaitsBranches, Total
<1>3. /\ t \in X /\ t \in created /\ tb \in TimebaseState /\ tb.leaf[t] = Len(F)
      /\ F \in Seq(FrameSet(program)) /\ F # <<>> /\ l \in Place
      /\ ThreadOK(program, F, l, k, "runs")
      /\ frames \in [Thread -> Seq(FrameSet(program))]
      /\ Consistent(tb, created, H, X) /\ program \in Bodies
  BY <1>1, ExecutingFacts DEF KidsOK, Now, ScenarioState
<1>4. /\ tb' = FinishActivation(b, t) /\ exec' = SubSeq(exec, 1, Len(exec) - 1)
      /\ UNCHANGED <<loc, created, program>>
      /\ frames' = [frames EXCEPT ![t] = G]
  BY <1>2 DEF TaskAwaitsBranches, Leave, ResumeAtNext, ResumedNext, Depth
<1>5. Consistent(tb', created, H \cup {t}, X \ {t})
  BY <1>3, <1>4, Blocks
<1>6. Same(tb, b) /\ b.events = tb.events
  BY <1>3, SameBlock DEF block_thread, TimebaseState
<1> HIDE DEF b
<1>7. Initial(tb') = Initial(tb) \ {t} /\ tb'.leaf = tb.leaf
  BY <1>4, <1>6, FinishInitial DEF Same
<1>8. k \in Nat
  BY KidsFinite
<1>9. /\ G \in Seq(FrameSet(program)) /\ Len(G) = Len(F)
      /\ BranchOf(G) = BranchOf(F)
      /\ G[Len(G)].idx - 1 = l.case
      /\ ThreadOK(program, G, l, k, "held")
  BY <1>1, <1>2, <1>3, <1>8, ParSuspends
<1> HIDE DEF G
<1>10. Becomes(program, t, k, F, l, "runs", G, l, IF t \in H \cup {t} THEN "held" ELSE "free")
  BY <1>9 DEF Becomes, BlockOf
<1>11. tb'.leaf[t] = Len(G) /\ ButFor(t, tb.leaf, tb'.leaf)
  BY <1>3, <1>7, <1>9 DEF ButFor
<1>12. \A u \in Thread \ {t} : HeldBy(tb', u) = HeldBy(tb, u)
  <2>1. tb'.events = tb.events
    BY <1>4, <1>6, FinishEvents DEF Same
  <2> QED
    BY <2>1 DEF HeldBy
<1>13. frames'[t] = G
  BY <1>3, <1>4
<1>14. ~AtImport(program, G)
  BY <1>1, <1>3, ResumedAt DEF G
<1>15. LeavesOthers(t, H, H \cup {t})
  BY <1>1, <1>4, <1>12, <1>13, <1>14, OwnFrames
<1> QED
  BY <1>1, <1>3, <1>4, <1>5, <1>7, <1>9, <1>10, <1>11, <1>15, TaskLeaves

(* The frame below the leaf stands behind a traversal. *)
LEMMA ReturnsToCaller ==
    ASSUME NEW p, NEW F \in Seq(FrameSet(p)), F # <<>>,
           NEW l, NEW k, NEW st, ThreadOK(p, F, l, k, st)
    PROVE  ~AtImport(p, SubSeq(F, 1, Len(F) - 1))
<1> DEFINE G == SubSeq(F, 1, Len(F) - 1)
<1>1. /\ Len(G) = Len(F) - 1 /\ \A d \in 1 .. Len(F) - 1 : G[d] = F[d]
      /\ G \in Seq(FrameSet(p))
  BY LastRemoved
<1>2. Len(F) \in Nat /\ Len(F) > 0
  OBVIOUS
<1> HIDE DEF G
<1>3. CASE Len(F) = 1
  <2>1. G = <<>>
    BY <1>1, <1>3
  <2> QED
    BY <2>1 DEF AtImport, G
<1>4. CASE Len(F) > 1
  <2>1. Len(G) \in 1 .. Len(F) - 1 /\ Len(G) \in 1 .. Len(F) /\ Len(G) < Len(F)
    BY <1>1, <1>2, <1>4
  <2>2. G[Len(G)] = F[Len(G)] /\ Calling(p, F[Len(G)])
    BY <1>1, <2>1 DEF ThreadOK
  <2> QED
    BY <2>2 DEF AtImport, Calling, G
<1>5. \A n \in Nat : n > 0 => n = 1 \/ n > 1
  OBVIOUS
<1> QED
  BY <1>2, <1>3, <1>4, <1>5

(* zsp_timebase_return from a frame that is not a branch's. *)
LEMMA ReturnStep ==
    ASSUME NEW H, Now(H), NEW t \in Thread, Executing(t),
           ReturnFrom(tb, frames, t), Kids(frames, t) = {},
           Leaf(t).par = NoRef
    PROVE  After(H) /\ LeavesOthers(t, H, H)
<1> DEFINE F == frames[t]
           l == loc[t]
           X == OnStack(exec)
           k == Cardinality(Kids(frames, t))
           G == SubSeq(F, 1, Len(F) - 1)
           r == zsp_timebase_return(tb, t)
<1>1. k = 0
  BY KidsFinite
<1>2. /\ t \in X /\ t \in created /\ t \notin H
      /\ tb \in TimebaseState /\ tb.leaf[t] = Len(F)
      /\ F \in Seq(FrameSet(program)) /\ F # <<>> /\ l \in Place
      /\ Len(F) \in Nat /\ Len(F) > 0
      /\ ThreadOK(program, F, l, k, "runs")
      /\ frames \in [Thread -> Seq(FrameSet(program))]
      /\ Consistent(tb, created, H, X) /\ program \in Bodies
      /\ Tasks(program, frames, loc, X, H)
  BY ExecutingFacts DEF KidsOK, Now, ScenarioState
<1>3. frames' = [frames EXCEPT ![t] = G]
  <2>1. FirstOnly(frames)
    BY <1>2 DEF Tasks, KidsOK, ThreadOK, FirstOnly
  <2>2. frames' = Popped(frames, t)
    BY DEF ReturnFrom
  <2> QED
    BY <1>2, <2>1, <2>2, PoppedIs
<1>4. UNCHANGED <<created, program>>
  BY DEF ReturnFrom
<1>5. /\ r \in TimebaseState /\ Initial(r) = Initial(tb) /\ r.leaf[t] = Len(F) - 1
      /\ ButFor(t, tb.leaf, r.leaf)
  BY <1>2, ReturnInitial DEF ButFor
<1>6. ASSUME Len(F) > 1 PROVE After(H)
  <2>1. /\ G \in Seq(FrameSet(program)) /\ Len(G) = Len(F) - 1 /\ G # <<>>
        /\ G[1].par = F[1].par
        /\ ThreadOK(program, G, l, 0, "free")
        /\ ThreadOK(program, G, AtCase(F[Len(F) - 1].idx), 0, "runs")
    BY <1>2, <1>6, Pops
  <2>2. F[Len(F) - 1].idx \in Nat
    BY <1>2, <1>6, FrameFields
  <2>3. Consistent(r, created, H, X)
    BY <1>2, <1>6, Returns
  <2>4. BranchOf(G) = BranchOf(F)
    BY <1>2, <2>1 DEF BranchOf
  <2> HIDE DEF G
  <2>5. CASE ReturnContinues(tb, t)
    <3> DEFINE m == AtCase(F[Len(F) - 1].idx)
    <3>1. tb' = r /\ loc' = [loc EXCEPT ![t] = m] /\ UNCHANGED exec
      BY <2>5 DEF ReturnFrom
    <3>2. t \notin Initial(tb)
      BY <2>5 DEF ReturnContinues, Initial
    <3>3. m \in Place
      BY <2>2, AtCaseType
    <3>4. Becomes(program, t, k, F, l, "runs", G, m, "runs")
      BY <1>1, <2>1, <2>4 DEF Becomes
    <3> HIDE DEF r, m
    <3> QED
      BY <1>2, <1>3, <1>4, <1>5, <2>1, <2>3, <3>1, <3>2, <3>3, <3>4, TaskStays
  <2>6. CASE ~ReturnContinues(tb, t)
    <3>1. /\ tb' = FinishActivation(r, t) /\ exec' = SubSeq(exec, 1, Len(exec) - 1)
          /\ UNCHANGED loc
      BY <2>6 DEF ReturnFrom, Leave
    <3> HIDE DEF r
    <3>2. Consistent(tb', created, H, X \ {t})
      BY <1>2, <2>3, <3>1, Finishes
    <3>3. Initial(tb') = Initial(tb) \ {t} /\ tb'.leaf = r.leaf
      BY <1>5, <3>1, FinishInitial
    <3>4. Becomes(program, t, k, F, l, "runs", G, l, IF t \in H THEN "held" ELSE "free")
      BY <1>1, <1>2, <2>1, <2>4 DEF Becomes
    <3>5. tb'.leaf[t] = Len(G) /\ ButFor(t, tb.leaf, tb'.leaf)
      BY <1>5, <2>1, <3>3
    <3> QED
      BY <1>2, <1>3, <1>4, <2>1, <3>1, <3>2, <3>3, <3>4, <3>5, TaskLeaves
  <2> QED
    BY <2>5, <2>6
<1>7. ASSUME Len(F) = 1 PROVE After(H)
  <2>1. G \in Seq(FrameSet(program)) /\ Len(G) = 0 /\ G = <<>>
    BY <1>2, <1>7
  <2>2. BranchOf(F) = NoRef /\ BranchOf(G) = NoRef
    BY <1>2, <1>7, <2>1 DEF BranchOf, Leaf, Depth
  <2> HIDE DEF G
  <2>3. ThreadOK(program, G, l, 0, "free")
    BY <2>1 DEF ThreadOK
  <2>4. ~ReturnContinues(tb, t)
    BY <1>2, <1>7 DEF ReturnContinues
  <2>5. /\ tb' = FinishActivation(r, t) /\ exec' = SubSeq(exec, 1, Len(exec) - 1)
        /\ UNCHANGED loc
    BY <2>4 DEF ReturnFrom, Leave
  <2>6. Consistent(tb', created, H, X \ {t})
    BY <1>2, <1>7, <2>5, Completes
  <2> HIDE DEF r
  <2>7. Initial(tb') = Initial(tb) \ {t} /\ tb'.leaf = r.leaf
    BY <1>5, <2>5, FinishInitial
  <2>8. Becomes(program, t, k, F, l, "runs", G, l, IF t \in H THEN "held" ELSE "free")
    BY <1>1, <1>2, <2>2, <2>3 DEF Becomes
  <2>9. tb'.leaf[t] = Len(G) /\ ButFor(t, tb.leaf, tb'.leaf)
    BY <1>5, <1>7, <2>1, <2>7
  <2> QED
    BY <1>2, <1>3, <1>4, <2>1, <2>5, <2>6, <2>7, <2>8, <2>9, TaskLeaves
<1>8. \A n \in Nat : n > 0 => n = 1 \/ n > 1
  OBVIOUS
<1>9. Len(F) = 1 \/ Len(F) > 1
  BY <1>2, <1>8
<1>10. \A u \in Thread \ {t} : HeldBy(tb', u) = HeldBy(tb, u)
  BY <1>2, ReturnEvents DEF HeldBy
<1>11. frames'[t] = G
  BY <1>2, <1>3
<1>12. ~AtImport(program, G)
  BY <1>2, ReturnsToCaller
<1>13. LeavesOthers(t, H, H)
  BY <1>2, <1>3, <1>10, <1>11, <1>12, OwnFrames, ReturnEvents
<1> QED
  BY <1>6, <1>7, <1>9, <1>13

(* A new thread u is entered, by the main program or by another task. *)
LEMMA Entered ==
    ASSUME NEW H, Now(H), NEW u \in Thread \ created,
           created' = created \cup {u}, tb' = thread_init_common(tb, u),
           exec' = Append(exec, u), program' = program,
           Tasks(program, frames', loc', OnStack(exec) \cup {u}, H),
           Len(frames'[u]) = 1, ButFor(u, frames, frames'),
           loc'[u].case = 1, \A v \in Thread \ {u} : loc'[v].case = loc[v].case
    PROVE  After(H)
<1> DEFINE X == OnStack(exec)
<1>1. /\ exec \in Seq(Thread) /\ Distinct(exec) /\ Consistent(tb, created, H, X)
      /\ FramesCounted(tb, created, frames) /\ Nested(Initial(tb), exec)
      /\ \A v \in Initial(tb) : Len(frames[v]) = 1 => loc[v].case = 1
  BY DEF Now, ScenarioState
<1>2. u \notin X /\ tb \in TimebaseState
  BY <1>1 DEF Consistent
<1>3. /\ exec' \in Seq(Thread) /\ Distinct(exec') /\ OnStack(exec') = X \cup {u}
  BY <1>1, <1>2, StackPush
<1>4. Consistent(tb', created', H, OnStack(exec'))
  BY <1>1, <1>3, Creates
<1>5. /\ Initial(tb') = Initial(tb) \cup {u} /\ tb'.leaf[u] = 1
      /\ \A v \in Thread \ {u} : tb'.leaf[v] = tb.leaf[v]
  BY <1>2, CreateInitial
<1>6. FramesCounted(tb', created', frames')
  BY <1>1, <1>5 DEF FramesCounted, ButFor
<1>7. Nested(Initial(tb'), exec')
  <2>1. Initial(tb') \subseteq OnStack(exec')
    BY <1>1, <1>3, <1>5 DEF Nested
  <2>2. /\ Len(exec) \in Nat /\ Len(exec') = Len(exec) + 1 /\ exec'[Len(exec) + 1] = u
        /\ \A i \in 1 .. Len(exec) : exec'[i] = exec[i]
    BY <1>1, LastAdded, LenProperties
  <2>3. ASSUME NEW i \in 2 .. Len(exec') PROVE exec'[i] \in Initial(tb')
    <3>1. i = Len(exec) + 1 \/ (i \in 2 .. Len(exec) /\ i \in 1 .. Len(exec))
      BY <2>2
    <3> QED
      BY <1>1, <1>5, <2>2, <3>1 DEF Nested
  <2> QED
    BY <2>1, <2>3 DEF Nested
<1>8. ASSUME NEW v \in Initial(tb'), Len(frames'[v]) = 1 PROVE loc'[v].case = 1
  <2>1. CASE v = u
    BY <2>1
  <2>2. CASE v # u
    <3>1. v \in Initial(tb) /\ v \in Thread
      BY <1>5, <2>2 DEF Initial
    <3> QED
      BY <1>1, <1>8, <2>2, <3>1 DEF ButFor
  <2> QED
    BY <2>1, <2>2
<1> QED
  BY <1>3, <1>4, <1>6, <1>7, <1>8 DEF After, ScenarioState

(* Its creator and the others stay as they are. *)
LEMMA EnteredAlone ==
    ASSUME NEW H, Now(H), NEW u \in Thread \ created, NEW t,
           created' = created \cup {u}, tb' = thread_init_common(tb, u),
           exec' = Append(exec, u), ButFor(u, frames, frames'),
           t \in OnStack(exec) \cup {u}
    PROVE  LeavesOthers(t, H, H)
<1>1. /\ exec \in Seq(Thread) /\ Distinct(exec) /\ tb \in TimebaseState
      /\ OnStack(exec) \subseteq created /\ created \subseteq Thread
  BY DEF Now, ScenarioState, Consistent
<1>2. OnStack(exec') = OnStack(exec) \cup {u}
  BY <1>1, StackPush
<1>3. tb'.events = tb.events
  BY <1>1 DEF thread_init_common, TimebaseState
<1>4. \A v \in created : frames'[v] = frames[v] /\ HeldBy(tb', v) = HeldBy(tb, v)
  BY <1>1, <1>3 DEF ButFor, HeldBy
<1> QED
  BY <1>2, <1>4 DEF LeavesOthers, SameLeaf

(* "ScPar": one more branch is created, and runs its first case. *)
LEMMA SpawnsStep ==
    ASSUME NEW H, Now(H), NEW t \in Thread, TaskSpawnsBranch(t)
    PROVE  After(H) /\ LeavesOthers(t, H, H)
<1> DEFINE F == frames[t]
           f == F[Len(F)]
           l == loc[t]
           X == OnStack(exec)
           k == Cardinality(Kids(frames, t))
           u == NewThread
           n == l.spawned + 1
           a == Suspend(t).branches[n]
           ref == ParBlock(t, Len(F), l.case)
           E == <<FreshFrame(program, a, ref)>>
           m == [l EXCEPT !.spawned = n]
<1>1. /\ Executing(t) /\ Leaf(t) = f /\ f.action \in DOMAIN program
      /\ f \in FrameSet(program)
      /\ KindAt(program, f, l.case) = "par" /\ Suspend(t).kind = "par"
      /\ l.case \in DOMAIN program[f.action]
      /\ Suspend(t) = program[f.action][l.case]
  BY ReachesFacts DEF TaskSpawnsBranch, Reaches
<1>2. /\ t \in X /\ t \in created /\ t \notin H
      /\ F \in Seq(FrameSet(program)) /\ F # <<>> /\ l \in Place
      /\ Len(F) \in Nat /\ Len(F) > 0 /\ Len(F) \in 1 .. Len(F)
      /\ KidsOK(program, frames, l, "runs", t)
      /\ ThreadOK(program, F, l, k, "runs")
      /\ frames \in [Thread -> Seq(FrameSet(program))]
      /\ loc \in [Thread -> Place]
      /\ Consistent(tb, created, H, X) /\ program \in Bodies
      /\ Tasks(program, frames, loc, X, H)
      /\ FramesCounted(tb, created, frames)
  BY <1>1, ExecutingFacts DEF KidsOK, Now, ScenarioState
<1>3. /\ u \in Thread \ created /\ created' = created \cup {u}
      /\ tb' = thread_init_common(tb, u) /\ exec' = Append(exec, u)
      /\ loc' = [loc EXCEPT ![t].spawned = n, ![u] = AtCase(1)]
      /\ program' = program
      /\ frames' = [IF n = 1 THEN [frames EXCEPT ![t] = [@ EXCEPT ![Depth(t)].done[l.case] = 0]]
                             ELSE frames
                    EXCEPT ![u] = <<NewFrame(a, ParBlock(t, Depth(t), l.case))>>]
  BY DEF TaskSpawnsBranch, Enter
<1>4. l.spawned < Total(program, f, l.case) /\ l.case \in Nat /\ l.spawned \in Nat
  BY <1>1, <1>2 DEF TaskSpawnsBranch, Total, Place
<1>5. k \in Nat
  BY KidsFinite
<1>6. /\ k = l.spawned /\ f.done[l.case] = 0
      /\ ThreadOK(program, F, [l EXCEPT !.spawned = k + 1], k + 1, "runs")
  <2>1. /\ KindAt(program, F[Len(F)], l.case) = "par"
        /\ l.spawned < Total(program, F[Len(F)], l.case)
    BY <1>1, <1>4
  <2> HIDE DEF F, k, l
  <2> QED
    BY <1>2, <1>5, <2>1, Spawns DEF f
<1>7. /\ a \in DOMAIN program /\ Len(program[a]) > 0 /\ a \notin MayFail
  <2>1. /\ Suspend(t).branches \in Seq(DOMAIN program)
        /\ Len(Suspend(t).branches) \in Nat
    BY <1>1, <1>2, BodyFacts
  <2>2. n \in 1 .. Len(Suspend(t).branches)
    BY <1>1, <1>4, <2>1 DEF Total
  <2>3. a \in DOMAIN program
    BY <2>1, <2>2
  <2>4. \A j \in 1 .. Len(Suspend(t).branches) :
           /\ Len(program[Suspend(t).branches[j]]) > 0
           /\ Suspend(t).branches[j] \notin MayFail
    BY <1>1, <1>2 DEF Bodies, BranchesSuspend
  <2> QED
    BY <2>2, <2>3, <2>4
<1>8. frames' = [frames EXCEPT ![u] = E]
  <2>1. NewFrame(a, ref) = FreshFrame(program, a, ref) /\ Depth(t) = Len(F)
    BY DEF NewFrame, FreshFrame, Depth
  <2>2. [frames EXCEPT ![t] = [@ EXCEPT ![Depth(t)].done[l.case] = 0]] = frames
    <3>1. [f EXCEPT !.done[l.case] = 0] = f
      <4>1. [f.done EXCEPT ![l.case] = 0] = f.done
        <5>1. f.done \in [DOMAIN program[f.action] -> Nat]
          BY <1>2 DEF ThreadOK, FrameOK
        <5> QED
          BY <1>1, <1>6, <5>1
      <4>2. [f EXCEPT !.done = f.done] = f
        BY <1>1 DEF FrameSet
      <4> HIDE DEF f
      <4> QED
        BY <4>1, <4>2
    <3>2. [F EXCEPT ![Len(F)].done[l.case] = 0] = WithLast(F, [f EXCEPT !.done[l.case] = 0])
      BY DEF WithLast
    <3>3. WithLast(F, f) = F
      BY <1>2 DEF WithLast
    <3>4. [F EXCEPT ![Len(F)].done[l.case] = 0] = F
      BY <3>1, <3>2, <3>3
    <3> QED
      BY <1>2, <2>1, <3>4
  <2> HIDE DEF u, a, n
  <2> QED
    BY <1>3, <2>1, <2>2
<1>9. ref \in Refs /\ ref # NoRef /\ Thread # {}
  BY <1>2, <1>4 DEF Refs, NoRef, ParBlock
<1> HIDE DEF u, a, n
<1>10. /\ E \in Seq(FrameSet(program)) /\ E # <<>> /\ Len(E) = 1 /\ E[1].par = ref
       /\ ThreadOK(program, E, AtCase(1), 0, "runs")
  BY <1>2, <1>7, <1>9, Begins
<1> HIDE DEF E
<1>11. u # t /\ frames[u] = <<>>
  BY <1>2, <1>3 DEF FramesCounted
<1>12. /\ frames' \in [Thread -> Seq(FrameSet(program))] /\ frames'[u] = E
       /\ ButFor(u, frames, frames')
  <2>1. /\ frames \in [Thread -> Seq(FrameSet(program))] /\ u \in Thread
        /\ E \in Seq(FrameSet(program))
    BY <1>2, <1>3, <1>10
  <2> QED
    BY <1>8, <2>1, Assigned DEF ButFor
<1>13. n \in Nat /\ m \in Place /\ m.case = l.case /\ n = k + 1
  <2>1. n \in Nat /\ n = k + 1
    BY <1>4, <1>6 DEF n
  <2>2. m \in Place /\ m.case = l.case
    BY <1>2, <2>1 DEF Place
  <2> QED
    BY <2>1, <2>2
<1>14. /\ loc' \in [Thread -> Place] /\ loc'[u] = AtCase(1) /\ loc'[t] = m
       /\ \A v \in Thread \ {t, u} : loc'[v] = loc[v]
  <2>1. AtCase(1) \in Place
    BY AtCaseType
  <2>2. loc' = [[loc EXCEPT ![t] = m] EXCEPT ![u] = AtCase(1)]
    BY <1>3
  <2> HIDE DEF m
  <2> QED
    BY <1>2, <1>3, <1>11, <1>13, <2>1, <2>2
<1>15. ThreadOK(program, frames[t], loc'[t], k + 1, "runs") /\ loc'[t].case = loc[t].case
  BY <1>6, <1>13, <1>14
<1>16. BranchOf(frames'[u]) = BlockOf(t, frames[t], loc[t], "runs")
  BY <1>10, <1>12 DEF BranchOf, BlockOf
<1>17. ThreadOK(program, frames'[u], loc'[u], 0, "runs")
  BY <1>10, <1>12, <1>14
<1> HIDE DEF X, k, m, ref, l, F
<1>18. Tasks(program, frames', loc', X \cup {u}, H)
  <2>1. SameCase(t, u, loc, loc')
    BY <1>14, <1>15 DEF SameCase
  <2>2. /\ Tasks(program, frames, loc, X, H) /\ t \in X /\ u \in Thread
        /\ frames[t] # <<>>
    BY <1>2, <1>3 DEF F
  <2>3. ThreadOK(program, frames[t], loc'[t], Cardinality(Kids(frames, t)) + 1, "runs")
    BY <1>15 DEF k
  <2> QED
    BY <1>11, <1>12, <1>14, <1>16, <1>17, <2>1, <2>2, <2>3, BranchCreated
<1>19. loc'[u].case = 1 /\ \A v \in Thread \ {u} : loc'[v].case = loc[v].case
  BY <1>14, <1>15 DEF AtCase
<1>20. Len(frames'[u]) = 1
  BY <1>10, <1>12
<1>21. LeavesOthers(t, H, H)
  BY <1>2, <1>3, <1>12, EnteredAlone DEF X
<1> QED
  BY <1>3, <1>12, <1>18, <1>19, <1>20, <1>21, Entered DEF X

(* An exported action is started: its thread is no branch. *)
LEMMA RootStep ==
    ASSUME NEW H, Now(H), NEW a \in DOMAIN program,
           Enter(NewThread, a, NoRef, frames),
           loc' = [loc EXCEPT ![NewThread] = AtCase(1)], program' = program
    PROVE  After(H)
<1> DEFINE u == NewThread
           X == OnStack(exec)
           E == <<FreshFrame(program, a, NoRef)>>
<1>1. /\ u \in Thread \ created /\ created' = created \cup {u}
      /\ tb' = thread_init_common(tb, u) /\ exec' = Append(exec, u)
      /\ frames' = [frames EXCEPT ![u] = E]
  BY DEF Enter, NewFrame, FreshFrame
<1> HIDE DEF u
<1>2. /\ Tasks(program, frames, loc, X, H) /\ FramesCounted(tb, created, frames)
      /\ frames \in [Thread -> Seq(FrameSet(program))] /\ loc \in [Thread -> Place]
      /\ program \in Bodies
  BY DEF Now, ScenarioState, Tasks
<1>3. NoRef \in Refs
  BY DEF Refs
<1>4. /\ E \in Seq(FrameSet(program)) /\ E # <<>> /\ Len(E) = 1 /\ E[1].par = NoRef
      /\ ThreadOK(program, E, AtCase(1), 0, "runs")
  BY <1>2, <1>3, Begins
<1> HIDE DEF E
<1>5. frames[u] = <<>>
  BY <1>1, <1>2 DEF FramesCounted
<1>6. /\ frames' \in [Thread -> Seq(FrameSet(program))] /\ frames'[u] = E
      /\ ButFor(u, frames, frames')
  BY <1>1, <1>2, <1>4, Assigned DEF ButFor
<1>7. /\ loc' \in [Thread -> Place] /\ loc'[u] = AtCase(1) /\ ButFor(u, loc, loc')
  BY <1>1, <1>2, Assigned, AtCaseType DEF ButFor, u
<1>8. Kids(frames, u) = {} /\ Cardinality(Kids(frames, u)) = 0
  BY <1>1, <1>2, <1>5, NoFrames, FS_EmptySet
<1>9. Stage(X \cup {u}, H, u) = "runs" /\ SameStages(u, X, H, X \cup {u}, H)
  BY DEF Stage, SameStages
<1>10. Becomes(program, u, Cardinality(Kids(frames, u)), frames[u], loc[u], Stage(X, H, u),
               frames'[u], loc'[u], Stage(X \cup {u}, H, u))
  BY <1>4, <1>5, <1>6, <1>7, <1>8, <1>9 DEF Becomes, BranchOf
<1> HIDE DEF X
<1>11. Tasks(program, frames', loc', X \cup {u}, H)
  BY <1>1, <1>2, <1>6, <1>7, <1>9, <1>10, OneThread
<1>12. loc'[u].case = 1 /\ \A v \in Thread \ {u} : loc'[v].case = loc[v].case
  BY <1>7 DEF AtCase, ButFor
<1>13. Len(frames'[u]) = 1
  BY <1>4, <1>6
<1> QED
  BY <1>1, <1>6, <1>11, <1>12, <1>13, Entered DEF X


(* A branch that reaches its final case: it is alone on the C stack, since *)
(* it suspended before, and its parent is blocked at its block.            *)
LEMMA BranchAtEnd ==
    ASSUME NEW H, Now(H), NEW t \in Thread, Reaches(t, "final"),
           Leaf(t).par # NoRef,
           NEW q, q = Leaf(t).par.thread
    PROVE  /\ Len(frames[t]) = 1 /\ OnStack(exec) = {t}
           /\ q \in Thread /\ q # t /\ q \in H /\ t \in Kids(frames, q)
           /\ frames[q] # <<>>
           /\ KidsOK(program, frames, loc[q], "held", q)
           /\ Stage(OnStack(exec), H, q) = "held"
           /\ Leaf(t).par = BlockOf(q, frames[q], loc[q], "held")
<1> DEFINE F == frames[t]
           f == Leaf(t)
           X == OnStack(exec)
<1>1. /\ Executing(t) /\ f = F[Len(F)] /\ f \in FrameSet(program)
      /\ f.action \in DOMAIN program
      /\ loc[t].case \notin DOMAIN program[f.action]
      /\ KindAt(program, f, loc[t].case) = "final"
  BY ReachesFacts
<1>2. /\ exec # <<>> /\ t = exec[Len(exec)] /\ t \in X
      /\ F \in Seq(FrameSet(program)) /\ F # <<>> /\ Len(F) \in Nat /\ Len(F) > 0
      /\ ThreadOK(program, F, loc[t], Cardinality(Kids(frames, t)), "runs")
      /\ program \in Bodies
  BY <1>1, ExecutingFacts DEF KidsOK, Now
<1>3. exec \in Seq(Thread) /\ Nested(Initial(tb), exec) /\ Tasks(program, frames, loc, X, H)
      /\ \A u \in Initial(tb) : Len(frames[u]) = 1 => loc[u].case = 1
  BY DEF Now, ScenarioState
<1>4. /\ Len(F) = 1 /\ f = F[1]
  <2>1. Len(F) > 1 => f.par = NoRef
    BY <1>1, <1>2, LeafFacts
  <2>2. \A n \in Nat : n > 0 => n = 1 \/ n > 1
    OBVIOUS
  <2> QED
    BY <1>1, <1>2, <2>1, <2>2
<1>5. t \notin Initial(tb)
  <2>1. OfBranch(program, f)
    BY <1>2, <1>4 DEF ThreadOK
  <2>2. 1 \in DOMAIN program[f.action]
    BY <1>1, <1>2, <2>1, BodyFacts DEF OfBranch
  <2> QED
    BY <1>1, <1>3, <1>4, <2>2
<1>6. X = {t}
  <2>1. Len(exec) \in Nat /\ Len(exec) > 0
    BY <1>2, <1>3
  <2>2. Len(exec) \notin 2 .. Len(exec)
    BY <1>2, <1>3, <1>5 DEF Nested
  <2>3. Len(exec) = 1
    BY <2>1, <2>2
  <2> QED
    BY <1>2, <2>3 DEF OnStack
<1>7. q \in Thread /\ t \in Kids(frames, q)
  <2>1. f.par \in Refs
    BY <1>1, <1>2, FrameFields
  <2>2. q \in Thread
    BY <2>1 DEF Refs, ParBlock
  <2> QED
    BY <1>2, <1>4, <2>2 DEF Kids, BranchOf
<1>8. /\ KidsOK(program, frames, loc[q], Stage(X, H, q), q)
      /\ f.par = BlockOf(q, frames[q], loc[q], Stage(X, H, q))
  <2>1. KidsOK(program, frames, loc[q], Stage(X, H, q), q)
    BY <1>3, <1>7 DEF Tasks
  <2> QED
    BY <1>2, <1>4, <1>7, <2>1 DEF KidsOK, BranchOf
<1>9. Cardinality(Kids(frames, q)) # 0
  BY <1>7, KidsFinite
<1>10. q # t
  <2>1. Cardinality(Kids(frames, t)) = 0
    BY <1>1, <1>2, LeafFacts DEF LeafOK, Running
  <2> QED
    BY <1>9, <2>1
<1>11. frames[q] # <<>>
  BY <1>8, <1>9 DEF KidsOK, ThreadOK
<1>12. Stage(X, H, q) = "held" /\ q \in H
  <2>1. Stage(X, H, q) # "free"
    BY <1>8, <1>9, <1>11 DEF KidsOK, ThreadOK, LeafOK
  <2>2. q \notin X
    BY <1>6, <1>10
  <2> QED
    BY <2>1, <2>2 DEF Stage
<1> QED
  BY <1>4, <1>6, <1>7, <1>8, <1>10, <1>11, <1>12


(* A sequence of one frame. *)
LEMMA OneFrame ==
    ASSUME NEW S, NEW z \in Seq(S), Len(z) = 1
    PROVE  z # <<>> /\ SubSeq(z, 1, Len(z) - 1) = <<>>
OBVIOUS

(* Two sequences of frames are branches of the same blocks. *)
SameRefs(F, G) == Len(G) = Len(F) /\ \A d \in 1 .. Len(G) : G[d].par = F[d].par

(* PoppedIs for frames given by an expression. *)
MayPop(p, fr, t) ==
    /\ p \in Bodies /\ fr \in [Thread -> Seq(FrameSet(p))]
    /\ FirstOnly(fr) /\ Kids(fr, t) = {} /\ fr[t] # <<>>
OnlyPops(p, fr, t, G) ==
    /\ G \in [Thread -> Seq(FrameSet(p))]
    /\ G[t] = SubSeq(fr[t], 1, Len(fr[t]) - 1)
    /\ \A u \in Thread \ {t} : G[u] = fr[u]

(* Popped, in terms of the two predicates. *)
LEMMA PopsTop ==
    ASSUME NEW p, NEW fr, NEW t \in Thread, MayPop(p, fr, t)
    PROVE  OnlyPops(p, fr, t, Popped(fr, t))
BY PoppedIs DEF MayPop, OnlyPops

(* Its parent's counter is raised and its own frame removed. *)
Joined(fr, q, G) == [fr EXCEPT ![q] = G]

MayJoin(p, fr, t, q, G) ==
    /\ p \in Bodies /\ fr \in [Thread -> Seq(FrameSet(p))] /\ FirstOnly(fr)
    /\ q # t /\ Len(fr[t]) = 1 /\ Kids(fr, t) = {}
    /\ fr[q] # <<>> /\ G \in Seq(FrameSet(p)) /\ SameRefs(fr[q], G)

(* The frames after the last frame of a branch has gone and its parent's
   counter is raised. *)
LEMMA BranchPopped ==
    ASSUME NEW p, NEW fr, NEW t \in Thread, NEW q \in Thread, NEW G,
           MayJoin(p, fr, t, q, G)
    PROVE  LET c == Joined(fr, q, G)
           IN  /\ Popped(c, t) \in [Thread -> Seq(FrameSet(p))]
               /\ Popped(c, t)[t] = <<>> /\ Popped(c, t)[q] = G
               /\ ButForBoth(q, t, fr, Popped(c, t))
               /\ Len(c[t]) = 1 /\ BranchOf(G) = BranchOf(fr[q])
<1> DEFINE c == Joined(fr, q, G)
<1>h. /\ p \in Bodies /\ fr \in [Thread -> Seq(FrameSet(p))] /\ FirstOnly(fr)
      /\ q # t /\ Len(fr[t]) = 1 /\ Kids(fr, t) = {}
      /\ fr[q] # <<>> /\ G \in Seq(FrameSet(p)) /\ SameRefs(fr[q], G)
  BY DEF MayJoin
<1>0. Len(G) = Len(fr[q]) /\ \A d \in 1 .. Len(G) : G[d].par = fr[q][d].par
  BY <1>h DEF SameRefs
<1>1. /\ c \in [Thread -> Seq(FrameSet(p))] /\ c[q] = G
      /\ \A u \in Thread \ {q} : c[u] = fr[u]
  BY <1>h DEF Joined
<1> HIDE DEF c
<1>2. \A u \in Thread : \A d \in 1 .. Len(fr[u]) : d > 1 => fr[u][d].par = NoRef
  BY <1>h DEF FirstOnly
<1>3. FirstOnly(c)
  <2>1. ASSUME NEW u \in Thread, NEW d \in 1 .. Len(c[u]), d > 1
        PROVE  c[u][d].par = NoRef
    <3>1. CASE u = q
      <4>1. c[u] = G /\ d \in 1 .. Len(G) /\ d \in 1 .. Len(fr[q])
        BY <1>0, <1>1, <2>1, <3>1
      <4> QED
        BY <1>0, <1>2, <2>1, <4>1
    <3>2. CASE u # q
      BY <1>1, <1>2, <2>1, <3>2
    <3> QED
      BY <3>1, <3>2
  <2> QED
    BY <2>1 DEF FirstOnly
<1>4. BranchOf(G) = BranchOf(fr[q])
  <2>1. /\ fr[q] \in Seq(FrameSet(p)) /\ Len(fr[q]) \in Nat /\ Len(fr[q]) > 0
        /\ G # <<>>
    BY <1>0, <1>h
  <2>2. 1 \in 1 .. Len(G)
    BY <1>0, <2>1
  <2> QED
    BY <1>0, <2>1, <2>2 DEF BranchOf
<1>5. \A u \in Thread : BranchOf(c[u]) = BranchOf(fr[u])
  BY <1>1, <1>4
<1>6. Kids(c, t) = {}
  BY <1>5, <1>h DEF Kids
<1>7. Len(c[t]) = 1 /\ c[t] # <<>> /\ c[t] \in Seq(FrameSet(p))
  <2>1. c[t] = fr[t] /\ fr[t] \in Seq(FrameSet(p)) /\ Len(fr[t]) = 1
    BY <1>1, <1>h
  <2> QED
    BY <2>1, OneFrame
<1>8. SubSeq(c[t], 1, Len(c[t]) - 1) = <<>>
  BY <1>7, OneFrame
<1>9. /\ Popped(c, t) \in [Thread -> Seq(FrameSet(p))]
      /\ Popped(c, t)[t] = SubSeq(c[t], 1, Len(c[t]) - 1)
      /\ \A u \in Thread \ {t} : Popped(c, t)[u] = c[u]
  <2>1. MayPop(p, c, t)
    BY <1>1, <1>3, <1>6, <1>7, <1>h DEF MayPop
  <2>2. OnlyPops(p, c, t, Popped(c, t))
    BY <2>1, PopsTop
  <2> QED
    BY <2>2 DEF OnlyPops
<1> QED
  BY <1>1, <1>4, <1>7, <1>8, <1>9, <1>h DEF ButForBoth, c


(* The thread that completes leaves the C stack, after its parent's block  *)
(* has counted it and, if it was the last branch, woken the parent.        *)
LEMMA BranchReturns ==
    ASSUME NEW H, Now(H), NEW t \in Thread, Executing(t), Len(frames[t]) = 1,
           NEW s, NEW fr, ReturnFrom(s, fr, t), Len(fr[t]) = 1,
           Same(tb, s), NEW K, Consistent(s, created, K, OnStack(exec)),
           NEW q \in Thread, q # t,
           NEW G, Len(G) = Len(frames[q]),
           frames'[t] = <<>>, frames'[q] = G, ButForBoth(q, t, frames, frames'),
           Tasks(program, frames', loc, OnStack(exec) \ {t}, K)
    PROVE  After(K)
<1> DEFINE X == OnStack(exec)
           r == zsp_timebase_return(s, t)
<1>1. /\ t \in X /\ exec # <<>> /\ t = exec[Len(exec)] /\ t \in created
      /\ tb.leaf[t] = Len(frames[t]) /\ tb.leaf[t] > 0
  BY ExecutingFacts
<1>2. s \in TimebaseState /\ Initial(s) = Initial(tb) /\ s.leaf = tb.leaf /\ s.leaf[t] = 1
  BY <1>1 DEF Same
<1>3. ~ReturnContinues(s, t)
  BY <1>2 DEF ReturnContinues
<1>4. /\ tb' = FinishActivation(r, t) /\ exec' = SubSeq(exec, 1, Len(exec) - 1)
      /\ UNCHANGED <<loc, created, program>>
  BY <1>3 DEF ReturnFrom, Leave
<1>5. Consistent(tb', created, K, X \ {t})
  BY <1>1, <1>2, <1>4, Completes
<1>6. /\ r \in TimebaseState /\ Initial(r) = Initial(s) /\ r.leaf[t] = 0
      /\ ButFor(t, s.leaf, r.leaf)
  BY <1>2, ReturnInitial DEF ButFor
<1> HIDE DEF r
<1>7. Initial(tb') = Initial(tb) \ {t} /\ tb'.leaf = r.leaf
  BY <1>2, <1>4, <1>6, FinishInitial
<1>8. /\ ScenarioState(program, tb, created, exec, frames, loc, H)
      /\ FramesCounted(tb, created, frames) /\ Consistent(tb, created, H, X)
  BY DEF Now, ScenarioState
<1>9. SameDepths(t, frames, frames')
  BY DEF SameDepths, ButForBoth
<1>10. FramesCounted(tb', created, frames')
  <2>1. \A u \in Thread : tb'.leaf[u] = Len(frames'[u])
    BY <1>2, <1>6, <1>7, <1>8, <1>9 DEF FramesCounted, ButFor, SameDepths
  <2>2. ASSUME NEW u \in Thread \ created PROVE frames'[u] = <<>>
    <3>1. CASE u = q
      <4>1. G = <<>>
        <5>1. Len(G) = 0 /\ G \in Seq(FrameSet(program))
          BY <1>8, <3>1, <2>2 DEF FramesCounted, Tasks
        <5> QED
          BY <5>1
      <4> QED
        BY <3>1, <4>1
    <3>2. CASE u # q
      BY <1>1, <1>8, <2>2, <3>2 DEF FramesCounted, ButForBoth
    <3> QED
      BY <3>1, <3>2
  <2> QED
    BY <2>1, <2>2 DEF FramesCounted
<1>y. Tasks(program, frames', loc, X \ {t}, K)
  OBVIOUS
<1>11. ScenarioState(program, tb', created, SubSeq(exec, 1, Len(exec) - 1), frames', loc, K)
  BY <1>1, <1>5, <1>7, <1>8, <1>9, <1>10, <1>y, Left DEF X
<1> QED
  BY <1>4, <1>11 DEF After

(* The final case. *)
LEMMA EndsStep ==
    ASSUME NEW H, Now(H), NEW t \in Thread, TaskEnds(t)
    PROVE  \E K : After(K) /\ LeavesOthers(t, H, K)
<1> DEFINE F == frames[t]
           b == Leaf(t).par
           q == b.thread
           X == OnStack(exec)
           k == Cardinality(Kids(frames, q))
           P == frames[q]
           G == CountedUp(P, b.at)
           f == P[Len(P)]
           s == IF k = 1 THEN zsp_timebase_schedule(tb, q) ELSE tb
           K == IF k = 1 THEN H \ {q} ELSE H
           c == Joined(frames, q, G)
<1>1. /\ Reaches(t, "final") /\ Executing(t) /\ Leaf(t) = F[Len(F)]
      /\ Leaf(t) \in FrameSet(program) /\ Leaf(t).action \in DOMAIN program
      /\ KindAt(program, Leaf(t), loc[t].case) = "final"
  BY ReachesFacts DEF TaskEnds
<1>2. /\ t \in X /\ t \in created
      /\ F \in Seq(FrameSet(program)) /\ F # <<>>
      /\ ThreadOK(program, F, loc[t], Cardinality(Kids(frames, t)), "runs")
      /\ program \in Bodies /\ frames \in [Thread -> Seq(FrameSet(program))]
      /\ Consistent(tb, created, H, X) /\ tb \in TimebaseState
      /\ Tasks(program, frames, loc, X, H)
  BY <1>1, ExecutingFacts DEF KidsOK, Now, ScenarioState
<1>3. Kids(frames, t) = {}
  BY <1>1, <1>2, LeafFacts, KidsFinite DEF LeafOK, Running
<1>4. CASE Leaf(t).par = NoRef
  <2>1. ReturnFrom(tb, frames, t)
    BY <1>4 DEF TaskEnds, NoRef
  <2> QED
    BY <1>1, <1>3, <1>4, <2>1, ReturnStep
<1>5. CASE Leaf(t).par # NoRef
  <2>1. /\ Len(F) = 1 /\ X = {t} /\ q \in Thread /\ q # t /\ q \in H
        /\ t \in Kids(frames, q) /\ P # <<>>
        /\ KidsOK(program, frames, loc[q], "held", q) /\ Stage(X, H, q) = "held"
        /\ b = BlockOf(q, P, loc[q], "held")
    BY <1>1, <1>5, BranchAtEnd
  <2>2. b.kind = "block" /\ b.depth = Len(P) /\ b.at = f.idx - 1
    BY <2>1 DEF BlockOf, ParBlock
  <2>3. k \in Nat /\ k > 0
    <3>1. k \in Nat /\ k # 0
      BY <2>1, KidsFinite
    <3> QED
      BY <3>1
  <2>4. P \in Seq(FrameSet(program)) /\ ThreadOK(program, P, loc[q], k, "held")
    BY <1>2, <2>1 DEF KidsOK
  <2> HIDE DEF P, k
  <2>5. /\ G \in Seq(FrameSet(program)) /\ Len(G) = Len(P) /\ G # <<>>
        /\ G[Len(P)].idx = f.idx /\ G[Len(P)].action = f.action
        /\ KindAt(program, f, b.at) = "par"
        /\ \A d \in 1 .. Len(P) - 1 : G[d] = P[d]
        /\ G[Len(P)].par = f.par
        /\ f.done[b.at] + 1 = Total(program, f, b.at) <=> k = 1
        /\ k > 1 => ThreadOK(program, G, loc[q], k - 1, "held")
        /\ k = 1 => ThreadOK(program, G, loc[q], k - 1, "free")
    BY <1>2, <2>1, <2>2, <2>3, <2>4, CountsUp
  <2>6. ReturnFrom(s, c, t)
    <3>1. ReturnFrom(IF zsp_par_block_join(Total(program, f, b.at), f.done[b.at] + 1)
                     THEN zsp_timebase_schedule(tb, q) ELSE tb, c, t)
      BY <2>2 DEF TaskEnds, Total, CountedUp, Joined, P
    <3> QED
      BY <2>5, <3>1 DEF zsp_par_block_join
  <2>7. Same(tb, s) /\ Consistent(s, created, K, X) /\ s.events = tb.events
    <3>1. CASE k = 1
      BY <1>2, <2>1, <3>1, SameSchedule, ScheduleEvents, Wakes
    <3>2. CASE k # 1
      BY <1>2, <3>2 DEF Same
    <3> QED
      BY <3>1, <3>2
  <2>8. frames' = Popped(c, t)
    BY <2>6 DEF ReturnFrom
  <2>9. SameRefs(P, G)
    <3>1. \A n \in Nat : \A d \in 1 .. n : d = n \/ d \in 1 .. n - 1
      OBVIOUS
    <3>2. Len(P) \in Nat
      BY <2>4
    <3> QED
      BY <2>5, <3>1, <3>2 DEF SameRefs
  <2> HIDE DEF G, s
  <2>10. /\ Popped(c, t) \in [Thread -> Seq(FrameSet(program))]
         /\ Popped(c, t)[t] = <<>> /\ Popped(c, t)[q] = G
         /\ ButForBoth(q, t, frames, Popped(c, t))
         /\ Len(c[t]) = 1 /\ BranchOf(G) = BranchOf(P)
    <3>1. FirstOnly(frames)
      BY <1>2 DEF Tasks, KidsOK, ThreadOK, FirstOnly
    <3>2. MayJoin(program, frames, t, q, G)
      BY <1>2, <1>3, <2>1, <2>5, <2>9, <3>1 DEF MayJoin, P
    <3>3. q \in Thread
      BY <2>1
    <3> HIDE DEF q
    <3>4. /\ Popped(c, t) \in [Thread -> Seq(FrameSet(program))]
          /\ Popped(c, t)[t] = <<>> /\ Popped(c, t)[q] = G
          /\ ButForBoth(q, t, frames, Popped(c, t))
          /\ Len(c[t]) = 1 /\ BranchOf(G) = BranchOf(frames[q])
      BY <3>2, <3>3, BranchPopped
    <3> QED
      BY <3>4 DEF P
  <2> HIDE DEF c
  <2>11. t \notin X \ {t} /\ t \notin K /\ StagesButForBoth(q, t, X, H, X \ {t}, K)
    <3>1. t \notin H
      BY <1>1, ExecutingFacts
    <3> QED
      BY <3>1 DEF StagesButForBoth, Stage
  <2>12. Stage(X \ {t}, K, q) = IF k = 1 THEN "free" ELSE "held"
    BY <2>1 DEF Stage
  <2>13. ThreadOK(program, G, loc[q], k - 1, Stage(X \ {t}, K, q))
    <3>1. k = 1 \/ k > 1
      BY <2>3
    <3>2. k > 1 => k # 1
      OBVIOUS
    <3> QED
      BY <2>5, <2>12, <3>1, <3>2
  <2>14. k > 1 => BlockOf(q, G, loc[q], Stage(X \ {t}, K, q)) =
                  BlockOf(q, P, loc[q], Stage(X, H, q))
    BY <2>1, <2>5, <2>12 DEF BlockOf
  <2>18. \A u \in Thread \ {t} :
            /\ SameLeaf(frames[u], frames'[u])
            /\ AtImport(program, frames[u]) => (u \in K <=> u \in H)
    <3>1. SameLeaf(P, G)
      BY <2>1, <2>5 DEF SameLeaf
    <3>2. ~AtImport(program, P)
      BY <2>2, <2>5 DEF AtImport
    <3>3. ASSUME NEW u \in Thread \ {t}, u # q
          PROVE  SameLeaf(frames[u], frames'[u]) /\ (u \in K <=> u \in H)
      BY <2>8, <2>10, <3>3 DEF ButForBoth, SameLeaf
    <3>4. SameLeaf(frames[q], frames'[q]) /\ ~AtImport(program, frames[q])
      BY <2>8, <2>10, <3>1, <3>2 DEF P
    <3> QED
      BY <3>3, <3>4
  <2>19. \A u \in Thread \ {t} : HeldBy(tb', u) = HeldBy(tb, u)
    <3>1. s \in TimebaseState /\ s.leaf[t] > 0
      BY <1>1, <2>7, ExecutingFacts DEF Same
    <3> QED
      BY <2>6, <2>7, <3>1, ReturnEvents DEF HeldBy
  <2> HIDE DEF K, X, q
  <2>22. OthersAre(t, H, K)
    BY <2>18, <2>19 DEF OthersAre
  <2>15. CountsOne(program, q, Cardinality(Kids(frames, q)), frames[q], loc[q],
                   Stage(X, H, q), frames'[q], Stage(X \ {t}, K, q))
    BY <2>8, <2>10, <2>13, <2>14 DEF CountsOne, P, k
  <2>16. Tasks(program, frames', loc, X \ {t}, K)
    BY <1>2, <1>3, <2>1, <2>8, <2>10, <2>11, <2>15, BranchEnded
  <2>17. After(K)
    BY <1>1, <2>1, <2>5, <2>6, <2>7, <2>8, <2>10, <2>16, BranchReturns DEF X, P
  <2>20. ~AtImport(program, frames'[t])
    BY <2>8, <2>10 DEF AtImport
  <2>21. /\ UNCHANGED created
         /\ exec' = exec \/ exec' = SubSeq(exec, 1, Len(exec) - 1)
    BY <2>6 DEF ReturnFrom, Leave
  <2>23. LeavesOthers(t, H, K)
    BY <1>1, <2>20, <2>21, <2>22, OthersLeft
  <2> QED
    BY <2>17, <2>23
<1> QED
  BY <1>4, <1>5


(* The randomization of an action that is no branch fails. *)
LEMMA FailsStep ==
    ASSUME NEW H, Now(H), NEW t \in Thread, TaskFails(t)
    PROVE  After(H) /\ LeavesOthers(t, H, H)
<1> DEFINE F == frames[t]
<1>1. Executing(t) /\ loc[t] = AtCase(1) /\ Leaf(t).action \in MayFail
      /\ ReturnFrom(tb, frames, t) /\ Leaf(t) = F[Len(F)]
  BY DEF TaskFails, Leaf, Depth
<1>2. /\ F \in Seq(FrameSet(program)) /\ F # <<>> /\ Len(F) \in Nat /\ Len(F) > 0
      /\ ThreadOK(program, F, loc[t], Cardinality(Kids(frames, t)), "runs")
      /\ program \in Bodies
  BY <1>1, ExecutingFacts DEF KidsOK, Now
<1>3. Kids(frames, t) = {}
  <2>1. LeafOK(program, F[Len(F)], loc[t], Cardinality(Kids(frames, t)), "runs")
    BY <1>2, LeafFacts
  <2>2. loc[t].spawned = 0
    BY <1>1 DEF AtCase
  <2> QED
    BY <2>1, <2>2, KidsFinite DEF LeafOK, Running
<1>4. Leaf(t).par = NoRef
  <2>1. Len(F) > 1 => F[Len(F)].par = NoRef
    BY <1>2, LeafFacts
  <2>2. \A n \in Nat : n > 0 => n = 1 \/ n > 1
    OBVIOUS
  <2>3. CASE Len(F) = 1
    BY <1>1, <1>2, <2>3 DEF ThreadOK, OfBranch
  <2> QED
    BY <1>1, <1>2, <2>1, <2>2, <2>3
<1> QED
  BY <1>1, <1>3, <1>4, ReturnStep

(* The scheduler enters the first ready thread. *)
EntersFirst ==
    LET t == tb.ready_head
    IN  /\ exec = <<>> /\ exec' = <<t>> /\ tb' = BeginRun(tb) /\ t # NULL
        /\ UNCHANGED <<created, program, frames>>
        /\ loc' = [loc EXCEPT ![t] = IF tb.leaf[t] > 0
                                    THEN AtCase(frames[t][Len(frames[t])].idx) ELSE loc[t]]

(* It has a frame and nothing it waits for. *)
LEMMA ResumeStep ==
    ASSUME NEW H, Now(H), EntersFirst
    PROVE  /\ After(H)
           /\ tb.ready_head \in created \ H
           /\ OnStack(exec) = {} /\ OnStack(exec') = {tb.ready_head}
           /\ tb'.events = tb.events
<1> DEFINE t == tb.ready_head
           F == frames[t]
           m == AtCase(F[Len(F)].idx)
           k == Cardinality(Kids(frames, t))
<1>1. /\ exec = <<>> /\ exec' = <<t>> /\ tb' = BeginRun(tb) /\ tb.ready_head # NULL
      /\ UNCHANGED <<created, program, frames>>
      /\ loc' = [loc EXCEPT ![t] = IF tb.leaf[t] > 0 THEN m ELSE loc[t]]
  BY DEF EntersFirst
<1>2. /\ Consistent(tb, created, H, OnStack(exec)) /\ Tasks(program, frames, loc, OnStack(exec), H)
      /\ FramesCounted(tb, created, frames) /\ Nested(Initial(tb), exec)
      /\ frames \in [Thread -> Seq(FrameSet(program))] /\ loc \in [Thread -> Place]
      /\ tb \in TimebaseState /\ program \in Bodies
  BY DEF Now, ScenarioState, Consistent, Tasks
<1>3. OnStack(exec) = {}
  BY <1>1 DEF OnStack
<1>4. t \in created /\ t \in Thread /\ Consistent(tb', created, H, {t})
  <2>1. Consistent(tb, created, H, {})
    BY <1>2, <1>3
  <2>2. t \in created \ {} /\ Consistent(BeginRun(tb), created, H, {} \cup {t})
    BY <1>1, <2>1, Enters
  <2>3. {} \cup {t} = {t} /\ created \subseteq Thread
    BY <1>2 DEF Consistent
  <2> HIDE DEF t
  <2> QED
    BY <1>1, <2>2, <2>3
<1>5. Same(tb, tb')
  BY <1>1, <1>2, SameRun
<1>6. t \notin H /\ tb.leaf[t] > 0
  BY <1>4, <1>5, NotWaiting DEF Same
<1>7. Stage({}, H, t) = "free"
  BY <1>6 DEF Stage
<1>8. /\ F \in Seq(FrameSet(program)) /\ F # <<>>
      /\ ThreadOK(program, F, loc[t], k, "free")
  <2>1. F \in Seq(FrameSet(program)) /\ Len(F) > 0
    BY <1>2, <1>4, <1>6 DEF FramesCounted
  <2>2. F # <<>>
    BY <2>1
  <2> QED
    BY <1>2, <1>3, <1>4, <1>7, <2>1, <2>2 DEF Tasks, KidsOK
<1>9. k = 0 /\ ThreadOK(program, F, m, k, "runs")
  BY <1>2, <1>8, Resumes
<1>10. m \in Place
  BY <1>2, <1>8, LeafFacts, AtCaseType
<1> HIDE DEF t
<1>11. loc' \in [Thread -> Place] /\ loc'[t] = m /\ ButFor(t, loc, loc')
  <2>1. loc' = [loc EXCEPT ![t] = m]
    BY <1>1, <1>6
  <2> HIDE DEF m
  <2> QED
    BY <1>2, <1>4, <1>10, <2>1, Assigned DEF ButFor
<1>12. Stage({t}, H, t) = "runs" /\ SameStages(t, {}, H, {t}, H)
  BY DEF Stage, SameStages
<1>13. Becomes(program, t, Cardinality(Kids(frames, t)), frames[t], loc[t], Stage({}, H, t),
               frames[t], loc'[t], Stage({t}, H, t))
  BY <1>9, <1>11, <1>12 DEF Becomes
<1>14. ButFor(t, frames, frames)
  BY DEF ButFor
<1>15. Tasks(program, frames, loc, {}, H)
  BY <1>2, <1>3
<1> HIDE DEF m, k, F
<1>16. Tasks(program, frames, loc', {t}, H)
  BY <1>2, <1>4, <1>11, <1>12, <1>13, <1>14, <1>15, OneThread
<1>17. Initial(tb') = {}
  BY <1>2, <1>3, <1>5 DEF Nested, Same
<1>18. /\ exec' \in Seq(Thread) /\ Distinct(exec') /\ OnStack(exec') = {t}
       /\ Nested(Initial(tb'), exec')
  <2>1. <<t>> \in Seq(Thread) /\ Len(<<t>>) = 1 /\ <<t>>[1] = t
    BY <1>4
  <2> QED
    BY <1>1, <1>17, <2>1 DEF Distinct, OnStack, Nested, t
<1>19. FramesCounted(tb', created, frames)
  BY <1>2, <1>5 DEF FramesCounted, Same
<1>20. After(H)
  BY <1>1, <1>4, <1>16, <1>17, <1>18, <1>19 DEF After, ScenarioState
<1>21. tb'.events = tb.events
  BY <1>1, <1>2, RunEvents
<1> QED
  BY <1>3, <1>4, <1>6, <1>18, <1>20, <1>21 DEF t

(* The scheduler's loops and the clock leave the tasks alone. *)
LEMMA SameClock ==
    ASSUME NEW s \in TimebaseState
    PROVE  /\ \A x \in Nat : Same(s, [s EXCEPT !.current_time = x])
           /\ \A x \in BOOLEAN : Same(s, [s EXCEPT !.running = x])
<1>1. ASSUME NEW x \in Nat PROVE Same(s, [s EXCEPT !.current_time = x])
  <2> DEFINE r == [s EXCEPT !.current_time = x]
  <2>1. r \in TimebaseState
    BY FieldTypes
  <2>2. r.flags = s.flags /\ r.leaf = s.leaf
    BY DEF TimebaseState
  <2> HIDE DEF r
  <2>3. Same(s, r)
    BY <2>1, <2>2 DEF Same, Initial
  <2> QED
    BY <2>3 DEF r
<1>2. ASSUME NEW x \in BOOLEAN PROVE Same(s, [s EXCEPT !.running = x])
  <2> DEFINE r == [s EXCEPT !.running = x]
  <2>1. r \in TimebaseState
    BY FieldTypes
  <2>2. r.flags = s.flags /\ r.leaf = s.leaf
    BY DEF TimebaseState
  <2> HIDE DEF r
  <2>3. Same(s, r)
    BY <2>1, <2>2 DEF Same, Initial
  <2> QED
    BY <2>3 DEF r
<1> QED
  BY <1>1, <1>2

(* The steps of run_until between two tasks keep the invariant. *)
LEMMA PassStep ==
    ASSUME NEW H, Now(H), end_ticks \in Nat,
           (\E end \in EndTimes : RunUntil(end)) \/
              UntilAdvance \/ AdvanceMove \/ AdvanceReturn \/ UntilReturn,
           UNCHANGED scenario
    PROVE  After(H)
<1> DEFINE X == OnStack(exec)
           quiet(r) == Same(tb, r) /\ Consistent(r, created, H, X)
<1>1. /\ ScenarioState(program, tb, created, exec, frames, loc, H)
      /\ Consistent(tb, created, H, X) /\ tb \in TimebaseState
      /\ Tasks(program, frames, loc, X, H) /\ FramesCounted(tb, created, frames)
      /\ \A u \in Initial(tb) : Len(frames[u]) = 1 => loc[u].case = 1
  BY DEF Now, ScenarioState, Consistent
<1>2. UNCHANGED <<program, frames, loc, created, exec>>
  BY DEF scenario, RunUntil, UntilAdvance, AdvanceMove, AdvanceReturn, UntilReturn
<1>3. quiet(tb)
  BY <1>1 DEF Same
<1>4. quiet([tb EXCEPT !.running = TRUE])
  BY <1>1, SetsClock, SameClock
<1>5. tb.events # {} => quiet(BeginAdvance(tb))
  <2>1. ASSUME tb.events # {} PROVE FirstEvent(tb).wake_time \in Nat
    BY <1>1, <2>1, FirstEventIn, Fields DEF Event
  <2> QED
    BY <1>1, <2>1, SetsClock, SameClock DEF BeginAdvance
<1>6. quiet(FinishRunUntil(tb, end_ticks))
  <2> DEFINE T == IF tb.current_time < end_ticks THEN end_ticks ELSE tb.current_time
             m == [tb EXCEPT !.current_time = T]
  <2>1. T \in Nat
    BY <1>1, Fields
  <2> HIDE DEF T
  <2>2. Consistent(m, created, H, X) /\ Same(tb, m) /\ m \in TimebaseState
    BY <1>1, <2>1, SetsClock, SameClock DEF Same
  <2>3. FinishRunUntil(tb, end_ticks) = [m EXCEPT !.running = FALSE]
    BY DEF FinishRunUntil, T
  <2> HIDE DEF m
  <2>4. Consistent([m EXCEPT !.running = FALSE], created, H, X)
        /\ Same(m, [m EXCEPT !.running = FALSE])
    BY <2>2, SetsClock, SameClock
  <2> QED
    BY <2>2, <2>3, <2>4 DEF Same
<1>7. tb.events # {} => quiet(MoveDue(tb))
  BY <1>1, Moves, SameMove
<1>8. quiet(tb')
  <2>1. ASSUME NEW end \in EndTimes, RunUntil(end) PROVE quiet(tb')
    BY <1>4, <2>1 DEF RunUntil
  <2>2. ASSUME UntilAdvance PROVE quiet(tb')
    BY <1>5, <2>2 DEF UntilAdvance, EventAtOrBefore
  <2>3. ASSUME AdvanceMove PROVE quiet(tb')
    BY <1>7, <2>3 DEF AdvanceMove, IsDue
  <2>4. ASSUME AdvanceReturn PROVE quiet(tb')
    <3> HIDE DEF quiet
    <3> QED
      BY <1>3, <1>6, <2>4 DEF AdvanceReturn
  <2>5. ASSUME UntilReturn PROVE quiet(tb')
    BY <1>6, <2>5 DEF UntilReturn
  <2> HIDE DEF quiet
  <2> QED
    BY <2>1, <2>2, <2>3, <2>4, <2>5
<1>9. FramesCounted(tb', created, frames)
  BY <1>1, <1>8 DEF FramesCounted, Same
<1>10. Initial(tb') = Initial(tb) /\ Consistent(tb', created, H, X)
  BY <1>8 DEF Same
<1>11. ScenarioState(program, tb', created, exec, frames, loc, H)
  BY <1>1, <1>9, <1>10, Kept DEF X
<1> QED
  BY <1>2, <1>11 DEF After


-----------------------------------------------------------------------------
(* The invariant. *)

ScenarioInv ==
    /\ program \in Programs
    /\ todo \in Seq(DOMAIN program)
    /\ end_ticks \in Nat
    /\ BranchesSuspend(program) => \E H : Now(H)

(* Before main starts the first exported action there is nothing. *)
LEMMA ScenarioInit_Inv == ScenarioInit => ScenarioInv
<1> SUFFICES ASSUME ScenarioInit PROVE ScenarioInv
  OBVIOUS
<1>1. /\ program \in Programs /\ todo = Roots /\ Init
      /\ frames = [t \in Thread |-> <<>>] /\ loc = [t \in Thread |-> AtCase(1)]
  BY DEF ScenarioInit
<1>2. todo \in Seq(DOMAIN program) /\ end_ticks \in Nat
  BY <1>1, RootsAssumption DEF Init
<1>3. ASSUME BranchesSuspend(program) PROVE Now({})
  <2>1. program \in Bodies
    BY <1>1, <1>3 DEF Bodies
  <2>2. exec = <<>> /\ created = {} /\ parked = {} /\ tb = zsp_timebase_init
    BY <1>1 DEF Init
  <2>3. Consistent(tb, created, {}, OnStack(exec)) /\ exec \in Seq(Thread) /\ Distinct(exec)
    BY <1>1, <2>2, InitInv DEF Inv
  <2>4. OnStack(exec) = {} /\ \A t : Stage({}, {}, t) = "free"
    BY <2>2 DEF OnStack, Stage
  <2>5. frames \in [Thread -> Seq(FrameSet(program))] /\ \A t \in Thread : frames[t] = <<>>
    BY <1>1
  <2>6. loc \in [Thread -> Place]
    BY <1>1, AtCaseType
  <2>7. ASSUME NEW t \in Thread PROVE Kids(frames, t) = {}
    BY <2>5 DEF Kids, BranchOf
  <2>8. ASSUME NEW t \in Thread PROVE KidsOK(program, frames, loc[t], "free", t)
    <3>1. Cardinality(Kids(frames, t)) = 0 /\ frames[t] = <<>> /\ Len(<<>>) = 0
      BY <2>5, <2>7, FS_EmptySet
    <3>2. ThreadOK(program, <<>>, loc[t], 0, "free")
      BY <3>1 DEF ThreadOK
    <3> QED
      BY <2>7, <3>1, <3>2 DEF KidsOK
  <2>9. Ranked(frames)
    <3> DEFINE r == [t \in Thread |-> 0]
    <3>1. r \in [Thread -> Nat]
      OBVIOUS
    <3> HIDE DEF r
    <3> QED
      BY <2>7, <3>1 DEF Ranked
  <2>10. Tasks(program, frames, loc, {}, {})
    BY <2>4, <2>5, <2>6, <2>8, <2>9 DEF Tasks
  <2>11. \A t \in Thread : tb.leaf[t] = 0 /\ tb.flags[t] = {}
    BY <2>2 DEF zsp_timebase_init
  <2>12. Initial(tb) = {} /\ FramesCounted(tb, created, frames)
    BY <2>5, <2>11 DEF Initial, FramesCounted
  <2>13. Nested(Initial(tb), exec)
    BY <2>2, <2>12 DEF Nested
  <2> QED
    BY <2>1, <2>3, <2>4, <2>10, <2>12, <2>13 DEF Now, ScenarioState
<1> QED
  BY <1>1, <1>2, <1>3 DEF ScenarioInv

(* No step is possible that the invariant excludes: a thread on the C      *)
(* stack has a frame, and no branch outlives the frame of its parent.      *)
LEMMA Excluded ==
    ASSUME NEW H, Now(H), NEW t \in Thread
    PROVE  ~TaskEndsDangling(t) /\ ~ResumeNothing(t)
<1>1. ASSUME TaskEndsDangling(t) PROVE FALSE
  <2>1. Leaf(t) \in FrameSet(program) /\ program \in Bodies
    BY <1>1, ReachesFacts DEF TaskEndsDangling, Now
  <2>2. Leaf(t).par \in Refs
    BY <2>1, FrameFields
  <2> QED
    BY <1>1, <2>2 DEF TaskEndsDangling, Refs, NoRef, ParBlock
<1>2. ASSUME ResumeNothing(t) PROVE FALSE
  BY <1>2, ExecutingFacts DEF ResumeNothing
<1> QED
  BY <1>1, <1>2

(* One step of a task. *)
LEMMA TaskStep ==
    ASSUME NEW H, Now(H), NEW t \in Thread, ScenarioTask(t)
    PROVE  \E K : After(K) /\ LeavesOthers(t, H, K)
<1>1. CASE TaskWaits(t)
  BY <1>1, WaitsStep
<1>2. CASE TaskInvokes(t)
  BY <1>2, InvokesStep
<1>3. CASE TaskSpawnsBranch(t)
  BY <1>3, SpawnsStep
<1>4. CASE TaskAwaitsBranches(t)
  BY <1>4, AwaitsStep
<1>5. CASE TaskEnds(t)
  BY <1>5, EndsStep
<1>6. CASE TaskFails(t)
  BY <1>6, FailsStep
<1> QED
  BY <1>1, <1>2, <1>3, <1>4, <1>5, <1>6, Excluded DEF ScenarioTask

(* Every step keeps the invariant: one case for each action. *)
LEMMA ScenarioNext_Inv == ScenarioInv /\ [ScenarioNext]_svars => ScenarioInv'
<1> SUFFICES ASSUME ScenarioInv, [ScenarioNext]_svars PROVE ScenarioInv'
  OBVIOUS
<1>0. /\ program \in Programs /\ todo \in Seq(DOMAIN program) /\ end_ticks \in Nat
      /\ BranchesSuspend(program) => \E H : Now(H)
  BY DEF ScenarioInv
<1>1. ASSUME UNCHANGED program, todo' \in Seq(DOMAIN program), end_ticks' \in Nat,
             BranchesSuspend(program) => \E K : After(K)
      PROVE  ScenarioInv'
  BY <1>0, <1>1 DEF ScenarioInv, Now, After, Bodies
<1>2. ASSUME StartRoot PROVE ScenarioInv'
  <2>1. /\ Enter(NewThread, Head(todo), NoRef, frames) /\ todo' = Tail(todo)
        /\ loc' = [loc EXCEPT ![NewThread] = AtCase(1)] /\ todo # <<>>
        /\ UNCHANGED <<program, end_ticks>>
    BY <1>2 DEF StartRoot
  <2>2. Head(todo) \in DOMAIN program /\ Tail(todo) \in Seq(DOMAIN program)
    BY <1>0, <2>1
  <2>3. \A H : Now(H) => After(H)
    BY <2>1, <2>2, RootStep
  <2> QED
    BY <1>0, <1>1, <2>1, <2>2, <2>3
<1>3. ASSUME StartRun PROVE ScenarioInv'
  <2>1. PICK end \in EndTimes : RunUntil(end)
    BY <1>3 DEF StartRun
  <2>2. UNCHANGED <<program, todo>> /\ UNCHANGED scenario /\ end_ticks' \in Nat
    BY <1>3, <2>1, TimeAssumption DEF StartRun, scenario, RunUntil
  <2>3. \A H : Now(H) => After(H)
    BY <1>0, <2>1, <2>2, PassStep
  <2> QED
    BY <1>0, <1>1, <2>2, <2>3
<1>4. ASSUME ResumeThread PROVE ScenarioInv'
  <2>1. EntersFirst /\ UNCHANGED <<program, todo, end_ticks>>
    BY <1>4 DEF EntersFirst, ResumeThread, Run, Idle, Leaf, Depth
  <2>2. \A H : Now(H) => After(H)
    BY <2>1, ResumeStep
  <2> QED
    BY <1>0, <1>1, <2>1, <2>2
<1>5. ASSUME PassTime PROVE ScenarioInv'
  <2>1. /\ UntilAdvance \/ AdvanceMove \/ AdvanceReturn \/ UntilReturn
        /\ UNCHANGED scenario
    BY <1>5 DEF PassTime
  <2>2. UNCHANGED <<program, todo, end_ticks>>
    BY <2>1 DEF scenario, UntilAdvance, AdvanceMove, AdvanceReturn, UntilReturn
  <2>3. \A H : Now(H) => After(H)
    BY <1>0, <2>1, PassStep
  <2> QED
    BY <1>0, <1>1, <2>2, <2>3
<1>6. ASSUME NEW t \in Thread, ScenarioTask(t) PROVE ScenarioInv'
  <2>1. UNCHANGED <<program, todo, end_ticks>>
    BY <1>6 DEF ScenarioTask, TaskWaits, TaskInvokes, TaskSpawnsBranch,
          TaskAwaitsBranches, TaskEnds, TaskEndsDangling, TaskFails, ResumeNothing,
          ReturnFrom, Leave, scenario
  <2>2. \A H : Now(H) => \E K : After(K)
    BY <1>6, TaskStep
  <2> QED
    BY <1>0, <1>1, <2>1, <2>2
<1>7. ASSUME UNCHANGED svars PROVE ScenarioInv'
  <2>1. UNCHANGED <<program, todo, end_ticks, tb, created, exec, frames, loc>>
    BY <1>7 DEF svars, vars, scenario
  <2>2. \A H : Now(H) => After(H)
    BY <2>1 DEF Now, After
  <2> QED
    BY <1>0, <1>1, <2>1, <2>2
<1> QED
  BY <1>2, <1>3, <1>4, <1>5, <1>6, <1>7 DEF ScenarioNext, MainReturns

(* Frames, places, the live branches of each block and the scheduler's     *)
(* state of each thread agree as long as the program runs.                 *)
THEOREM ScenarioInvHolds == ScenarioSpec => []ScenarioInv
BY ScenarioInit_Inv, ScenarioNext_Inv, PTL DEF ScenarioSpec


-----------------------------------------------------------------------------
(* What the invariant says of the properties. *)

(* A branch that has not ended belongs to the block its parent is at.      *)
LEMMA LiveBranchIs ==
    ASSUME NEW H, Now(H), NEW t \in Thread, NEW d, NEW i,
           NEW u \in LiveBranches(t, d, i)
    PROVE  /\ u \in Kids(frames, t)
           /\ d = Len(frames[t])
           /\ i = IF Stage(OnStack(exec), H, t) = "runs" THEN loc[t].case
                  ELSE frames[t][Len(frames[t])].idx - 1
<1>1. Tasks(program, frames, loc, OnStack(exec), H) /\ created \subseteq Thread
  BY DEF Now, ScenarioState, Consistent
<1>2. u \in Thread /\ BranchOf(frames[u]) = ParBlock(t, d, i)
  BY <1>1 DEF LiveBranches, BranchOf
<1>3. u \in Kids(frames, t)
  BY <1>2 DEF Kids, ParBlock, NoRef
<1>4. BranchOf(frames[u]) = BlockOf(t, frames[t], loc[t], Stage(OnStack(exec), H, t))
  BY <1>1, <1>3 DEF Tasks, KidsOK
<1> QED
  BY <1>2, <1>3, <1>4 DEF BlockOf, ParBlock

(* What a frame has counted before case c, all branches of which ended.    *)
LEMMA AllCounted ==
    ASSUME NEW p, NEW f, NEW c \in Nat, NEW k \in Nat, Counted(p, f, c, k),
           NEW i \in DOMAIN p[f.action], i \in Nat, KindAt(p, f, i) = "par",
           i < c - 1 \/ (i < c /\ k = 0),
           f.done[i] \in Nat
    PROVE  f.done[i] = Total(p, f, i)
<1>1. /\ (i < c - 1 /\ KindAt(p, f, i) = "par") => f.done[i] = Total(p, f, i)
      /\ (i = c - 1 /\ KindAt(p, f, i) = "par") => f.done[i] + k = Total(p, f, i)
  BY DEF Counted
<1>2. i < c - 1 \/ (i = c - 1 /\ k = 0)
  OBVIOUS
<1> QED
  BY <1>1, <1>2

(* The case a frame executes or is to resume at. *)
CaseOf(t, d) ==
    IF Executing(t) /\ d = Depth(t) THEN loc[t].case ELSE frames[t][d].idx

(* Blocks before the place of a frame have counted each branch. *)
LEMMA NowJoined == ASSUME NEW H, Now(H) PROVE BranchesAreJoined
<1> SUFFICES ASSUME NEW t \in created, NEW d \in DOMAIN frames[t],
                    NEW i \in 1 .. CaseOf(t, d) - 1, JoinsAll(frames[t][d], i),
                    i < CaseOf(t, d) - 1 \/ Executing(t) \/ d < Depth(t)
             PROVE  /\ LiveBranches(t, d, i) = {}
                    /\ frames[t][d].done[i] = Len(program[frames[t][d].action][i].branches)
  BY DEF BranchesAreJoined, CaseOf
<1> DEFINE at == CaseOf(t, d)
           F == frames[t]
           f == F[d]
           X == OnStack(exec)
           st == Stage(X, H, t)
           k == Cardinality(Kids(frames, t))
           l == loc[t]
<1>1. /\ program \in Bodies /\ Consistent(tb, created, H, X)
      /\ Tasks(program, frames, loc, X, H) /\ exec \in Seq(Thread) /\ t \in Thread
  BY DEF Now, ScenarioState, Consistent
<1>2. /\ F \in Seq(FrameSet(program)) /\ d \in 1 .. Len(F) /\ Len(F) \in Nat
      /\ F # <<>> /\ f \in FrameSet(program) /\ l \in Place
  <2>1. F \in Seq(FrameSet(program)) /\ l \in Place
    BY <1>1 DEF Tasks
  <2> QED
    BY <2>1
<1>3. ThreadOK(program, F, l, k, st) /\ k \in Nat
  BY <1>1, KidsFinite DEF Tasks, KidsOK
<1>4. /\ FrameOK(program, f) /\ f.idx \in Nat /\ f.action \in DOMAIN program
      /\ d < Len(F) => Calling(program, f)
      /\ LeafOK(program, F[Len(F)], l, k, st) /\ Depth(t) = Len(F)
  BY <1>1, <1>2, <1>3, FrameFields DEF ThreadOK, Depth
<1>5. Executing(t) => st = "runs"
  <2>1. Executing(t) => t \in X
    BY ExecutingFacts, <1>1
  <2> QED
    BY <2>1 DEF Stage
<1>6. l.case \in Nat
  BY <1>2 DEF Place
<1>7. /\ i \in DOMAIN program[f.action] /\ i \in Nat /\ KindAt(program, f, i) = "par"
      /\ f.done[i] \in Nat
  <2>1. i \in DOMAIN program[f.action] /\ program[f.action][i].kind = "par"
    BY DEF JoinsAll
  <2>2. i \in Nat
    BY <1>1, <1>4, <2>1, BodyFacts
  <2> QED
    BY <1>4, <2>1, <2>2 DEF KindAt, FrameOK
<1>8. at \in Nat /\ i < at
  <2>1. at \in Nat
    BY <1>4, <1>6 DEF CaseOf
  <2> QED
    BY <1>7, <2>1
<1>9. st = "runs" => Running(program, F[Len(F)], l, k)
  BY <1>4 DEF LeafOK
<1>a. i < at - 1 \/ Executing(t) \/ d < Depth(t)
  OBVIOUS
<1> HIDE DEF F, X, st, k, l, at
<1>10. CASE d < Len(F)
  <2>1. LiveBranches(t, d, i) = {}
    BY <1>1, <1>2, <1>10, LiveBranchIs DEF F
  <2>2. Counted(program, f, f.idx, 0) /\ at = f.idx
    BY <1>2, <1>4, <1>10 DEF Calling, F, at, CaseOf
  <2>3. f.done[i] = Total(program, f, i)
    BY <1>4, <1>7, <1>8, <2>2, AllCounted
  <2> QED
    BY <2>1, <2>3 DEF Total, F
<1>11. CASE d = Len(F) /\ Executing(t)
  <2>1. at = l.case /\ st = "runs"
    BY <1>4, <1>5, <1>11 DEF l, at, CaseOf
  <2>2. Counted(program, f, l.case, 0)
    BY <1>9, <1>11, <2>1 DEF Running
  <2>3. LiveBranches(t, d, i) = {}
    BY <1>1, <1>6, <1>7, <1>8, <2>1, LiveBranchIs DEF st, X, l
  <2>4. f.done[i] = Total(program, f, i)
    BY <1>6, <1>7, <1>8, <2>1, <2>2, AllCounted
  <2> QED
    BY <2>3, <2>4 DEF Total, F
<1>12. CASE d = Len(F) /\ ~Executing(t)
  <2>1. at = f.idx /\ i < f.idx - 1
    BY <1>4, <1>12, <1>a DEF F, at, CaseOf
  <2>2. CASE st = "runs"
    <3>1. Running(program, f, l, k)
      BY <1>9, <1>12, <2>2
    <3>2. l.case \in f.idx .. Len(program[f.action]) + 1 /\ Counted(program, f, l.case, 0)
      BY <3>1 DEF Running
    <3>3. i < l.case /\ i < l.case - 1
      BY <1>4, <1>6, <1>7, <2>1, <3>2
    <3>4. LiveBranches(t, d, i) = {}
      BY <1>1, <1>7, <3>3, <2>2, LiveBranchIs DEF st, X, l
    <3>5. f.done[i] = Total(program, f, i)
      BY <1>6, <1>7, <3>2, <3>3, AllCounted
    <3> QED
      BY <3>4, <3>5 DEF Total, F
  <2>3. CASE st # "runs"
    <3>1. PICK n \in Nat : Counted(program, f, f.idx, n)
      <4>1. st \in {"held", "free"}
        BY <2>3 DEF st, Stage
      <4>2. 0 \in Nat
        OBVIOUS
      <4> QED
        BY <1>3, <1>4, <1>12, <4>1, <4>2 DEF LeafOK, Holding
    <3>2. LiveBranches(t, d, i) = {}
      <4>1. i # f.idx - 1
        BY <1>4, <1>7, <2>1
      <4> QED
        BY <1>1, <1>12, <2>3, <4>1, LiveBranchIs DEF st, X, F
    <3>3. f.done[i] = Total(program, f, i)
      BY <1>4, <1>7, <2>1, <3>1, AllCounted
    <3> QED
      BY <3>2, <3>3 DEF Total, F
  <2> QED
    BY <2>2, <2>3
<1>13. d < Len(F) \/ d = Len(F)
  BY <1>2
<1> QED
  BY <1>10, <1>11, <1>12, <1>13

(* A thread that waits for a branch or for an import. *)
LEMMA HeldThread ==
    ASSUME NEW H, Now(H), NEW t \in H, t \notin OnStack(exec)
    PROVE  /\ t \in created /\ Depth(t) > 0
           /\ \/ StoppedAtImport(t)
              \/ /\ JoinsAll(Leaf(t), Leaf(t).idx - 1)
                 /\ \E u \in Kids(frames, t) :
                       u \in LiveBranches(t, Depth(t), Leaf(t).idx - 1)
<1> DEFINE F == frames[t]
           f == F[Len(F)]
           k == Cardinality(Kids(frames, t))
           X == OnStack(exec)
<1>1. /\ program \in Bodies /\ Consistent(tb, created, H, X) /\ t \in Thread
      /\ Tasks(program, frames, loc, X, H) /\ FramesCounted(tb, created, frames)
  BY DEF Now, ScenarioState, Consistent
<1>2. Waits(tb, created, t)
  BY <1>1 DEF Consistent, Accounted
<1>3. t \in created /\ Len(F) > 0 /\ F \in Seq(FrameSet(program))
  BY <1>1, <1>2 DEF Waits, FramesCounted, Tasks
<1>4. F # <<>>
  BY <1>3
<1>5. Stage(X, H, t) = "held"
  BY DEF Stage
<1>6. /\ ThreadOK(program, F, loc[t], k, "held")
      /\ \A u \in Kids(frames, t) : BranchOf(frames[u]) = BlockOf(t, F, loc[t], "held")
  BY <1>1, <1>5 DEF Tasks, KidsOK
<1>7. Holding(program, f, k) /\ f.action \in DOMAIN program
  BY <1>1, <1>3, <1>4, <1>6, LeafFacts DEF LeafOK
<1>8. Leaf(t) = f /\ Body(t) = program[f.action] /\ Depth(t) = Len(F)
  BY DEF Leaf, Body, Depth
<1>9. f.idx > 1 /\ f.idx - 1 \in DOMAIN program[f.action]
  BY <1>7 DEF Holding, KindAt
<1>10. CASE program[f.action][f.idx - 1].kind = "import"
  BY <1>3, <1>8, <1>9, <1>10 DEF StoppedAtImport
<1>11. CASE program[f.action][f.idx - 1].kind = "par"
  <2>1. k # 0
    BY <1>7, <1>9, <1>11 DEF Holding, KindAt
  <2>2. PICK u \in Kids(frames, t) : TRUE
    BY <2>1, KidsFinite
  <2>3. BranchOf(frames[u]) = ParBlock(t, Len(F), f.idx - 1)
    BY <1>6, <2>2 DEF BlockOf
  <2>4. u \in Thread /\ frames[u] # <<>> /\ frames[u][1].par = ParBlock(t, Len(F), f.idx - 1)
    BY <2>2, <2>3 DEF Kids, BranchOf, ParBlock, NoRef
  <2>5. u \in created
    BY <1>1, <2>4 DEF FramesCounted
  <2>6. JoinsAll(f, f.idx - 1)
    BY <1>1, <1>7, <1>9, <1>11, BodyFacts DEF JoinsAll
  <2> QED
    BY <1>3, <1>8, <2>2, <2>4, <2>5, <2>6 DEF LiveBranches
<1>12. program[f.action][f.idx - 1].kind \in {"par", "import"}
  BY <1>7, <1>9 DEF Holding, KindAt
<1> QED
  BY <1>10, <1>11, <1>12

(* The threads that wait are those with a live branch or an import. *)
LEMMA NowWaked == ASSUME NEW H, Now(H) PROVE BlockedHasWaker
<1> SUFFICES ASSUME NEW t \in created, tb.leaf[t] > 0, "BLOCKED" \in tb.flags[t],
                    ~InExec(t), EventsOf(t) = {}
             PROVE  \/ StoppedAtImport(t)
                    \/ /\ JoinsAll(Leaf(t), Leaf(t).idx - 1)
                       /\ LiveBranches(t, Depth(t), Leaf(t).idx - 1) # {}
  BY DEF BlockedHasWaker
<1>1. Consistent(tb, created, H, OnStack(exec)) /\ t \in Thread
  BY DEF Now, ScenarioState, Consistent
<1>2. Waits(tb, created, t) /\ HeldBy(tb, t) = {}
  BY DEF Waits, HeldBy, EventsOf
<1>3. t \in H
  BY <1>1, <1>2 DEF Consistent, Accounted
<1>4. t \notin OnStack(exec)
  BY DEF InExec, OnStack
<1> QED
  BY <1>3, <1>4, HeldThread

(* A thread on the C stack has no delay pending. *)
LEMMA NowUncut == ASSUME NEW H, Now(H) PROVE WaitsAreNotCutShort
<1> SUFFICES ASSUME NEW t \in created, InExec(t) PROVE EventsOf(t) = {}
  BY DEF WaitsAreNotCutShort
<1>1. t \in OnStack(exec) /\ Consistent(tb, created, H, OnStack(exec))
  BY DEF InExec, OnStack, Now, ScenarioState
<1> QED
  BY <1>1, NotWaiting DEF HeldBy, EventsOf

(* A parent is past a parallel block only when each of its branches has    *)
(* ended and was counted once, for every program whose branches suspend.   *)
THEOREM BranchesAreJoinedHolds ==
    ScenarioSpec => [](BranchesSuspend(program) => BranchesAreJoined)
<1>1. ScenarioInv => (BranchesSuspend(program) => BranchesAreJoined)
  BY NowJoined DEF ScenarioInv
<1> QED
  BY <1>1, ScenarioInvHolds, PTL

(* Each blocked thread has a delay in the heap, an import under way or a   *)
(* branch that has not ended.                                              *)
THEOREM BlockedHasWakerHolds ==
    ScenarioSpec => [](BranchesSuspend(program) => BlockedHasWaker)
<1>1. ScenarioInv => (BranchesSuspend(program) => BlockedHasWaker)
  BY NowWaked DEF ScenarioInv
<1> QED
  BY <1>1, ScenarioInvHolds, PTL

(* No task runs while a delay it asked for is pending. *)
THEOREM WaitsAreNotCutShortHolds ==
    ScenarioSpec => [](BranchesSuspend(program) => WaitsAreNotCutShort)
<1>1. ScenarioInv => (BranchesSuspend(program) => WaitsAreNotCutShort)
  BY NowUncut DEF ScenarioInv
<1> QED
  BY <1>1, ScenarioInvHolds, PTL


(* Nothing is ready, no delay is pending and no import is under way. *)
NothingPending ==
    /\ ~zsp_timebase_has_pending(tb)
    /\ \A t \in created : tb.leaf[t] > 0 => ~StoppedAtImport(t)

(* An empty ready list: no thread can run. *)
LEMMA NoneReady ==
    ASSUME NEW s, NEW C, NEW P, NEW X, Consistent(s, C, P, X), s.ready_head = NULL
    PROVE  RunnableIn(s, C, X) = {}
<1>1. PICK n \in Nat : \E q \in [1 .. n -> Thread] :
         IsReadyList(s, n, q) /\ RunnableIn(s, C, X) = {q[i] : i \in 1 .. n}
  BY DEF Consistent, HasList
<1>2. PICK q \in [1 .. n -> Thread] :
         IsReadyList(s, n, q) /\ RunnableIn(s, C, X) = {q[i] : i \in 1 .. n}
  BY <1>1
<1>3. n = 0
  <2>1. ASSUME n # 0 PROVE FALSE
    <3>1. 1 \in 1 .. n
      BY <2>1
    <3>2. q[1] \in Thread /\ s.ready_head = q[1]
      BY <1>2, <2>1, <3>1 DEF IsReadyList
    <3> QED
      BY <3>2, ThreadAssumption
  <2> QED
    BY <2>1
<1> QED
  BY <1>2, <1>3

(* There is no deadlock: a thread that waits, waits for a branch, which    *)
(* does not end and so waits for a branch itself, and so on; but branches  *)
(* are created after their parents.                                        *)
LEMMA NoneIsStuck ==
    ASSUME NEW H, Now(H), Idle, NothingPending
    PROVE  \A t \in created : tb.leaf[t] = 0
<1> DEFINE L == {t \in created : tb.leaf[t] > 0}
<1>1. /\ Consistent(tb, created, H, {}) /\ created \subseteq Thread /\ tb \in TimebaseState
      /\ OnStack(exec) = {} /\ Tasks(program, frames, loc, {}, H)
      /\ FramesCounted(tb, created, frames)
  <2>1. OnStack(exec) = {}
    BY DEF Idle, OnStack
  <2> QED
    BY <2>1 DEF Now, ScenarioState, Consistent
<1>2. tb.ready_head = NULL /\ tb.events = {}
  BY DEF NothingPending, zsp_timebase_has_pending
<1>3. RunnableIn(tb, created, {}) = {}
  BY <1>1, <1>2, NoneReady
<1>4. ASSUME NEW t \in L PROVE \E u \in Kids(frames, t) : u \in L
  <2>1. Waits(tb, created, t)
    BY <1>3 DEF RunnableIn, Waits
  <2>2. HeldBy(tb, t) = {}
    BY <1>2 DEF HeldBy
  <2>3. t \in H /\ t \notin OnStack(exec)
    BY <1>1, <2>1, <2>2 DEF Consistent, Accounted
  <2>4. PICK u \in Kids(frames, t) : u \in LiveBranches(t, Depth(t), Leaf(t).idx - 1)
    BY <2>3, HeldThread DEF NothingPending
  <2>5. u \in created /\ frames[u] # <<>> /\ u \in Thread
    BY <1>1, <2>4 DEF LiveBranches
  <2>6. frames[u] \in Seq(FrameSet(program)) /\ tb.leaf[u] = Len(frames[u])
    BY <1>1, <2>5 DEF Tasks, FramesCounted
  <2>7. tb.leaf[u] > 0
    BY <2>5, <2>6
  <2> QED
    BY <2>4, <2>5, <2>7
<1>5. PICK r \in [Thread -> Nat] :
         \A t \in Thread : \A u \in Kids(frames, t) : r[u] < r[t]
  BY <1>1 DEF Tasks, Ranked
<1>6. L = {}
  <2>1. ASSUME L # {} PROVE FALSE
    <3> DEFINE R == {r[t] : t \in L}
    <3>1. R \in SUBSET Nat /\ R # {}
      BY <1>1, <1>5, <2>1
    <3>2. PICK m \in R : \A j \in R : m <= j
      BY <3>1, NatMinimum
    <3>3. PICK t \in L : m = r[t]
      BY <3>2
    <3>4. PICK u \in Kids(frames, t) : u \in L
      BY <1>4
    <3>5. r[u] < r[t] /\ r[t] <= r[u] /\ r[u] \in Nat /\ r[t] \in Nat
      BY <1>1, <1>5, <3>2, <3>3, <3>4
    <3> QED
      BY <3>5
  <2> QED
    BY <2>1
<1>7. ASSUME NEW t \in created PROVE tb.leaf[t] = 0
  <2>1. tb.leaf[t] \in Nat /\ ~(tb.leaf[t] > 0)
    BY <1>1, <1>6, Fields
  <2> QED
    BY <2>1
<1> QED
  BY <1>7

(* The tasks never wait for each other: whenever the C stack is empty,     *)
(* nothing is ready, no delay is pending and no import is under way, every *)
(* task has ended.                                                         *)
THEOREM QuiescenceIsCompletion ==
    ScenarioSpec => [](BranchesSuspend(program) /\ Idle /\ NothingPending =>
                          \A t \in created : tb.leaf[t] = 0)
<1>1. ScenarioInv => (BranchesSuspend(program) /\ Idle /\ NothingPending =>
                          \A t \in created : tb.leaf[t] = 0)
  BY NoneIsStuck DEF ScenarioInv
<1> QED
  BY <1>1, ScenarioInvHolds, PTL

(* So the scenario is complete when main returns, unless the end time of   *)
(* zsp_timebase_run_until came before a delay's end.                       *)
THEOREM ScenarioCompletesHolds ==
    ScenarioSpec => [](BranchesSuspend(program) /\ NothingPending => ScenarioCompletes)
<1>1. ScenarioInv => (BranchesSuspend(program) /\ NothingPending => ScenarioCompletes)
  BY NoneIsStuck DEF ScenarioInv, ScenarioCompletes, Finished
<1> QED
  BY <1>1, ScenarioInvHolds, PTL
===============================================================================
