--------------------------- MODULE ZspBridge_proofs ---------------------------
(***************************************************************************)
(* The scenario under the testbench, for the programs of                   *)
(* ZspScenario_proofs, any number of threads and of request slots: what a  *)
(* request slot, the FIFO, the forked processes and the frame of a         *)
(* coroutine that waits for an import say of it agrees.  The invariant     *)
(* relates them to the set H of threads that wait, of the invariant of     *)
(* ZspScenario_proofs, whose lemmas on the tasks' steps hold here too.     *)
(***************************************************************************)
EXTENDS ZspBridge, ZspScenario_proofs

(* The coroutines that are stopped behind an import they posted, and what  *)
(* each of them asked for.                                                 *)
Importers == {t \in created \ OnStack(exec) : AtImport(program, frames[t])}

AskedBy(p, F) == p[F[Len(F)].action][F[Len(F)].idx - 1].fn

Posted == {pending[i] : i \in 1 .. Len(pending)}

Fns(p) ==
    {NULL} \cup UNION {{p[a][i].fn : i \in {j \in DOMAIN p[a] : IsImport(p[a][j])}} :
                          a \in DOMAIN p}

Request(p) == [in_use : BOOLEAN, fn : Fns(p), thread : Thread \cup {NULL}]

BridgeTypes ==
    /\ req \in [Slots -> Request(program)]
    /\ pending \in Seq(Slots)
    /\ \A i, j \in 1 .. Len(pending) : pending[i] = pending[j] => i = j
    /\ DOMAIN tasks \subseteq Slots
    /\ rid \in [Thread -> Slots \cup {NULL}]

(* A slot is in use when an importer holds it, which it names.             *)
SlotsHeld ==
    /\ \A s \in Slots : req[s].in_use <=> \E t \in Importers : rid[t] = s
    /\ \A t \in Importers : /\ rid[t] \in Slots
                            /\ HeldBy(tb, t) = {}
                            /\ req[rid[t]].thread = t
                            /\ req[rid[t]].fn = AskedBy(program, frames[t])

(* The request of an importer that still waits is in the FIFO or has been  *)
(* given to a process; that of one that was woken is in neither.           *)
RequestsPlaced(H) ==
    /\ \A s \in Slots :
          s \in Posted \cup DOMAIN tasks <=> \E t \in Importers \cap H : rid[t] = s
    /\ Posted \cap DOMAIN tasks = {}
    /\ \A s \in DOMAIN tasks : tasks[s] \in {NULL, req[s].fn}

Requests(H) == BridgeTypes /\ SlotsHeld /\ RequestsPlaced(H)

Resting == host = "idle" => Idle /\ \A t \in created : tb.leaf[t] = 0

BridgeInv ==
    /\ ScenarioInv
    /\ host = "main" => ~UsesImports(program)
    /\ BranchesSuspend(program) => (\E H : Now(H) /\ Requests(H)) /\ Resting

-----------------------------------------------------------------------------
(* Steps that leave the requests alone. *)

(* The same coroutines stand at the same imports, and those that wait are  *)
(* the same.                                                               *)
SameImporters(H, K) ==
    /\ Importers' = Importers
    /\ \A t \in Importers : /\ HeldBy(tb', t) = HeldBy(tb, t)
                            /\ AskedBy(program', frames'[t]) = AskedBy(program, frames[t])
                            /\ t \in K <=> t \in H

(* Then the requests still match. *)
LEMMA RequestsKept ==
    ASSUME NEW H, Requests(H), NEW K, SameImporters(H, K), program' = program,
           UNCHANGED <<req, pending, rid, tasks>>
    PROVE  Requests(K)'
<1>1. BridgeTypes'
  BY DEF Requests, BridgeTypes, Request, Fns, Slots
<1>2. SlotsHeld'
  BY DEF Requests, SlotsHeld, SameImporters, Slots
<1>3. RequestsPlaced(K)'
  BY DEF Requests, RequestsPlaced, SameImporters, Slots, Posted
<1> QED
  BY <1>1, <1>2, <1>3 DEF Requests

(* A step of a task does that, *)
LEMMA TaskKeepsImporters ==
    ASSUME NEW H, NEW K, NEW t, LeavesOthers(t, H, K), program' = program,
           t \notin Importers
    PROVE  SameImporters(H, K)
<1>1. ASSUME NEW u \in Importers
      PROVE  /\ u \in Importers'
             /\ HeldBy(tb', u) = HeldBy(tb, u)
             /\ AskedBy(program', frames'[u]) = AskedBy(program, frames[u])
             /\ u \in K <=> u \in H
  <2>1. /\ u \in created \ {t} /\ u \notin OnStack(exec)
        /\ AtImport(program, frames[u])
    BY DEF Importers
  <2>2. /\ SameLeaf(frames[u], frames'[u]) /\ HeldBy(tb', u) = HeldBy(tb, u)
        /\ u \in K <=> u \in H
    BY <2>1 DEF LeavesOthers
  <2>3. AtImport(program', frames'[u])
    BY <2>1, <2>2, SameImport
  <2>4. u \in created' /\ u \notin OnStack(exec')
    BY <2>1 DEF LeavesOthers
  <2>5. AskedBy(program', frames'[u]) = AskedBy(program, frames[u])
    BY <2>1, <2>2 DEF SameLeaf, AskedBy, AtImport
  <2> QED
    BY <2>2, <2>3, <2>4, <2>5 DEF Importers
<1>2. ASSUME NEW u \in Importers' PROVE u \in Importers
  <2>1. u \in created' /\ u \notin OnStack(exec') /\ AtImport(program, frames'[u])
    BY DEF Importers
  <2>2. u \in created /\ u # t /\ u \notin OnStack(exec)
    BY <2>1 DEF LeavesOthers
  <2>3. SameLeaf(frames[u], frames'[u])
    BY <2>2 DEF LeavesOthers
  <2> QED
    BY <2>1, <2>2, <2>3, SameImport DEF Importers
<1> QED
  BY <1>1, <1>2 DEF SameImporters

(* A program without imports has no importers. *)
LEMMA NoneAtImport ==
    ASSUME NEW p \in Bodies, NEW F \in Seq(FrameSet(p)), ~UsesImports(p)
    PROVE  ~AtImport(p, F)
<1> SUFFICES ASSUME AtImport(p, F) PROVE FALSE
  OBVIOUS
<1> DEFINE f == F[Len(F)]
<1>1. F # <<>> /\ KindAt(p, f, f.idx - 1) = "import"
  BY DEF AtImport
<1>2. f \in FrameSet(p)
  BY <1>1
<1>3. f.action \in DOMAIN p
  BY <1>2, FrameFields
<1>4. f.idx - 1 \in DOMAIN p[f.action] /\ p[f.action][f.idx - 1].kind = "import"
  BY <1>1 DEF KindAt
<1> QED
  BY <1>3, <1>4 DEF UsesImports, IsImport

-----------------------------------------------------------------------------
(* The coroutine's side. *)

(* What the requests say of one importer. *)
LEMMA ImporterFacts ==
    ASSUME NEW H, Now(H), Requests(H), NEW t \in Importers
    PROVE  /\ t \in created /\ t \in Thread /\ t \notin OnStack(exec)
           /\ rid[t] \in Slots /\ req[rid[t]].in_use /\ req[rid[t]].thread = t
           /\ HeldBy(tb, t) = {}
           /\ frames[t] # <<>> /\ tb.leaf[t] > 0
           /\ \A u \in Importers : rid[u] = rid[t] => u = t
           /\ t \in H <=> "BLOCKED" \in tb.flags[t]
           /\ t \in H <=> rid[t] \in Posted \cup DOMAIN tasks
<1>1. /\ t \in created /\ t \in Thread /\ t \notin OnStack(exec)
      /\ frames[t] # <<>> /\ frames[t] \in Seq(FrameSet(program))
      /\ tb.leaf[t] = Len(frames[t]) /\ Accounted(tb, created, H, t)
  BY DEF Importers, AtImport, Now, ScenarioState, Consistent, Tasks, FramesCounted
<1>2. Len(frames[t]) \in Nat /\ Len(frames[t]) > 0
  BY <1>1
<1>3. /\ rid[t] \in Slots /\ req[rid[t]].in_use /\ req[rid[t]].thread = t
      /\ HeldBy(tb, t) = {}
  BY DEF Requests, SlotsHeld
<1>4. \A u \in Importers : rid[u] = rid[t] => u = t
  BY DEF Requests, SlotsHeld
<1>5. t \in H <=> "BLOCKED" \in tb.flags[t]
  BY <1>1, <1>2, <1>3 DEF Accounted, Waits
<1>6. t \in H <=> rid[t] \in Posted \cup DOMAIN tasks
  BY <1>3, <1>4 DEF Requests, RequestsPlaced
<1> QED
  BY <1>1, <1>2, <1>3, <1>4, <1>5, <1>6

(* The first free slot. *)
LEMMA FreeSlotFacts ==
    ASSUME FreeSlots # {}
    PROVE  FreeSlot \in Slots /\ ~req[FreeSlot].in_use
<1>1. FreeSlots \in SUBSET Nat
  BY MaxReqAssumption DEF FreeSlots, Slots
<1>2. PICK m \in FreeSlots : \A k \in FreeSlots : m <= k
  BY <1>1, NatMinimum
<1>3. FreeSlot \in FreeSlots
  BY <1>2 DEF FreeSlot
<1> QED
  BY <1>3 DEF FreeSlots

(* A request that is posted: its coroutine waits with a slot of its own.   *)
LEMMA PostStep ==
    ASSUME NEW H, Now(H), Requests(H), NEW t \in Thread, zsp_scenario_post_import(t)
    PROVE  After(H \cup {t}) /\ Requests(H \cup {t})'
<1> DEFINE F == frames[t]
           l == loc[t]
           X == OnStack(exec)
           k == Cardinality(Kids(frames, t))
           G == ResumedNext(F, l)
           b == block_thread(tb, t)
           s == FreeSlot
<1>1. /\ Executing(t) /\ Leaf(t) = F[Len(F)] /\ Leaf(t).action \in DOMAIN program
      /\ KindAt(program, Leaf(t), l.case) = "import" /\ Suspend(t).kind = "import"
      /\ l.case \in DOMAIN program[Leaf(t).action]
      /\ Suspend(t) = program[Leaf(t).action][l.case]
  BY ReachesFacts DEF zsp_scenario_post_import, Reaches
<1>2. /\ exec # <<>> /\ t = exec[Len(exec)]
      /\ t \in X /\ t \in created /\ tb \in TimebaseState /\ tb.leaf[t] = Len(F)
      /\ F \in Seq(FrameSet(program)) /\ F # <<>> /\ l \in Place
      /\ ThreadOK(program, F, l, k, "runs")
      /\ frames \in [Thread -> Seq(FrameSet(program))]
      /\ Consistent(tb, created, H, X) /\ program \in Bodies
      /\ exec \in Seq(Thread) /\ Distinct(exec)
  BY <1>1, ExecutingFacts DEF KidsOK, Now, ScenarioState
<1>3. /\ tb' = FinishActivation(b, t) /\ exec' = SubSeq(exec, 1, Len(exec) - 1)
      /\ UNCHANGED <<loc, created, program>>
      /\ frames' = [frames EXCEPT ![t] = G]
      /\ FreeSlots # {} /\ req' = PostedIn(s, Suspend(t).fn, t)
      /\ pending' = Append(pending, s) /\ rid' = [rid EXCEPT ![t] = s]
      /\ UNCHANGED tasks
  BY DEF zsp_scenario_post_import, Leave, ResumeAtNext, ResumedNext, Depth
<1>4. Consistent(tb', created, H \cup {t}, X \ {t})
  BY <1>2, <1>3, Blocks
<1>5. Same(tb, b) /\ b.events = tb.events
  BY <1>2, SameBlock DEF block_thread, TimebaseState
<1> HIDE DEF b
<1>6. Initial(tb') = Initial(tb) \ {t} /\ tb'.leaf = tb.leaf /\ tb'.events = tb.events
  BY <1>3, <1>5, FinishInitial, FinishEvents DEF Same
<1>7. k \in Nat
  BY KidsFinite
<1>8. /\ k = 0 /\ G \in Seq(FrameSet(program)) /\ Len(G) = Len(F)
      /\ BranchOf(G) = BranchOf(F) /\ ThreadOK(program, G, l, k, "held")
  BY <1>1, <1>2, <1>7, ImportSuspends
<1>9. Becomes(program, t, k, F, l, "runs", G, l, IF t \in H \cup {t} THEN "held" ELSE "free")
  BY <1>8 DEF Becomes
<1>10. tb'.leaf[t] = Len(G) /\ ButFor(t, tb.leaf, tb'.leaf)
  BY <1>2, <1>6, <1>8 DEF ButFor
<1>11. AtImport(program, G) /\ AskedBy(program, G) = Suspend(t).fn
  <2>1. /\ KindAt(program, F[Len(F)], l.case) = "import"
        /\ KindAt(program, F[Len(F)], l.case) # "final"
        /\ KindAt(program, F[Len(F)], l.case) # "par"
    BY <1>1
  <2>2. /\ G # <<>> /\ G[Len(G)].action = F[Len(F)].action
        /\ G[Len(G)].idx > 1 /\ G[Len(G)].idx - 1 = l.case
    <3> HIDE DEF F, l, k
    <3> QED
      BY <1>2, <1>7, <1>8, <2>1, ResumesNext
  <2> HIDE DEF G
  <2>3. KindAt(program, G[Len(G)], G[Len(G)].idx - 1) = "import"
    <3>1. KindAt(program, G[Len(G)], l.case) = KindAt(program, F[Len(F)], l.case)
      BY <2>2 DEF KindAt
    <3> QED
      BY <2>1, <2>2, <3>1
  <2>4. AskedBy(program, G) = Suspend(t).fn
    BY <1>1, <2>2 DEF AskedBy
  <2> QED
    BY <2>2, <2>3, <2>4 DEF AtImport
<1> HIDE DEF G, k
<1>12. After(H \cup {t})
  BY <1>1, <1>2, <1>3, <1>4, <1>6, <1>8, <1>9, <1>10, TaskLeaves DEF k, X
<1>13. Importers' = Importers \cup {t} /\ t \notin Importers
  <2>1. OnStack(exec') = OnStack(exec) \ {t}
    BY <1>2, <1>3, StackPop
  <2>2. frames'[t] = G /\ \A u \in Thread \ {t} : frames'[u] = frames[u]
    BY <1>2, <1>3
  <2>3. created \subseteq Thread
    BY <1>2 DEF Consistent
  <2> QED
    BY <1>2, <1>3, <1>11, <2>1, <2>2, <2>3 DEF Importers
<1>14. s \in Slots /\ ~req[s].in_use
  BY <1>3, FreeSlotFacts
<1> HIDE DEF s
<1>15. BridgeTypes'
  <2>1. Suspend(t).fn \in Fns(program)
    BY <1>1 DEF Fns, IsImport
  <2>2. req' \in [Slots -> Request(program)] /\ rid' \in [Thread -> Slots \cup {NULL}]
    BY <1>3, <1>14, <2>1 DEF Requests, BridgeTypes, PostedIn, Request
  <2>3. s \notin Posted
    BY <1>14 DEF Requests, RequestsPlaced, SlotsHeld
  <2>4. /\ pending' \in Seq(Slots)
        /\ \A i, j \in 1 .. Len(pending') : pending'[i] = pending'[j] => i = j
    <3>1. pending \in Seq(Slots) /\ \A i, j \in 1 .. Len(pending) : pending[i] = pending[j] => i = j
      BY DEF Requests, BridgeTypes
    <3>2. \A i \in 1 .. Len(pending) : pending[i] # s
      BY <2>3 DEF Posted
    <3> QED
      BY <1>3, <1>14, <3>1, <3>2
  <2> QED
    BY <1>3, <2>2, <2>4 DEF Requests, BridgeTypes, Slots, Request, Fns
<1>16. /\ req'[s] = [in_use |-> TRUE, fn |-> Suspend(t).fn, thread |-> t] /\ rid'[t] = s
       /\ frames'[t] = G
       /\ \A q \in Slots \ {s} : req'[q] = req[q]
       /\ \A u \in Importers : rid'[u] = rid[u] /\ frames'[u] = frames[u]
  <2>1. req \in [Slots -> Request(program)] /\ rid \in [Thread -> Slots \cup {NULL}]
    BY DEF Requests, BridgeTypes
  <2>2. \A u \in Importers : u \in Thread \ {t}
    BY <1>2, <1>13 DEF Importers, Consistent
  <2> QED
    BY <1>2, <1>3, <1>14, <2>1, <2>2 DEF PostedIn
<1>17. \A u \in Importers : rid[u] \in Slots /\ rid[u] # s
  BY <1>14 DEF Requests, SlotsHeld
<1>18. HeldBy(tb', t) = {} /\ \A u : HeldBy(tb', u) = HeldBy(tb, u)
  BY <1>2, <1>6, NotWaiting DEF HeldBy
<1>19. SlotsHeld'
  <2>1. ASSUME NEW q \in Slots
        PROVE  req'[q].in_use <=> \E u \in Importers' : rid'[u] = q
    BY <1>13, <1>16, <1>17 DEF Requests, SlotsHeld
  <2>2. ASSUME NEW u \in Importers'
        PROVE  /\ rid'[u] \in Slots /\ HeldBy(tb', u) = {}
               /\ req'[rid'[u]].thread = u
               /\ req'[rid'[u]].fn = AskedBy(program', frames'[u])
    BY <1>3, <1>11, <1>13, <1>14, <1>16, <1>17, <1>18 DEF Requests, SlotsHeld
  <2> QED
    BY <2>1, <2>2 DEF SlotsHeld, Slots
<1>20. RequestsPlaced(H \cup {t})'
  <2>1. Posted' = Posted \cup {s}
    <3>1. pending \in Seq(Slots)
      BY DEF Requests, BridgeTypes
    <3> QED
      BY <1>3, <1>14, <3>1 DEF Posted
  <2>2. s \notin Posted \cup DOMAIN tasks
    BY <1>14 DEF Requests, RequestsPlaced, SlotsHeld
  <2>3. ASSUME NEW q \in Slots
        PROVE  q \in Posted' \cup DOMAIN tasks <=>
                  \E u \in Importers' \cap (H \cup {t}) : rid'[u] = q
    BY <1>13, <1>16, <2>1 DEF Requests, RequestsPlaced
  <2>4. \A q \in DOMAIN tasks : tasks[q] \in {NULL, req'[q].fn}
    BY <1>16, <2>2 DEF Requests, RequestsPlaced, BridgeTypes
  <2>5. Posted' \cap DOMAIN tasks = {}
    BY <2>1, <2>2 DEF Requests, RequestsPlaced
  <2> QED
    BY <1>3, <2>3, <2>4, <2>5 DEF RequestsPlaced, Slots
<1> QED
  BY <1>12, <1>15, <1>19, <1>20 DEF Requests

(* A coroutine that stands behind its import. *)
LEMMA StandsAtImport ==
    ASSUME NEW H, Now(H), NEW t \in Thread
    PROVE  AfterImport(t) <=> AtImport(program, frames[t])
<1> DEFINE F == frames[t]
           f == F[Len(F)]
<1>1. Leaf(t) = f /\ Body(t) = program[f.action]
  BY DEF Leaf, Depth, Body
<1>2. CASE F = <<>>
  BY <1>2 DEF AfterImport, AtImport
<1>3. CASE F # <<>>
  <2>1. /\ F \in Seq(FrameSet(program)) /\ program \in Bodies
        /\ \E l, k, st : ThreadOK(program, F, l, k, st)
    BY DEF Now, ScenarioState, Tasks, KidsOK
  <2>2. /\ f.action \in DOMAIN program /\ f.idx \in Nat /\ FrameOK(program, f)
        /\ Len(program[f.action]) \in Nat
        /\ DOMAIN program[f.action] = 1 .. Len(program[f.action])
    <3> HIDE DEF F
    <3> QED
      BY <1>3, <2>1, LeafFacts
  <2>3. f.idx > 1 => f.idx - 1 \in DOMAIN program[f.action]
    BY <2>2 DEF FrameOK
  <2> QED
    BY <1>1, <1>3, <2>3 DEF AfterImport, StoppedAtImport, AtImport, KindAt
<1> QED
  BY <1>2, <1>3

(* A coroutine that was woken from an import gives its slot back. *)
LEMMA RunStep ==
    ASSUME NEW H, Now(H), Requests(H), BridgeRun
    PROVE  After(H) /\ Requests(H)'
<1> DEFINE t == tb.ready_head
<1>1. /\ EntersFirst /\ req' = zsp_scenario_import_done(t)
      /\ UNCHANGED <<created, program, frames, pending, rid, tasks>>
  BY DEF BridgeRun, EntersFirst, Idle, Leaf, Depth
<1>2. /\ After(H) /\ t \in created \ H
      /\ OnStack(exec) = {} /\ OnStack(exec') = {t} /\ tb'.events = tb.events
  BY <1>1, ResumeStep
<1>3. t \in Thread
  BY <1>2 DEF Now, ScenarioState, Consistent
<1> HIDE DEF t
<1>4. Importers' = Importers \ {t} /\ (AfterImport(t) <=> t \in Importers)
  BY <1>1, <1>2, <1>3, StandsAtImport DEF Importers
<1>5. \A u \in Importers : rid[u] \in Slots /\ req[rid[u]].in_use
  BY ImporterFacts
<1>6. req \in [Slots -> Request(program)]
  BY DEF Requests, BridgeTypes
<1>7. /\ req' \in [Slots -> Request(program)]
      /\ \A q \in Slots :
            /\ req'[q].fn = req[q].fn /\ req'[q].thread = req[q].thread
            /\ req'[q].in_use <=> req[q].in_use /\ ~(t \in Importers /\ q = rid[t])
  <2>1. CASE t \in Importers
    <3>1. req' = [req EXCEPT ![rid[t]].in_use = FALSE] /\ rid[t] \in Slots
      BY <1>1, <1>4, <1>5, <2>1 DEF zsp_scenario_import_done
    <3> QED
      BY <1>6, <2>1, <3>1 DEF Request
  <2>2. CASE t \notin Importers
    BY <1>1, <1>4, <1>6, <2>2 DEF zsp_scenario_import_done
  <2> QED
    BY <2>1, <2>2
<1>8. BridgeTypes'
  BY <1>1, <1>7 DEF Requests, BridgeTypes, Slots, Request, Fns
<1>9. SlotsHeld'
  <2>1. ASSUME NEW q \in Slots
        PROVE  req'[q].in_use <=> \E u \in Importers' : rid'[u] = q
    <3>1. req[q].in_use <=> \E u \in Importers : rid[u] = q
      BY DEF Requests, SlotsHeld
    <3>2. ASSUME NEW u \in Importers, t \in Importers, rid[u] = rid[t] PROVE u = t
      BY <3>2, ImporterFacts
    <3> QED
      BY <1>1, <1>4, <1>7, <3>1, <3>2
  <2>2. ASSUME NEW u \in Importers'
        PROVE  /\ rid'[u] \in Slots /\ HeldBy(tb', u) = {}
               /\ req'[rid'[u]].thread = u
               /\ req'[rid'[u]].fn = AskedBy(program', frames'[u])
    <3>1. /\ u \in Importers /\ rid[u] \in Slots /\ HeldBy(tb, u) = {}
          /\ req[rid[u]].thread = u
          /\ req[rid[u]].fn = AskedBy(program, frames[u])
      BY <1>4 DEF Requests, SlotsHeld
    <3>2. HeldBy(tb', u) = HeldBy(tb, u)
      BY <1>2 DEF HeldBy
    <3> QED
      BY <1>1, <1>7, <3>1, <3>2
  <2> QED
    BY <2>1, <2>2 DEF SlotsHeld, Slots
<1>10. RequestsPlaced(H)'
  <2>1. Importers' \cap H = Importers \cap H
    BY <1>2, <1>4
  <2>2. Posted' = Posted
    BY <1>1 DEF Posted
  <2>3. \A q \in DOMAIN tasks : q \in Slots
    BY DEF Requests, BridgeTypes
  <2> QED
    BY <1>1, <1>7, <2>1, <2>2, <2>3 DEF Requests, RequestsPlaced, Slots
<1> QED
  BY <1>2, <1>8, <1>9, <1>10 DEF Requests

-----------------------------------------------------------------------------
(* The host's side. *)

(* run_action takes a request off the FIFO and forks a process for it. *)
LEMMA NextRequestStep ==
    ASSUME NEW H, Now(H), Requests(H), zsp_bridge_next_request
    PROVE  After(H) /\ Requests(H)'
<1> DEFINE s == Head(pending)
<1>1. /\ pending # <<>> /\ pending' = Tail(pending)
      /\ tasks' = [q \in DOMAIN tasks \cup {s} |-> IF q \in DOMAIN tasks THEN tasks[q] ELSE NULL]
      /\ UNCHANGED <<svars, req, rid>>
  BY DEF zsp_bridge_next_request
<1>2. UNCHANGED <<program, tb, created, exec, frames, loc>>
  BY <1>1 DEF svars, vars, scenario
<1>3. After(H)
  BY <1>2 DEF Now, After
<1>4. /\ pending \in Seq(Slots) /\ DOMAIN tasks \subseteq Slots
      /\ \A i, j \in 1 .. Len(pending) : pending[i] = pending[j] => i = j
      /\ Posted \cap DOMAIN tasks = {}
  BY DEF Requests, BridgeTypes, RequestsPlaced
<1>5. /\ s \in Slots /\ s \in Posted /\ pending' \in Seq(Slots)
      /\ \A i, j \in 1 .. Len(pending') : pending'[i] = pending'[j] => i = j
      /\ Posted' = Posted \ {s}
  <2>1. /\ s = pending[1] /\ Len(pending) \in Nat /\ Len(pending) > 0 /\ s \in Slots
        /\ pending' \in Seq(Slots) /\ Len(pending') = Len(pending) - 1
        /\ \A i \in 1 .. Len(pending') : pending'[i] = pending[i + 1]
    BY <1>1, <1>4
  <2>2. 1 \in 1 .. Len(pending)
    BY <2>1
  <2>3. \A i \in 1 .. Len(pending') : i + 1 \in 1 .. Len(pending) /\ i + 1 # 1
    BY <2>1
  <2>4. \A i \in 1 .. Len(pending) : i # 1 => i - 1 \in 1 .. Len(pending') /\ (i - 1) + 1 = i
    BY <2>1
  <2> HIDE DEF s
  <2>5. \A i, j \in 1 .. Len(pending') : pending'[i] = pending'[j] => i = j
    BY <1>4, <2>1, <2>3
  <2>6. Posted' = Posted \ {s}
    <3>1. ASSUME NEW q \in Posted' PROVE q \in Posted \ {s}
      <4>1. PICK i \in 1 .. Len(pending') : q = pending'[i]
        BY DEF Posted
      <4> QED
        BY <1>4, <2>1, <2>2, <2>3, <4>1 DEF Posted
    <3>2. ASSUME NEW q \in Posted \ {s} PROVE q \in Posted'
      <4>1. PICK i \in 1 .. Len(pending) : q = pending[i]
        BY DEF Posted
      <4>2. i # 1
        BY <2>1, <4>1
      <4>3. i - 1 \in 1 .. Len(pending') /\ pending'[i - 1] = q
        BY <2>1, <2>4, <4>1, <4>2
      <4> QED
        BY <4>3 DEF Posted
    <3> QED
      BY <3>1, <3>2
  <2>7. s \in Posted
    BY <2>1, <2>2 DEF Posted
  <2> QED
    BY <2>1, <2>5, <2>6, <2>7
<1> HIDE DEF s
<1>6. /\ DOMAIN tasks' = DOMAIN tasks \cup {s} /\ s \notin DOMAIN tasks /\ tasks'[s] = NULL
      /\ \A q \in DOMAIN tasks : tasks'[q] = tasks[q]
  BY <1>1, <1>4, <1>5
<1>7. BridgeTypes'
  BY <1>1, <1>2, <1>5, <1>6 DEF Requests, BridgeTypes, Slots, Request, Fns
<1>8. Importers' = Importers
  BY <1>2 DEF Importers
<1>9. SlotsHeld'
  BY <1>1, <1>2, <1>8 DEF Requests, SlotsHeld, Slots
<1>10. RequestsPlaced(H)'
  <2>1. Posted' \cup DOMAIN tasks' = Posted \cup DOMAIN tasks /\ Posted' \cap DOMAIN tasks' = {}
    BY <1>4, <1>5, <1>6
  <2>2. \A q \in DOMAIN tasks' : tasks'[q] \in {NULL, req'[q].fn}
    BY <1>1, <1>6 DEF Requests, RequestsPlaced
  <2> QED
    BY <1>1, <1>8, <2>1, <2>2 DEF Requests, RequestsPlaced, Slots
<1> QED
  BY <1>3, <1>7, <1>9, <1>10 DEF Requests

(* The forked process calls the import its request names. *)
LEMMA DispatchStep ==
    ASSUME NEW H, Now(H), Requests(H), NEW s \in Slots, dispatch_task(s)
    PROVE  After(H) /\ Requests(H)'
<1>1. /\ s \in DOMAIN tasks /\ tasks' = [tasks EXCEPT ![s] = req[s].fn]
      /\ UNCHANGED <<svars, req, pending, rid>>
  BY DEF dispatch_task
<1>2. UNCHANGED <<program, tb, created, exec, frames, loc>>
  BY <1>1 DEF svars, vars, scenario
<1>3. After(H)
  BY <1>2 DEF Now, After
<1>4. /\ DOMAIN tasks' = DOMAIN tasks /\ tasks'[s] = req[s].fn
      /\ \A q \in DOMAIN tasks \ {s} : tasks'[q] = tasks[q]
  BY <1>1
<1>5. Importers' = Importers /\ Posted' = Posted
  BY <1>1, <1>2 DEF Importers, Posted
<1>6. BridgeTypes'
  BY <1>1, <1>2, <1>4 DEF Requests, BridgeTypes, Slots, Request, Fns
<1>7. SlotsHeld'
  BY <1>1, <1>2, <1>5 DEF Requests, SlotsHeld, Slots
<1>8. RequestsPlaced(H)'
  <2>1. \A q \in DOMAIN tasks' : tasks'[q] \in {NULL, req'[q].fn}
    BY <1>1, <1>4 DEF Requests, RequestsPlaced
  <2> QED
    BY <1>1, <1>4, <1>5, <2>1 DEF Requests, RequestsPlaced, Slots
<1> QED
  BY <1>3, <1>6, <1>7, <1>8 DEF Requests

(* The thread a process is to wake waits for its import. *)
LEMMA ProcessFacts ==
    ASSUME NEW H, Now(H), Requests(H), NEW s \in DOMAIN tasks
    PROVE  /\ s \in Slots /\ s \notin Posted
           /\ req[s].thread \in Importers \cap H /\ rid[req[s].thread] = s
<1>1. s \in Slots /\ s \notin Posted
  BY DEF Requests, BridgeTypes, RequestsPlaced
<1>2. PICK t \in Importers \cap H : rid[t] = s
  BY <1>1 DEF Requests, RequestsPlaced
<1> QED
  BY <1>1, <1>2 DEF Requests, SlotsHeld

(* An importer that waits is made ready: it has no live branch. *)
LEMMA ImporterWakes ==
    ASSUME NEW H, Now(H), NEW t \in Importers \cap H,
           tb' = zsp_timebase_schedule(tb, t),
           UNCHANGED <<program, created, exec, frames, loc>>
    PROVE  After(H \ {t}) /\ tb'.events = tb.events
<1> DEFINE F == frames[t]
           X == OnStack(exec)
           k == Cardinality(Kids(frames, t))
           K == H \ {t}
<1>1. /\ Consistent(tb, created, H, X) /\ Tasks(program, frames, loc, X, H)
      /\ tb \in TimebaseState /\ program \in Bodies /\ FramesCounted(tb, created, frames)
      /\ \A u \in Initial(tb) : Len(frames[u]) = 1 => loc[u].case = 1
      /\ ScenarioState(program, tb, created, exec, frames, loc, H)
      /\ frames \in [Thread -> Seq(FrameSet(program))] /\ loc \in [Thread -> Place]
  BY DEF Now, ScenarioState, Consistent, Tasks
<1>2. /\ t \in Thread /\ t \notin X /\ AtImport(program, F) /\ F # <<>>
      /\ F \in Seq(FrameSet(program))
  BY <1>1 DEF Importers, AtImport, Consistent
<1>3. Stage(X, H, t) = "held" /\ Stage(X, K, t) = "free" /\ SameStages(t, X, H, X, K)
  BY <1>2 DEF Stage, SameStages
<1>4. ThreadOK(program, F, loc[t], k, "held")
  BY <1>1, <1>2, <1>3 DEF Tasks, KidsOK
<1>5. k = 0 /\ Counted(program, F[Len(F)], F[Len(F)].idx, 0)
  <2>1. LeafOK(program, F[Len(F)], loc[t], k, "held")
    BY <1>1, <1>2, <1>4, LeafFacts
  <2>2. Holding(program, F[Len(F)], k) /\ k \in Nat
    BY <2>1, KidsFinite DEF LeafOK
  <2> HIDE DEF k, F
  <2> QED
    BY <1>2, <2>2 DEF Holding, AtImport
<1>6. ThreadOK(program, F, loc[t], k, "free")
  <2>1. LeafOK(program, F[Len(F)], loc[t], k, "free")
    BY <1>5 DEF LeafOK
  <2> HIDE DEF k, F
  <2> QED
    BY <1>2, <1>4, <2>1 DEF ThreadOK
<1>7. Becomes(program, t, k, frames[t], loc[t], Stage(X, H, t),
              frames[t], loc[t], Stage(X, K, t))
  BY <1>3, <1>5, <1>6 DEF Becomes
<1>8. ButFor(t, frames, frames) /\ ButFor(t, loc, loc)
  BY DEF ButFor
<1>9. Consistent(tb', created, K, X)
  BY <1>1, Wakes
<1>10. Same(tb, tb') /\ tb'.events = tb.events
  BY <1>1, <1>2, SameSchedule, ScheduleEvents
<1> HIDE DEF X, K, k, F
<1>11. Tasks(program, frames, loc, X, K)
  BY <1>1, <1>2, <1>3, <1>7, <1>8, OneThread DEF k
<1>12. FramesCounted(tb', created, frames) /\ Initial(tb') = Initial(tb)
  BY <1>1, <1>10 DEF FramesCounted, Same
<1>13. ScenarioState(program, tb', created, exec, frames, loc, K)
  BY <1>1, <1>9, <1>11, <1>12, Kept DEF X
<1> QED
  BY <1>10, <1>13 DEF After, K

(* The import returns: its request is answered, and it wakes the coroutine *)
(* that asked for it.                                                      *)
LEMMA ReturnsStep ==
    ASSUME NEW H, Now(H), Requests(H), NEW s \in Slots, ImportReturns(s)
    PROVE  \E K : After(K) /\ Requests(K)'
<1> DEFINE t == req[s].thread
<1>1. /\ s \in DOMAIN tasks /\ tb' = zsp_timebase_schedule(tb, t)
      /\ tasks' = [q \in DOMAIN tasks \ {s} |-> tasks[q]]
      /\ UNCHANGED <<program, created, exec, frames, loc, req, pending, rid>>
  BY DEF ImportReturns, zsp_bridge_complete, scenario
<1>2. s \notin Posted /\ t \in Importers \cap H /\ rid[t] = s
  BY <1>1, ProcessFacts
<1> HIDE DEF t
<1>0. PICK K : K = H \ {t}
  OBVIOUS
<1>3. After(K) /\ tb'.events = tb.events
  BY <1>0, <1>1, <1>2, ImporterWakes
<1>4. /\ DOMAIN tasks' = DOMAIN tasks \ {s}
      /\ \A q \in DOMAIN tasks' : tasks'[q] = tasks[q]
  BY <1>1
<1>5. Importers' = Importers /\ Posted' = Posted
  BY <1>1 DEF Importers, Posted
<1>6. BridgeTypes'
  BY <1>1, <1>4 DEF Requests, BridgeTypes, Slots, Request, Fns
<1>7. SlotsHeld'
  BY <1>1, <1>3, <1>5 DEF Requests, SlotsHeld, Slots, HeldBy
<1>8. RequestsPlaced(K)'
  <2>1. ASSUME NEW q \in Slots
        PROVE  q \in Posted \cup DOMAIN tasks' <=> \E u \in Importers \cap K : rid[u] = q
    <3>1. q \in Posted \cup DOMAIN tasks <=> \E u \in Importers \cap H : rid[u] = q
      BY DEF Requests, RequestsPlaced
    <3>2. \A u \in Importers : rid[u] = s => u = t
      BY <1>2, ImporterFacts
    <3> QED
      BY <1>0, <1>2, <1>4, <3>1, <3>2
  <2>2. Posted \cap DOMAIN tasks' = {}
    BY <1>4 DEF Requests, RequestsPlaced
  <2>3. \A q \in DOMAIN tasks' : tasks'[q] \in {NULL, req'[q].fn}
    BY <1>1, <1>4 DEF Requests, RequestsPlaced
  <2> QED
    BY <1>1, <1>5, <2>1, <2>2, <2>3 DEF RequestsPlaced, Slots
<1> QED
  BY <1>3, <1>6, <1>7, <1>8 DEF Requests

(* Where nothing is ready, pending or with a process every coroutine has   *)
(* ended: one that had not would wait for an import, or for a branch.      *)
LEMMA DoneMeansEnded ==
    ASSUME NEW H, Now(H), Requests(H), Idle, ActionDone
    PROVE  \A t \in created : tb.leaf[t] = 0
<1>1. /\ tb.ready_head = NULL /\ ~zsp_timebase_has_pending(tb)
      /\ pending = <<>> /\ DOMAIN tasks = {}
  BY DEF ActionDone, zsp_timebase_has_pending
<1>2. OnStack(exec) = {} /\ Posted = {}
  BY <1>1 DEF Idle, OnStack, Posted
<1>3. RunnableIn(tb, created, {}) = {}
  BY <1>1, <1>2, NoneReady DEF Now, ScenarioState
<1>4. ASSUME NEW t \in created, tb.leaf[t] > 0, StoppedAtImport(t) PROVE FALSE
  <2>1. t \in Thread /\ frames[t] # <<>>
    <3>1. t \in Thread /\ tb.leaf[t] = Len(frames[t])
      BY DEF Now, ScenarioState, Consistent, FramesCounted
    <3> QED
      BY <1>4, <3>1
  <2>2. t \in Importers
    BY <1>2, <1>4, <2>1, StandsAtImport DEF Importers, AfterImport
  <2>3. "BLOCKED" \in tb.flags[t]
    BY <1>3, <1>4 DEF RunnableIn
  <2> QED
    BY <1>1, <1>2, <2>2, <2>3, ImporterFacts
<1> QED
  BY <1>1, <1>4, NoneIsStuck DEF NothingPending

-----------------------------------------------------------------------------
(* The invariant. *)

(* No request is posted before the first action starts. *)
LEMMA BridgeInit_Inv == BridgeInit => BridgeInv
<1> SUFFICES ASSUME BridgeInit PROVE BridgeInv
  OBVIOUS
<1>1. /\ ScenarioInit /\ ScenarioInv
      /\ req = [s \in Slots |-> [in_use |-> FALSE, fn |-> NULL, thread |-> NULL]]
      /\ pending = <<>> /\ rid = [t \in Thread |-> NULL] /\ tasks = [s \in {} |-> NULL]
      /\ host = IF UsesImports(program) THEN "idle" ELSE "main"
  BY ScenarioInit_Inv DEF BridgeInit, zsp_bridge_create
<1>2. exec = <<>> /\ created = {}
  BY <1>1 DEF ScenarioInit, Init
<1>3. Importers = {} /\ Posted = {} /\ DOMAIN tasks = {}
  BY <1>1, <1>2 DEF Importers, Posted
<1>4. BridgeTypes
  <2>1. req \in [Slots -> Request(program)]
    BY <1>1 DEF Request, Fns
  <2>2. pending \in Seq(Slots) /\ Len(pending) = 0
    BY <1>1
  <2>3. rid \in [Thread -> Slots \cup {NULL}]
    BY <1>1
  <2>4. \A i, j \in 1 .. 0 : pending[i] = pending[j] => i = j
    OBVIOUS
  <2> QED
    BY <1>3, <2>1, <2>2, <2>3, <2>4 DEF BridgeTypes
<1>5. SlotsHeld
  BY <1>1, <1>3 DEF SlotsHeld
<1>6. \A H : RequestsPlaced(H)
  BY <1>3 DEF RequestsPlaced
<1>7. \A H : Requests(H)
  BY <1>4, <1>5, <1>6 DEF Requests
<1>8. Resting
  BY <1>2 DEF Resting, Idle
<1> QED
  BY <1>1, <1>7, <1>8 DEF BridgeInv, ScenarioInv

(* The testbench starts an action. *)
LEMMA SpawnStep ==
    ASSUME NEW H, Now(H), Requests(H), zsp_bridge_spawn, todo \in Seq(DOMAIN program)
    PROVE  /\ After(H) /\ Requests(H)'
           /\ todo' \in Seq(DOMAIN program)
<1> DEFINE u == NewThread
<1>1. /\ Enter(u, Head(todo), NoRef, frames) /\ todo # <<>> /\ todo' = Tail(todo)
      /\ loc' = [loc EXCEPT ![u] = AtCase(1)]
      /\ UNCHANGED <<program, req, pending, rid, tasks>>
  BY DEF zsp_bridge_spawn
<1>2. Head(todo) \in DOMAIN program /\ Tail(todo) \in Seq(DOMAIN program)
  BY <1>1
<1>3. After(H)
  BY <1>1, <1>2, RootStep
<1>4. /\ u \in Thread \ created /\ created' = created \cup {u}
      /\ tb' = thread_init_common(tb, u) /\ exec' = Append(exec, u)
      /\ ButFor(u, frames, frames')
  BY <1>1 DEF Enter, ButFor, Now, ScenarioState, Tasks
<1> HIDE DEF u
<1>5. LeavesOthers(u, H, H) /\ u \notin Importers
  BY <1>4, EnteredAlone DEF Importers
<1> QED
  BY <1>1, <1>2, <1>3, <1>5, TaskKeepsImporters, RequestsKept

(* A step of a task while an action runs. *)
LEMMA BridgedTaskStep ==
    ASSUME NEW H, Now(H), Requests(H), NEW t \in Thread, ScenarioTask(t),
           UNCHANGED <<req, pending, rid, tasks>>
    PROVE  exec # <<>> /\ \E K : After(K) /\ Requests(K)'
<1>1. Executing(t)
  BY DEF ScenarioTask, TaskWaits, TaskInvokes, TaskSpawnsBranch, TaskAwaitsBranches,
         TaskEnds, TaskEndsDangling, TaskFails, ResumeNothing, Reaches
<1>2. PICK K : After(K) /\ LeavesOthers(t, H, K)
  BY TaskStep
<1>3. t \notin Importers /\ exec # <<>>
  BY <1>1, ExecutingFacts DEF Importers
<1>4. Requests(K)'
  BY <1>2, <1>3, TaskKeepsImporters, RequestsKept DEF After
<1> QED
  BY <1>2, <1>3, <1>4

(* Where there are no imports nothing is ever requested. *)
LEMMA UnusedBridge ==
    ASSUME NEW H, Now(H), Requests(H), ~UsesImports(program),
           UNCHANGED <<program, req, pending, rid, tasks>>,
           NEW K, Now(K)'
    PROVE  Requests(K)'
<1>1. Importers = {}
  <2>1. \A t \in created : ~AtImport(program, frames[t])
    BY NoneAtImport DEF Now, ScenarioState, Consistent, Tasks
  <2> QED
    BY <2>1 DEF Importers
<1>2. Importers' = {}
  <2>1. \A t \in created' : ~AtImport(program', frames'[t])
    BY NoneAtImport DEF Now, ScenarioState, Consistent, Tasks
  <2> QED
    BY <2>1 DEF Importers
<1>3. SameImporters(H, K)
  BY <1>1, <1>2 DEF SameImporters
<1> QED
  BY <1>3, RequestsKept

(* The compiled program stays the same. *)
LEMMA ProgramKept == ScenarioNext => program' = program
<1>1. ASSUME NEW t \in Thread, ScenarioTask(t) PROVE program' = program
  BY <1>1 DEF ScenarioTask, TaskWaits, TaskInvokes, TaskSpawnsBranch, TaskAwaitsBranches,
              TaskEnds, TaskEndsDangling, TaskFails, ResumeNothing, ReturnFrom, scenario
<1> QED
  BY <1>1 DEF ScenarioNext, StartRoot, StartRun, ResumeThread, PassTime, MainReturns,
              svars, scenario

(* Every step keeps the invariant: one case for each action. *)
LEMMA BridgeNext_Inv == BridgeInv /\ [BridgeNext]_bvars => BridgeInv'
<1> SUFFICES ASSUME BridgeInv, [BridgeNext]_bvars PROVE BridgeInv'
  OBVIOUS
<1>0. /\ program \in Programs /\ todo \in Seq(DOMAIN program) /\ end_ticks \in Nat
      /\ host = "main" => ~UsesImports(program)
      /\ BranchesSuspend(program) => (\E H : Now(H) /\ Requests(H)) /\ Resting
  BY DEF BridgeInv, ScenarioInv
<1>1. ASSUME UNCHANGED <<program, end_ticks>>, todo' \in Seq(DOMAIN program),
             host' = "main" => host = "main",
             BranchesSuspend(program) => (\E K : After(K) /\ Requests(K)') /\ Resting'
      PROVE  BridgeInv'
  BY <1>0, <1>1 DEF BridgeInv, ScenarioInv, Now, After, Bodies
<1>2. CASE host = "main" /\ ScenarioNext /\ UNCHANGED bridge
  <2>1. /\ ScenarioInv' /\ UNCHANGED <<program, req, pending, rid, tasks, host>>
        /\ ~UsesImports(program)
    BY <1>0, <1>2, ScenarioNext_Inv, ProgramKept DEF BridgeInv, bridge
  <2>2. ASSUME BranchesSuspend(program) PROVE \E K : Now(K)' /\ Requests(K)'
    <3>1. PICK H : Now(H) /\ Requests(H)
      BY <1>0, <2>2
    <3>2. PICK K : Now(K)'
      BY <2>1, <2>2 DEF ScenarioInv
    <3> QED
      BY <2>1, <3>1, <3>2, UnusedBridge
  <2>3. Resting'
    BY <1>2, <2>1 DEF Resting
  <2> QED
    BY <1>2, <2>1, <2>2, <2>3 DEF BridgeInv
<1>3. ASSUME host # "main", zsp_bridge_spawn PROVE BridgeInv'
  <2>1. UNCHANGED <<program, end_ticks>> /\ host' = "runs"
        /\ todo # <<>> /\ todo' = Tail(todo)
    BY <1>3 DEF zsp_bridge_spawn
  <2>2. todo' \in Seq(DOMAIN program) /\ Resting'
    BY <1>0, <2>1 DEF Resting
  <2>3. \A H : Now(H) /\ Requests(H) => After(H) /\ Requests(H)'
    BY <1>0, <1>3, SpawnStep
  <2> QED
    BY <1>0, <1>1, <2>1, <2>2, <2>3
<1>4. ASSUME host # "main", BridgeRun PROVE BridgeInv'
  <2>1. UNCHANGED <<program, end_ticks, todo, host>> /\ host = "runs"
    BY <1>4 DEF BridgeRun
  <2>2. \A H : Now(H) /\ Requests(H) => After(H) /\ Requests(H)'
    BY <1>4, RunStep
  <2> QED
    BY <1>0, <1>1, <2>1, <2>2 DEF Resting
<1>5. ASSUME host # "main", zsp_bridge_next_request PROVE BridgeInv'
  <2>1. UNCHANGED <<program, end_ticks, todo, host>> /\ host = "runs"
    BY <1>5 DEF zsp_bridge_next_request, RunReturns, svars, vars, scenario
  <2>2. \A H : Now(H) /\ Requests(H) => After(H) /\ Requests(H)'
    BY <1>5, NextRequestStep
  <2> QED
    BY <1>0, <1>1, <2>1, <2>2 DEF Resting
<1>6. ASSUME UNCHANGED <<svars, req, pending, rid, tasks>>
      PROVE  /\ UNCHANGED <<program, end_ticks, todo, tb, created, exec, frames, loc>>
             /\ \A H : Now(H) /\ Requests(H) => After(H) /\ Requests(H)'
  <2>1. UNCHANGED <<program, end_ticks, todo, tb, created, exec, frames, loc>>
    BY <1>6 DEF svars, vars, scenario
  <2>2. \A H : SameImporters(H, H)
    BY <2>1 DEF SameImporters, Importers
  <2>3. \A H : Now(H) => After(H)
    BY <2>1 DEF Now, After
  <2> QED
    BY <1>6, <2>1, <2>2, <2>3, RequestsKept
<1>7. ASSUME host # "main", RunAction PROVE BridgeInv'
  <2>1. /\ UNCHANGED <<svars, req, pending, rid, tasks>> /\ Idle
        /\ host' = IF ActionDone THEN "idle" ELSE "waits"
    BY <1>7 DEF RunAction, RunReturns
  <2>2. /\ UNCHANGED <<program, end_ticks, todo, tb, created, exec>>
        /\ \A H : Now(H) /\ Requests(H) => After(H) /\ Requests(H)'
    BY <1>6, <2>1
  <2>3. BranchesSuspend(program) => Resting'
    <3>1. ActionDone => \A H : Now(H) /\ Requests(H) => \A t \in created : tb.leaf[t] = 0
      BY <2>1, DoneMeansEnded
    <3> QED
      BY <1>0, <2>1, <2>2, <3>1 DEF Resting, Idle
  <2> QED
    BY <1>0, <1>1, <2>1, <2>2, <2>3
<1>8. ASSUME host # "main", Progress PROVE BridgeInv'
  <2>1. UNCHANGED <<svars, req, pending, rid, tasks>> /\ host' = "runs"
    BY <1>8 DEF Progress
  <2> QED
    BY <1>0, <1>1, <1>6, <2>1 DEF Resting
<1>9. ASSUME host # "main", NEW s \in Slots, dispatch_task(s) PROVE BridgeInv'
  <2>1. UNCHANGED <<program, end_ticks, todo, host>> /\ host # "idle"
    BY <1>9 DEF dispatch_task, svars, vars, scenario
  <2>2. \A H : Now(H) /\ Requests(H) => After(H) /\ Requests(H)'
    BY <1>9, DispatchStep
  <2> QED
    BY <1>0, <1>1, <2>1, <2>2 DEF Resting
<1>10. ASSUME host # "main", NEW s \in Slots, ImportReturns(s) PROVE BridgeInv'
  <2>1. UNCHANGED <<program, end_ticks, todo>> /\ host' = "triggered"
    BY <1>10 DEF ImportReturns, scenario
  <2>2. \A H : Now(H) /\ Requests(H) => \E K : After(K) /\ Requests(K)'
    BY <1>10, ReturnsStep
  <2> QED
    BY <1>0, <1>1, <2>1, <2>2 DEF Resting
<1>11. ASSUME host # "main", NEW t \in Thread, zsp_scenario_post_import(t) PROVE BridgeInv'
  <2>1. UNCHANGED <<program, end_ticks, todo, host>> /\ exec # <<>>
    BY <1>11 DEF zsp_scenario_post_import, Leave, Reaches, Executing
  <2>2. \A H : Now(H) /\ Requests(H) => \E K : After(K) /\ Requests(K)'
    BY <1>11, PostStep
  <2> QED
    BY <1>0, <1>1, <2>1, <2>2 DEF Resting, Idle
<1>12. ASSUME host # "main", NEW t \in Thread, ScenarioTask(t), UNCHANGED bridge
       PROVE  BridgeInv'
  <2>1. UNCHANGED <<program, end_ticks, todo, host, req, pending, rid, tasks>>
    BY <1>12 DEF bridge, ScenarioTask, TaskWaits, TaskInvokes, TaskSpawnsBranch,
          TaskAwaitsBranches, TaskEnds, TaskEndsDangling, TaskFails, ResumeNothing,
          ReturnFrom, Leave, scenario
  <2>2. \A H : Now(H) /\ Requests(H) => exec # <<>> /\ \E K : After(K) /\ Requests(K)'
    BY <1>12, <2>1, BridgedTaskStep
  <2> QED
    BY <1>0, <1>1, <2>1, <2>2 DEF Resting, Idle
<1>13. ASSUME UNCHANGED bvars PROVE BridgeInv'
  <2>1. UNCHANGED <<svars, req, pending, rid, tasks, host>>
    BY <1>13 DEF bvars, bridge
  <2>2. /\ UNCHANGED <<program, end_ticks, todo, tb, created, exec>>
        /\ \A H : Now(H) /\ Requests(H) => After(H) /\ Requests(H)'
    BY <1>6, <2>1
  <2>3. Resting => Resting'
    BY <2>1, <2>2 DEF Resting, Idle
  <2> QED
    BY <1>0, <1>1, <2>1, <2>2, <2>3
<1> QED
  BY <1>2, <1>3, <1>4, <1>5, <1>7, <1>8, <1>9, <1>10, <1>11, <1>12, <1>13
     DEF BridgeNext, Bridged, HostEnds

(* Request slots, the FIFO, the testbench's processes and the coroutines'  *)
(* frames agree as long as the testbench runs.                             *)
THEOREM BridgeInvHolds == BridgeSpec => []BridgeInv
BY BridgeInit_Inv, BridgeNext_Inv, PTL DEF BridgeSpec


-----------------------------------------------------------------------------
(* What the invariant says of the properties. *)

(* Fewer coroutines than there are slots wait when one more comes to an    *)
(* import: the bridge has a slot for it.                                   *)
SlotsSuffice ==
    (\E t \in created : Reaches(t, "import")) => Cardinality(Importing) < MaxReq

(* Importing is the set the invariant is about. *)
LEMMA ImportingIs == ASSUME NEW H, Now(H) PROVE Importing = Importers
<1>1. created \subseteq Thread
  BY DEF Now, ScenarioState, Consistent
<1>2. \A t \in Thread : InExec(t) <=> t \in OnStack(exec)
  BY DEF InExec, OnStack
<1> QED
  BY <1>1, <1>2, StandsAtImport DEF Importing, Importers

(* Fewer importers than slots leave a slot free. *)
LEMMA SlotIsFree ==
    ASSUME NEW H, Now(H), Requests(H), Cardinality(Importers) < MaxReq
    PROVE  FreeSlots # {}
<1> SUFFICES ASSUME FreeSlots = {} PROVE FALSE
  OBVIOUS
<1> DEFINE f == [t \in Importers |-> rid[t]]
<1>1. Importers \in SUBSET Thread
  BY DEF Importers, Now, ScenarioState, Consistent
<1>2. IsFiniteSet(Importers) /\ Cardinality(Importers) \in Nat
  BY <1>1, FiniteThreads
<1>3. f \in Surjection(Importers, Slots)
  <2>1. \A s \in Slots : req[s].in_use
    BY DEF FreeSlots
  <2>2. /\ \A t \in Importers : rid[t] \in Slots
        /\ \A s \in Slots : \E t \in Importers : rid[t] = s
    BY <2>1 DEF Requests, SlotsHeld
  <2> QED
    BY <2>2 DEF Surjection
<1> HIDE DEF f
<1>4. Cardinality(Slots) <= Cardinality(Importers)
  BY <1>2, <1>3, FS_Surjection
<1>5. Cardinality(Slots) = MaxReq
  BY MaxReqAssumption, FS_Interval DEF Slots
<1> QED
  BY <1>2, <1>4, <1>5, MaxReqAssumption

(* How often the request of a coroutine is in the FIFO. *)
LEMMA PostedOnce ==
    ASSUME NEW s, BridgeTypes
    PROVE  Cardinality({i \in DOMAIN pending : pending[i] = s}) =
              IF s \in Posted THEN 1 ELSE 0
<1> DEFINE I == {i \in DOMAIN pending : pending[i] = s}
<1>1. /\ DOMAIN pending = 1 .. Len(pending)
      /\ \A i, j \in 1 .. Len(pending) : pending[i] = pending[j] => i = j
  BY DEF BridgeTypes
<1>2. CASE s \in Posted
  <2>1. PICK i \in 1 .. Len(pending) : s = pending[i]
    BY <1>2 DEF Posted
  <2>2. I = {i}
    BY <1>1, <2>1
  <2> QED
    BY <1>2, <2>2, FS_Singleton
<1>3. CASE s \notin Posted
  <2>1. I = {}
    BY <1>1, <1>3 DEF Posted
  <2> QED
    BY <1>3, <2>1, FS_EmptySet
<1> QED
  BY <1>2, <1>3

(* The invariant and enough slots give the property. *)
LEMMA NowMatched ==
    ASSUME NEW H, Now(H), Requests(H), SlotsSuffice
    PROVE  RequestsMatchCoroutines
<1> DEFINE stage(t) == Cardinality({i \in DOMAIN pending : pending[i] = rid[t]})
                           + (IF rid[t] \in DOMAIN tasks THEN 1 ELSE 0)
           asked(t) == Body(t)[Leaf(t).idx - 1].fn
<1>1. Importing = Importers
  BY ImportingIs
<1>2. {s \in Slots : req[s].in_use} = {rid[t] : t \in Importers}
  BY DEF Requests, SlotsHeld
<1>3. \A t, u \in Importers : rid[t] = rid[u] => t = u
  BY ImporterFacts
<1>4. ASSUME NEW t \in Importers
      PROVE  /\ req[rid[t]].thread = t
             /\ stage(t) = IF "BLOCKED" \in tb.flags[t] THEN 1 ELSE 0
             /\ rid[t] \in DOMAIN tasks => tasks[rid[t]] \in {NULL, asked(t)}
  <2>1. /\ req[rid[t]].thread = t
        /\ "BLOCKED" \in tb.flags[t] <=> rid[t] \in Posted \cup DOMAIN tasks
    BY ImporterFacts
  <2>2. Posted \cap DOMAIN tasks = {}
    BY DEF Requests, RequestsPlaced
  <2>3. Cardinality({i \in DOMAIN pending : pending[i] = rid[t]}) =
           IF rid[t] \in Posted THEN 1 ELSE 0
    BY PostedOnce DEF Requests
  <2>4. stage(t) = IF "BLOCKED" \in tb.flags[t] THEN 1 ELSE 0
    BY <2>1, <2>2, <2>3
  <2>5. req[rid[t]].fn = asked(t)
    BY DEF Requests, SlotsHeld, AskedBy, Body, Leaf, Depth
  <2> QED
    BY <2>1, <2>4, <2>5 DEF Requests, RequestsPlaced
<1>5. ASSUME NEW s \in DOMAIN tasks PROVE req[s].in_use
  BY <1>5, ProcessFacts DEF Requests, SlotsHeld
<1>6. (\E t \in created : Reaches(t, "import")) => FreeSlots # {}
  BY <1>1, SlotIsFree DEF SlotsSuffice
<1> QED
  BY <1>1, <1>2, <1>3, <1>4, <1>5, <1>6 DEF RequestsMatchCoroutines

(* Every coroutine at an import has a slot of its own, and no other slot   *)
(* is in use; its request is in one place while it waits; the process      *)
(* calls what it asked for and wakes it and nobody else; and there is a    *)
(* slot for every coroutine that comes to an import, where as many slots   *)
(* were built in as coroutines wait for an import at a time.               *)
THEOREM RequestsMatchCoroutinesHolds ==
    BridgeSpec => [](BranchesSuspend(program) /\ SlotsSuffice => RequestsMatchCoroutines)
<1>1. BridgeInv => (BranchesSuspend(program) /\ SlotsSuffice => RequestsMatchCoroutines)
  BY NowMatched DEF BridgeInv
<1> QED
  BY <1>1, BridgeInvHolds, PTL

(* With as many slots as threads there always is one.                      *)
THEOREM NoSlotIsMissing ==
    ASSUME Cardinality(Thread) <= MaxReq
    PROVE  BridgeSpec => [](BranchesSuspend(program) => RequestsMatchCoroutines)
<1>1. ASSUME NEW H, Now(H) PROVE SlotsSuffice
  <2> SUFFICES ASSUME NEW t \in created, Reaches(t, "import")
               PROVE  Cardinality(Importing) < MaxReq
    BY DEF SlotsSuffice
  <2>1. t \in Thread /\ t \in OnStack(exec)
    BY <1>1, ExecutingFacts DEF Reaches, Now, ScenarioState, Consistent
  <2>2. Importing \in SUBSET (Thread \ {t})
    BY <1>1, <2>1, ImportingIs DEF Importers, Now, ScenarioState, Consistent
  <2>3. /\ IsFiniteSet(Thread \ {t})
        /\ Cardinality(Thread \ {t}) = Cardinality(Thread) - 1
        /\ Cardinality(Thread) \in Nat
    BY <2>1, ThreadAssumption, FS_RemoveElement, FS_CardinalityType
  <2>4. Cardinality(Importing) <= Cardinality(Thread) - 1 /\ Cardinality(Importing) \in Nat
    BY <2>2, <2>3, FS_Subset, FS_CardinalityType
  <2> QED
    BY <2>3, <2>4, MaxReqAssumption
<1>2. BridgeInv => (BranchesSuspend(program) => RequestsMatchCoroutines)
  BY <1>1, NowMatched DEF BridgeInv
<1> QED
  BY <1>2, BridgeInvHolds, PTL

(* run_action returns to the testbench only when every coroutine has ended *)
(* and every slot is free.                                                 *)
THEOREM ActionReturnsWhenDoneHolds ==
    BridgeSpec => [](BranchesSuspend(program) => ActionReturnsWhenDone)
<1>1. ASSUME BridgeInv, BranchesSuspend(program) PROVE ActionReturnsWhenDone
  <2> SUFFICES ASSUME host = "idle"
               PROVE  (\A t \in created : tb.leaf[t] = 0) /\ FreeSlots = Slots
    BY DEF ActionReturnsWhenDone
  <2>1. PICK H : Now(H) /\ Requests(H)
    BY <1>1 DEF BridgeInv
  <2>2. \A t \in created : tb.leaf[t] = 0
    BY <1>1 DEF BridgeInv, Resting
  <2>3. Importers = {}
    <3>1. ASSUME NEW t \in Importers PROVE FALSE
      <4>1. t \in created /\ tb.leaf[t] > 0
        BY <2>1, ImporterFacts
      <4> QED
        BY <2>2, <4>1
    <3> QED
      BY <3>1
  <2>4. FreeSlots = Slots
    BY <2>1, <2>3 DEF FreeSlots, Requests, SlotsHeld
  <2> QED
    BY <2>2, <2>4
<1>2. BridgeInv => (BranchesSuspend(program) => ActionReturnsWhenDone)
  BY <1>1
<1> QED
  BY <1>2, BridgeInvHolds, PTL

(* Under the testbench, too, parallel blocks join all their branches,      *)
(* blocked threads have something that will wake them, and no task runs on *)
(* while a delay it asked for is pending.                                  *)
THEOREM BridgedTasksHold ==
    BridgeSpec => [](BranchesSuspend(program) =>
                        BranchesAreJoined /\ BlockedHasWaker /\ WaitsAreNotCutShort)
<1>1. BridgeInv => (BranchesSuspend(program) =>
                       BranchesAreJoined /\ BlockedHasWaker /\ WaitsAreNotCutShort)
  BY NowJoined, NowWaked, NowUncut DEF BridgeInv
<1> QED
  BY <1>1, BridgeInvHolds, PTL
===============================================================================
