------------------------------ MODULE ZspBridge ------------------------------
(***************************************************************************)
(* The scenario under a SystemVerilog testbench                            *)
(* (scenario/cbridge/zsp_bridge.c, scenario/sv_shim.py).  A task that      *)
(* comes to a blocking import posts a request and blocks.  run_action runs *)
(* the C scheduler until nothing is ready, forks a process of the          *)
(* testbench for each request, and waits until one of them has ended; that *)
(* process completes its request, which wakes the coroutine.               *)
(*                                                                         *)
(* Processes of the testbench give up control only where they block, as    *)
(* simulators run them: in @progress, and inside an import task.           *)
(*                                                                         *)
(* A program with imports is emitted for the bridge, any other with the    *)
(* main function of ZspScenario.                                           *)
(***************************************************************************)
EXTENDS ZspScenario

CONSTANT MaxReq     \* ZSP_BRIDGE_MAX_REQ, 64 in the build

ASSUME MaxReqAssumption == MaxReq \in Nat \ {0}

VARIABLES
    host,       \* where run_action is; "main" for an emitted main
    req,        \* the request slots: the fields of zsp_bridge_req_t
    pending,    \* the FIFO of posted requests
    rid,        \* per thread __rid of the frame that waits for an import
    tasks       \* forked processes: slot -> the import it has called, or NULL

bridge == <<host, req, pending, rid, tasks>>
bvars == <<svars, bridge>>

Slots == 0 .. MaxReq - 1
FreeSlots == {s \in Slots : ~req[s].in_use}

(* The first slot that is not in use. *)
FreeSlot == CHOOSE s \in FreeSlots : \A q \in FreeSlots : s <= q

IsImport(s) == s.kind = "import"
UsesImports(p) == \E a \in DOMAIN p : \E i \in DOMAIN p[a] : IsImport(p[a][i])

zsp_bridge_create ==
    /\ req = [s \in Slots |-> [in_use |-> FALSE, fn |-> NULL, thread |-> NULL]]
    /\ pending = <<>>
    /\ rid = [t \in Thread |-> NULL]
    /\ tasks = [s \in {} |-> NULL]

BridgeInit ==
    /\ ScenarioInit
    /\ zsp_bridge_create
    /\ host = IF UsesImports(program) THEN "idle" ELSE "main"

-----------------------------------------------------------------------------
(* The coroutine's side. *)

(* Mutants: the slot is not marked; it is marked for ever. *)
post_unmarked(s, fn, t) == [req EXCEPT ![s] = [in_use |-> FALSE, fn |-> fn, thread |-> t]]

PostedIn(s, fn, t) == [req EXCEPT ![s] = [in_use |-> TRUE, fn |-> fn, thread |-> t]]

(* With no free slot the code writes before the table. *)
zsp_scenario_post_import(t) ==
    /\ Reaches(t, "import")
    /\ FreeSlots # {}
    /\ req' = PostedIn(FreeSlot, Suspend(t).fn, t)
    /\ pending' = Append(pending, FreeSlot)
    /\ rid' = [rid EXCEPT ![t] = FreeSlot]
    /\ frames' = ResumeAtNext(t)
    /\ Leave(block_thread(tb, t), t)
    /\ UNCHANGED <<created, parked, program, todo, loc, host, tasks>>

(* The case at which the leaf frame of t resumes follows an import. *)
AfterImport(t) == frames[t] # <<>> /\ StoppedAtImport(t)

(* Mutant: the slot is never released. *)
import_done_keeps(t) == req

zsp_scenario_import_done(t) ==
    IF AfterImport(t) THEN [req EXCEPT ![rid[t]].in_use = FALSE] ELSE req

-----------------------------------------------------------------------------
(* The host's side. *)

zsp_bridge_spawn ==
    /\ host = "idle" /\ todo # <<>>
    /\ Enter(NewThread, Head(todo), NoRef, frames)
    /\ todo' = Tail(todo)
    /\ loc' = [loc EXCEPT ![NewThread] = AtCase(1)]
    /\ host' = "runs"
    /\ UNCHANGED <<parked, pc, end_ticks, program, req, pending, rid, tasks>>

(* One turn of the loop of zsp_bridge_run. *)
BridgeRun ==
    LET t == tb.ready_head
    IN  /\ host = "runs" /\ Idle
        /\ t # NULL
        /\ exec' = <<t>>
        /\ tb' = BeginRun(tb)
        /\ loc' = [loc EXCEPT ![t] = IF tb.leaf[t] > 0 THEN AtCase(Leaf(t).idx) ELSE @]
        /\ req' = zsp_scenario_import_done(t)
        /\ UNCHANGED <<created, parked, pc, end_ticks, program, todo, frames,
                       host, pending, rid, tasks>>

RunReturns == host = "runs" /\ Idle /\ tb.ready_head = NULL

zsp_bridge_next_request ==
    /\ RunReturns /\ pending # <<>>
    /\ pending' = Tail(pending)
    /\ tasks' = [s \in DOMAIN tasks \cup {Head(pending)} |->
                    IF s \in DOMAIN tasks THEN tasks[s] ELSE NULL]
    /\ UNCHANGED <<svars, host, req, rid>>

(* Mutant: run_action does not look at its own processes. *)
done_when_drained == ~zsp_timebase_has_pending(tb) /\ pending = <<>>

(* zsp_bridge_done, and outstanding = 0. *)
ActionDone ==
    /\ ~zsp_timebase_has_pending(tb) /\ pending = <<>>
    /\ DOMAIN tasks = {}

RunAction ==
    /\ RunReturns /\ pending = <<>>
    /\ host' = IF ActionDone THEN "idle" ELSE "waits"
    /\ UNCHANGED <<svars, req, pending, rid, tasks>>

(* @progress was triggered. *)
Progress ==
    /\ host = "triggered"
    /\ host' = "runs"
    /\ UNCHANGED <<svars, req, pending, rid, tasks>>

(* The forked process of slot s, while run_action waits. *)
dispatch_task(s) ==
    /\ host \in {"waits", "triggered"}
    /\ s \in DOMAIN tasks /\ tasks[s] = NULL
    /\ tasks' = [tasks EXCEPT ![s] = req[s].fn]
    /\ UNCHANGED <<svars, host, req, pending, rid>>

(* Mutant: the coroutine is not woken. *)
complete_silently(s) == tb

zsp_bridge_complete(s) == zsp_timebase_schedule(tb, req[s].thread)

ImportReturns(s) ==
    /\ host \in {"waits", "triggered"}
    /\ s \in DOMAIN tasks /\ tasks[s] # NULL
    /\ tb' = zsp_bridge_complete(s)
    /\ tasks' = [q \in DOMAIN tasks \ {s} |-> tasks[q]]
    /\ host' = "triggered"
    /\ UNCHANGED <<created, parked, exec, pc, end_ticks, scenario, req, pending, rid>>

HostEnds == host = "idle" /\ todo = <<>> /\ UNCHANGED bvars

Bridged ==
    \/ zsp_bridge_spawn
    \/ BridgeRun
    \/ zsp_bridge_next_request
    \/ RunAction
    \/ Progress
    \/ \E s \in Slots : dispatch_task(s) \/ ImportReturns(s)
    \/ \E t \in Thread : zsp_scenario_post_import(t)
    \/ (\E t \in Thread : ScenarioTask(t)) /\ UNCHANGED bridge
    \/ HostEnds

BridgeNext ==
    \/ host = "main" /\ ScenarioNext /\ UNCHANGED bridge
    \/ host # "main" /\ Bridged

BridgeSpec == BridgeInit /\ [][BridgeNext]_bvars

(* One program runs, and the import tasks of the testbench end. *)
BridgeFairSpec == BridgeSpec /\ WF_bvars(BridgeNext)
-----------------------------------------------------------------------------
(* Properties. *)

(* The threads that wait for an import or were woken from one. *)
Importing == {t \in created : ~InExec(t) /\ AfterImport(t)}

(* Every coroutine that is stopped at an import has a slot of its own, and *)
(* no other slot is in use.  While it is blocked its request is in one     *)
(* place, the FIFO or a process of the testbench, which calls what the     *)
(* coroutine asked for, and wakes it and nobody else; and there is a slot  *)
(* for every coroutine that comes to an import.                            *)
RequestsMatchCoroutines ==
    LET stage(t) == Cardinality({i \in DOMAIN pending : pending[i] = rid[t]})
                        + (IF rid[t] \in DOMAIN tasks THEN 1 ELSE 0)
        asked(t) == Body(t)[Leaf(t).idx - 1].fn
    IN  /\ {s \in Slots : req[s].in_use} = {rid[t] : t \in Importing}
        /\ \A t, u \in Importing : rid[t] = rid[u] => t = u
        /\ \A t \in Importing :
               /\ req[rid[t]].thread = t
               /\ stage(t) = IF "BLOCKED" \in tb.flags[t] THEN 1 ELSE 0
               /\ rid[t] \in DOMAIN tasks => tasks[rid[t]] \in {NULL, asked(t)}
        /\ \A s \in DOMAIN tasks : req[s].in_use
        /\ (\E t \in created : Reaches(t, "import")) => FreeSlots # {}

(* run_action returns to the testbench only when every coroutine of the    *)
(* action, those it left to themselves included, has ended.                *)
ActionReturnsWhenDone ==
    host = "idle" => (\A t \in created : tb.leaf[t] = 0) /\ FreeSlots = Slots

(* An action that is started returns, where no coroutine has to wait for   *)
(* the time: the bridge does not advance it.                               *)
ActionReturns == (host = "runs") ~> (host = "idle")
=============================================================================
