----------------------------- MODULE ZspScenario -----------------------------
(***************************************************************************)
(* The tasks scenario/timebase_emit.py emits, on the timebase.  A          *)
(* coroutine is a sequence of suspending constructs between which plain    *)
(* code runs: a wait, the traversal of another action, a parallel block    *)
(* whose branches are threads of their own.  The emitted function is a     *)
(* switch on the frame's idx; one step below is one case of it, or one     *)
(* turn of the sequence of calls that create the branches: each runs the   *)
(* first case of the new thread, nested, before the parent goes on.        *)
(*                                                                         *)
(* Cases are numbered from 1; case Len(body) + 1 is the final one.         *)
(***************************************************************************)
EXTENDS ZspTimebase

CONSTANTS
    Programs,   \* bodies of the actions: functions from actions to sequences
    Roots,      \* the sequence of exported actions, which main starts
    MayFail     \* actions whose randomization may fail

(* What the body of an action is made of. *)
IsConstruct(p, s) ==
    \/ s.kind = "wait" /\ s.time \in Nat
    \/ s.kind = "invoke" /\ s.target \in DOMAIN p
    \/ s.kind = "par" /\ s.branches \in Seq(DOMAIN p) /\ s.join \in {"all", "none"}
    \/ s.kind = "import"

ASSUME ProgramsAssumption ==
    \A p \in Programs : \A a \in DOMAIN p :
        /\ Len(p[a]) \in Nat /\ DOMAIN p[a] = 1 .. Len(p[a])
        /\ \A i \in DOMAIN p[a] : IsConstruct(p, p[a][i])
ASSUME RootsAssumption == \A p \in Programs : Roots \in Seq(DOMAIN p)

VARIABLES
    program,    \* the one of Programs that was compiled
    todo,       \* the exported actions main has still to start
    frames,     \* per thread the locals of its frames, leaf last
    loc         \* per thread where its executing function is

scenario == <<program, todo, frames, loc>>
svars == <<vars, scenario>>

NoRef == [kind |-> "null"]
ParBlock(t, depth, i) == [kind |-> "block", thread |-> t, depth |-> depth, at |-> i]
Dangling(t) == [kind |-> "dangling", thread |-> t]    \* its frame was popped

(* idx: the case to resume at; done: the counters of its parallel blocks;  *)
(* par: the block this frame is a branch of (__pb and __parent).           *)
NewFrame(a, ref) ==
    [action |-> a, idx |-> 1, done |-> [i \in DOMAIN program[a] |-> 0], par |-> ref]

AtCase(i) == [case |-> i, spawned |-> 0]

ScenarioInit ==
    /\ Init
    /\ program \in Programs
    /\ todo = Roots
    /\ frames = [t \in Thread |-> <<>>]
    /\ loc = [t \in Thread |-> AtCase(1)]

Depth(t) == Len(frames[t])
Leaf(t) == frames[t][Depth(t)]
Body(t) == program[Leaf(t).action]

(* What ends the case that t executes. *)
Suspend(t) ==
    IF loc[t].case \in DOMAIN Body(t) THEN Body(t)[loc[t].case] ELSE [kind |-> "final"]

(* t executes and its case ends with a construct of this kind. *)
Reaches(t, kind) == Executing(t) /\ tb.leaf[t] > 0 /\ Suspend(t).kind = kind

ResumeAtNext(t) ==
    [frames EXCEPT ![t] = [@ EXCEPT ![Depth(t)].idx = loc[t].case + 1]]

FallThrough(t) == [loc EXCEPT ![t] = AtCase(loc[t].case + 1)]

-----------------------------------------------------------------------------
(* Threads begin and go on. *)

(* zsp_timebase_thread_create runs the first case of the new thread.       *)
Enter(t, a, ref, others) ==
    /\ t \in Thread \ created
    /\ created' = created \cup {t}
    /\ tb' = thread_init_common(tb, t)
    /\ exec' = Append(exec, t)
    /\ frames' = [others EXCEPT ![t] = <<NewFrame(a, ref)>>]

NewThread == CHOOSE t \in Thread : t \notin created

StartRoot ==
    /\ Idle /\ pc = "main" /\ todo # <<>>
    /\ Enter(NewThread, Head(todo), NoRef, frames)
    /\ todo' = Tail(todo)
    /\ loc' = [loc EXCEPT ![NewThread] = AtCase(1)]
    /\ UNCHANGED <<parked, pc, end_ticks, program>>

StartRun ==
    /\ todo = <<>> /\ end_ticks = 0
    /\ \E end \in EndTimes : RunUntil(end)
    /\ UNCHANGED scenario

(* zsp_timebase_run calls the leaf frame's function with its idx. *)
ResumeThread ==
    /\ Run
    /\ loc' = [loc EXCEPT ![tb.ready_head] =
                   IF tb.leaf[tb.ready_head] > 0 THEN AtCase(Leaf(tb.ready_head).idx) ELSE @]
    /\ UNCHANGED <<program, todo, frames>>

(* There was no frame left to run. *)
ResumeNothing(t) ==
    /\ Executing(t) /\ tb.leaf[t] = 0
    /\ Leave(tb, t)
    /\ UNCHANGED <<created, parked, scenario>>

PassTime ==
    /\ UntilAdvance \/ AdvanceMove \/ AdvanceReturn \/ UntilReturn
    /\ UNCHANGED scenario

-----------------------------------------------------------------------------
(* The cases of the emitted function. *)

TaskWaits(t) ==
    /\ Reaches(t, "wait")
    /\ LET delay == Suspend(t).time
       IN  IF WaitsInline(tb, t, delay)
           THEN /\ tb' = zsp_timebase_wait(tb, t, delay)
                /\ loc' = FallThrough(t)
                /\ UNCHANGED <<frames, exec, pc, end_ticks>>
           ELSE /\ frames' = ResumeAtNext(t)
                /\ Leave(zsp_timebase_wait(tb, t, delay), t)
                /\ UNCHANGED loc
    /\ UNCHANGED <<created, parked, program, todo>>

(* zsp_timebase_call enters the callee on the same thread. *)
TaskInvokes(t) ==
    /\ Reaches(t, "invoke")
    /\ frames' = [ResumeAtNext(t) EXCEPT ![t] =
                      Append(@, NewFrame(Suspend(t).target, NoRef))]
    /\ tb' = [tb EXCEPT !.leaf = [tb.leaf EXCEPT ![t] = @ + 1]]
    /\ loc' = [loc EXCEPT ![t] = AtCase(1)]
    /\ UNCHANGED <<created, parked, exec, pc, end_ticks, program, todo>>

TaskSpawnsBranch(t) ==
    /\ Reaches(t, "par")
    /\ loc[t].spawned < Len(Suspend(t).branches)
    /\ LET k == loc[t].spawned + 1
           i == loc[t].case
       IN  /\ Enter(NewThread, Suspend(t).branches[k], ParBlock(t, Depth(t), i),
                    IF k = 1 THEN [frames EXCEPT ![t] = [@ EXCEPT ![Depth(t)].done[i] = 0]]
                             ELSE frames)
           /\ loc' = [loc EXCEPT ![t].spawned = k, ![NewThread] = AtCase(1)]
    /\ UNCHANGED <<parked, pc, end_ticks, program, todo>>

(* All branches are created: the parent blocks, or goes on with join=NONE. *)
TaskAwaitsBranches(t) ==
    /\ Reaches(t, "par")
    /\ loc[t].spawned = Len(Suspend(t).branches)
    /\ frames' = ResumeAtNext(t)
    /\ IF Suspend(t).join = "all"
       THEN Leave(block_thread(tb, t), t) /\ UNCHANGED loc
       ELSE loc' = FallThrough(t) /\ UNCHANGED <<tb, exec, pc, end_ticks>>
    /\ UNCHANGED <<created, parked, program, todo>>

(* zsp_timebase_return pops the leaf frame; a caller that may go on does.  *)
Popped(fr, t) ==
    LET gone(f) == /\ f.par.kind = "block"
                   /\ f.par.thread = t /\ f.par.depth = Len(fr[t])
    IN  [u \in Thread |->
            IF u = t THEN SubSeq(fr[t], 1, Len(fr[t]) - 1)
            ELSE [d \in DOMAIN fr[u] |->
                    IF gone(fr[u][d]) THEN [fr[u][d] EXCEPT !.par = Dangling(t)]
                    ELSE fr[u][d]]]

ReturnFrom(s, fr, t) ==
    /\ frames' = Popped(fr, t)
    /\ IF ReturnContinues(s, t)
       THEN /\ tb' = zsp_timebase_return(s, t)
            /\ loc' = [loc EXCEPT ![t] = AtCase(fr[t][Len(fr[t]) - 1].idx)]
            /\ UNCHANGED <<exec, pc, end_ticks>>
       ELSE Leave(zsp_timebase_return(s, t), t) /\ UNCHANGED loc
    /\ UNCHANGED <<created, parked, program, todo>>

(* Mutants: zsp_par_block_join_first in its place; a total one too high.   *)
join_first(total, done) == done >= 1
join_one_more(total, done) == done = total + 1

zsp_par_block_join(total, done) == done = total

(* The final case: count in the parallel block, wake the parent if that    *)
(* was the last branch, return.                                            *)
TaskEnds(t) ==
    /\ Reaches(t, "final")
    /\ Leaf(t).par.kind # "dangling"
    /\ IF Leaf(t).par.kind = "null"
       THEN ReturnFrom(tb, frames, t)
       ELSE LET b == Leaf(t).par
                parent == frames[b.thread][b.depth]
                done == parent.done[b.at] + 1
                total == Len(program[parent.action][b.at].branches)
                counted == [frames EXCEPT ![b.thread] =
                               [@ EXCEPT ![b.depth].done[b.at] = done]]
            IN  ReturnFrom(IF zsp_par_block_join(total, done)
                           THEN zsp_timebase_schedule(tb, b.thread) ELSE tb,
                           counted, t)

(* The block was in a frame that is gone: its two counters are whatever    *)
(* the memory holds.  (That the increment may change what another frame    *)
(* keeps there is not modelled.)                                           *)
TaskEndsDangling(t) ==
    /\ Reaches(t, "final")
    /\ Leaf(t).par.kind = "dangling"
    /\ \/ ReturnFrom(tb, frames, t)
       \/ ReturnFrom(zsp_timebase_schedule(tb, Leaf(t).par.thread), frames, t)

(* The first case begins with the randomization, and returns if it fails.  *)
TaskFails(t) ==
    /\ Executing(t) /\ tb.leaf[t] > 0
    /\ Leaf(t).action \in MayFail
    /\ loc[t] = AtCase(1)
    /\ ReturnFrom(tb, frames, t)

ScenarioTask(t) ==
    \/ TaskWaits(t)
    \/ TaskInvokes(t)
    \/ TaskSpawnsBranch(t)
    \/ TaskAwaitsBranches(t)
    \/ TaskEnds(t)
    \/ TaskEndsDangling(t)
    \/ TaskFails(t)
    \/ ResumeNothing(t)

(* The emitted main returns after zsp_timebase_run_until. *)
Finished == Idle /\ pc = "main" /\ todo = <<>> /\ end_ticks > 0
MainReturns == Finished /\ UNCHANGED svars

ScenarioNext ==
    \/ StartRoot
    \/ StartRun
    \/ ResumeThread
    \/ PassTime
    \/ \E t \in Thread : ScenarioTask(t)
    \/ MainReturns

ScenarioSpec == ScenarioInit /\ [][ScenarioNext]_svars

(* One C program runs: it does not pause. *)
ScenarioFairSpec == ScenarioSpec /\ WF_svars(ScenarioNext)
-----------------------------------------------------------------------------
(* Properties. *)

(* The threads that are branches of the parallel block at case i of the    *)
(* frame at depth d of t and have not ended.                               *)
LiveBranches(t, d, i) ==
    {u \in created : frames[u] # <<>> /\ frames[u][1].par = ParBlock(t, d, i)}

JoinsAll(f, i) ==
    LET body == program[f.action]
    IN  i \in DOMAIN body /\ body[i].kind = "par" /\ body[i].join = "all"

(* A parent is past a parallel block that joins all its branches only when *)
(* each has ended and was counted once.                                    *)
BranchesAreJoined ==
    \A t \in created : \A d \in DOMAIN frames[t] :
        LET f == frames[t][d]
            at == IF Executing(t) /\ d = Depth(t) THEN loc[t].case ELSE f.idx
        IN  \A i \in 1 .. at - 1 :
                JoinsAll(f, i) /\ (i < at - 1 \/ Executing(t) \/ d < Depth(t)) =>
                    /\ LiveBranches(t, d, i) = {}
                    /\ f.done[i] = Len(program[f.action][i].branches)

(* The leaf frame of t resumes after an import, whose waker the bridge knows. *)
StoppedAtImport(t) == Leaf(t).idx > 1 /\ Body(t)[Leaf(t).idx - 1].kind = "import"

(* A thread that is blocked has something that will wake it: a delay in    *)
(* the heap, a branch that has not ended, or the answer to an import.      *)
BlockedHasWaker ==
    \A t \in created :
        (tb.leaf[t] > 0 /\ "BLOCKED" \in tb.flags[t] /\ ~InExec(t)) =>
            \/ EventsOf(t) # {}
            \/ StoppedAtImport(t)
            \/ /\ JoinsAll(Leaf(t), Leaf(t).idx - 1)
               /\ LiveBranches(t, Depth(t), Leaf(t).idx - 1) # {}

(* "ScWait -> zsp_timebase_wait (... slow-path suspends)": a task does not *)
(* run on while the delay it asked for is pending.                         *)
WaitsAreNotCutShort == \A t \in created : InExec(t) => EventsOf(t) = {}

(* The scenario runs to quiescence: when main returns every task has ended. *)
ScenarioCompletes == Finished => \A t \in created : tb.leaf[t] = 0

=============================================================================
