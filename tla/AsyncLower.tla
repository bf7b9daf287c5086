----------------------------- MODULE AsyncLower -----------------------------
(***************************************************************************)
(* passes/async_lower.py and the coroutine part of passes/c_emit.py: a     *)
(* body is cut into continuations at its awaits, the variables that cross  *)
(* a cut move to the frame, and each continuation is printed as one case   *)
(* of a switch.  The run function and the entry function drive the cases.  *)
(***************************************************************************)
EXTENDS StmtGenerator

-----------------------------------------------------------------------------
(* The cuts. *)

_has_await(body) == \E e \in AllExprs(body) : e.e = "await"

IsCut(st) == _has_await(<<st>>)

(* The await of a statement that has one; of several awaits the first is   *)
(* taken, and the bodies here have statements with one.                    *)
AwaitOf(st) == CHOOSE e \in AllExprs(<<st>>) : e.e = "await"

(* The positions after which a new segment starts. *)
Cuts(body) == {i \in DOMAIN body : IsCut(body[i])}

Segments(body) ==
    LET ends   == SetToSortSeq(Cuts(body), <) \o <<Len(body)>>
        first(n) == IF n = 1 THEN 1 ELSE ends[n - 1] + 1
    IN  [n \in DOMAIN ends |-> SubSeq(body, first(n), ends[n])]

-----------------------------------------------------------------------------
(* The variables of the frame: assigned at the top level of a segment and  *)
(* read in a later one.                                                    *)

_assigns_in_stmts(stmts) ==
    {st.tgt.v : st \in {x \in ToSet(stmts) : x.s \in {"assign", "ann"}
                                             /\ x.tgt.e = "local"}}

(* The loop over the children of a statement also finds assigned names.    *)
_refs_in_stmts(stmts) ==
    {e.v : e \in {x \in AllExprs(stmts) : x.e = "local"}}
    \cup {st.tgt.v : st \in {x \in SubStmts(stmts) :
                               x.s \in {"assign", "ann", "aug"} /\ x.tgt.e = "local"}}
    \cup {st.v : st \in {x \in SubStmts(stmts) : x.s = "for"}}

frame_vars(segments) ==
    UNION {_assigns_in_stmts(segments[i]) \cap
           UNION {_refs_in_stmts(segments[j]) : j \in i + 1 .. Len(segments)}
              : i \in DOMAIN segments}

(* What ends a continuation.  wait and delay wait for a time; a name that  *)
(* is neither these nor one of a fifo or a pool is a plain call.           *)
_classify_await(e) ==
    CASE e.kind = "wait" -> "wait"
      [] e.kind = "chan" -> "fifo"
      [] OTHER           -> "call"

_split_at_awaits(body) ==
    LET segments == Segments(body)
    IN  [vars |-> frame_vars(segments) \cup
                  {e.v : e \in {x \in AllExprs(body) : x.e = "param"}},
         conts |-> [n \in DOMAIN segments |->
            [stmts   |-> segments[n],
             suspend |-> IF n \in 1 .. Len(segments) - 1
                         THEN _classify_await(AwaitOf(Last(segments[n])))
                         ELSE "complete",
             await   |-> IF n < Len(segments) THEN AwaitOf(Last(segments[n]))
                                              ELSE Num(0)]]]

-----------------------------------------------------------------------------
(* The task function.  A case declares its automatic variables anew.       *)

_emit_continuation(run, cont, vars) ==
    Exec(GenBody(cont.stmts, vars),
         [run EXCEPT !.m = [loc \in DOMAIN run.m |->
                                IF loc[1] = "auto" THEN 0 ELSE run.m[loc]]])

(* zsp_timebase_wait by a thread without competitors advances the time; in *)
(* the thread of the run function the pointer to the timebase is not set.  *)
Waits(run, cont) ==
    IF run.tb
    THEN Awaited(run, "wait", Value(cont.await.arg, run.m))
    ELSE [Logged(run, "crash", 0) EXCEPT !.sig = "return"]

(* Mutant: a call leaves the switch as well. *)
RECURSIVE TaskBreaks(_, _, _)
TaskBreaks(frame, run, idx) ==
    _emit_continuation(run, frame.conts[idx], frame.vars)

(* A call falls through into the next case, everything else leaves the     *)
(* switch.                                                                 *)
RECURSIVE Task(_, _, _), _emit_suspend_epilog(_, _, _)
Task(frame, run, idx) ==
    _emit_suspend_epilog(frame, idx, _emit_continuation(run, frame.conts[idx], frame.vars))

_emit_suspend_epilog(frame, idx, after) ==
    LET kind == frame.conts[idx].suspend
    IN  CASE after.sig \in {"return", "halted"} \/ kind \in {"complete", "fifo"} -> after
          [] kind = "call" -> Task(frame, after, idx + 1)
          [] kind = "wait" -> Waits(after, frame.conts[idx])

(* {name}_run: each process gets its task called once, at index 0.  The    *)
(* request to halt is cleared before, and a halt comes back to here.       *)
_emit_run_fn(frame, run) == Task(frame, run, 1)

(* The entry function calls the cases one after the other, whatever the    *)
(* call before has done.                                                   *)
_emit_coroutine_entry_fn(frame, run) ==
    FoldLeft(LAMBDA acc, idx : Task(frame, [acc EXCEPT !.sig = "run"], idx),
             run, [n \in DOMAIN frame.conts |-> n])

(* A run of a frame.  tb: the thread knows its timebase. *)
StartFrame(m, tb) == Start(m) @@ [tb |-> tb]

-----------------------------------------------------------------------------
(* What the two drivers can be relied on for.                              *)

NestedAwait(st, kinds) ==
    \E e \in AllExprs(Inner(st)) : e.e = "await" /\ e.kind \in kinds

(* A name set inside a block of one continuation is not read in a later    *)
(* one, unless the frame has it for another reason.                        *)
NestedNamesStay(body) ==
    LET segments == Segments(body)
        vars     == frame_vars(segments)
        nested(i) == {st.tgt.v : st \in
                        {x \in SubStmts(segments[i]) :
                            /\ x.s \in {"assign", "ann", "aug"} /\ x.tgt.e = "local"
                            /\ x \notin ToSet(segments[i]) \/ x.s = "aug"}}
    IN  \A i \in DOMAIN segments : \A j \in i + 1 .. Len(segments) :
            nested(i) \cap _refs_in_stmts(segments[j]) \subseteq vars

KindsAwaited(body) == {e.kind : e \in {x \in AllExprs(body) : x.e = "await"}}

(* A loop variable in the frame is declared as "int locals->i".            *)
LoopVarsStay(body) ==
    \A st \in SubStmts(body) :
        st.s = "for" => st.v \notin frame_vars(Segments(body))

RunReliable(body) ==
    /\ ReliableBody(body) /\ NestedNamesStay(body) /\ LoopVarsStay(body)
    /\ KindsAwaited(body) \subseteq {"port"}

EntryReliable(body) ==
    /\ ReliableBody(body) /\ NestedNamesStay(body) /\ LoopVarsStay(body)
    /\ KindsAwaited(body) \subseteq {"wait"}
    /\ \A st \in ToSet(body) : ~NestedAwait(st, {"wait"})
    /\ \A st \in ToSet(body) : st.s # "return" /\ \A x \in SubStmts(<<st>>) : x.s # "return"
=============================================================================
