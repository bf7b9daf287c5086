----------------------------- MODULE WaitLatency ----------------------------
(***************************************************************************)
(* The static latency of the async methods of a component                  *)
(* (WaitPointAnalysisPass), and the two passes that act on it: methods     *)
(* that lose their coroutine frame (FrameEliminatePass) and threads of the *)
(* bulk-synchronous scheduler (BulkSyncSchedulerPass).                     *)
(*                                                                         *)
(* A component is [order, body, async]: its methods in their order, their  *)
(* bodies, and those that are async.  An awaited call is                   *)
(* Await(<<base, name>>, arg), base being "self" or a port; an awaited     *)
(* object that is not a call is Await(<<"object", name>>, arg).            *)
(***************************************************************************)
EXTENDS DmProgram

CONSTANTS Unbounded,      \* sys.maxsize
          CallTimes,      \* how long a call that leaves the component may take
          Turns           \* how often a loop may turn in the reference

(* MethodLatency *)
Latency(min, max, has) == [min_ps |-> min, max_ps |-> max, has_wait |-> has]
NoWait == Latency(0, 0, FALSE)

PicoSeconds == [wait_ps |-> 1, wait_ns |-> 1000, wait_us |-> 1000000,
                ns |-> 1000, us |-> 1000000, ps |-> 1]

(* The delay of a wait whose argument is a literal; -1 stands for None.    *)
_extract_wait_ps(name, arg) ==
    IF name \in DOMAIN PicoSeconds /\ arg.e = "const"
    THEN arg.n * PicoSeconds[name] ELSE -1

(* A method is found by its bare name, whatever object it is called on.    *)
_find_method(comp, name) == IF name \in ToSet(comp.order) THEN {name} ELSE {}

Plus(a, b) == IF a = Unbounded \/ b = Unbounded THEN Unbounded ELSE a + b

(* Statements that follow each other. *)
After(a, b) == Latency(a.min_ps + b.min_ps, Plus(a.max_ps, b.max_ps),
                       a.has_wait \/ b.has_wait)
InOrder(ls) == FoldSeq(LAMBDA l, acc : After(acc, l), NoWait, ls)

(* Mutant: an if always takes its branch. *)
either_is_taken(st, then, else) ==
    Latency(then.min_ps, Max({then.max_ps, else.max_ps}), then.has_wait \/ else.has_wait)

(* The branches of an if. *)
Either(st, then, else) ==
    LET hw == then.has_wait \/ else.has_wait
    IN  IF st.body = << >> THEN Latency(else.min_ps, else.max_ps, hw)
        ELSE IF st.orelse = << >> THEN Latency(0, then.max_ps, hw)
        ELSE Latency(Min({then.min_ps, else.min_ps}),
                     Max({then.max_ps, else.max_ps}), hw)

Looped(l) == IF l.has_wait THEN Latency(0, Unbounded, TRUE) ELSE NoWait

RECURSIVE _analyze(_, _, _), _scan_stmts(_, _, _), _scan_stmt(_, _, _),
          _scan_expr(_, _, _), _scan_await(_, _, _)

_scan_await(e, comp, visited) ==
    LET ps     == _extract_wait_ps(e.kind[2], e.arg)
        callee == _find_method(comp, e.kind[2])
        a_wait == e.kind[1] = "self" /\ e.kind[2] \in DOMAIN PicoSeconds \cup
                                                      {"wait", "wait_cycles"}
    IN  IF e.kind[1] = "object" THEN Latency(0, 0, TRUE)
        ELSE IF ps # -1 THEN Latency(ps, ps, TRUE)
        ELSE IF callee # {} /\ ~a_wait
        THEN _analyze(CHOOSE f \in callee : TRUE, comp, visited)
        ELSE Latency(0, Unbounded, TRUE)

(* Only the arguments of a call are searched, up to the first one that     *)
(* waits; the operands of an operator are not.                             *)
_scan_expr(e, comp, visited) ==
    CASE e.e = "await" -> _scan_await(e, comp, visited)
      [] e.e = "args"  ->
            LET found == {i \in DOMAIN e.vs :
                              _scan_expr(e.vs[i], comp, visited).has_wait}
            IN  IF found = {} THEN NoWait
                ELSE _scan_expr(e.vs[Min(found)], comp, visited)
      [] OTHER         -> NoWait

_scan_stmt(st, comp, visited) ==
    CASE st.s \in {"do", "assign"} -> _scan_expr(st.e, comp, visited)
      [] st.s = "if"               -> Either(st, _scan_stmts(st.body, comp, visited),
                                                 _scan_stmts(st.orelse, comp, visited))
      [] st.s \in {"while", "for"} -> Looped(_scan_stmts(st.body, comp, visited))
      [] OTHER                     -> NoWait

_scan_stmts(stmts, comp, visited) ==
    InOrder([i \in DOMAIN stmts |-> _scan_stmt(stmts[i], comp, visited)])

_analyze(f, comp, visited) ==
    IF f \in visited THEN Latency(0, Unbounded, TRUE)
    ELSE _scan_stmts(comp.body[f], comp, visited \cup {f})

(* WaitPointAnalysisPass.run *)
method_latencies(comp) == [f \in comp.async |-> _analyze(f, comp, {})]

(* FrameEliminatePass.run *)
frame_eliminable(comp) ==
    {f \in comp.async : ~method_latencies(comp)[f].has_wait}

(* BulkSyncSchedulerPass.run: the first of the well known methods. *)
bulk_sync_entries(comp) ==
    LET threads == {i \in DOMAIN comp.order :
                        /\ comp.order[i] \in {"run", "execute", "body", "main"}
                        /\ comp.order[i] \in comp.async
                        /\ method_latencies(comp)[comp.order[i]].has_wait}
    IN  IF threads = {} THEN {} ELSE {comp.order[Min(threads)]}

-----------------------------------------------------------------------------
(* Reference: what can happen when a body runs, as a set of [t, waits,     *)
(* over]: the time it takes, whether it suspends, and whether it has       *)
(* returned.  Calls are followed to a depth; deeper runs are left out.     *)

Nothing == [t |-> 0, waits |-> FALSE, over |-> FALSE]
Joined(p, q) == [t |-> p.t + q.t, waits |-> p.waits \/ q.waits, over |-> q.over]

RECURSIVE Runs(_, _, _), RunsOf(_, _, _), RunsOfExpr(_, _, _), Loops(_, _, _, _)

RunsOfExpr(e, comp, depth) ==
    CASE e.e = "await" ->
            LET for(t) == [t |-> t, waits |-> TRUE, over |-> FALSE]
                name   == e.kind[2]
            IN  IF e.kind[1] = "self" /\ name \in ToSet(comp.order)
                THEN IF depth = 0 THEN {}
                     ELSE {[r EXCEPT !.over = FALSE] :
                              r \in Runs(comp.body[name], comp, depth - 1)}
                ELSE IF e.kind[1] = "self" /\ name \in DOMAIN PicoSeconds
                        /\ e.arg.e = "const"
                THEN {for(e.arg.n * PicoSeconds[name])}
                ELSE {for(t) : t \in CallTimes}
      [] e.e \in {"args", "bin"} ->
            LET parts == IF e.e = "bin" THEN <<e.l, e.r>> ELSE e.vs
            IN  FoldSeq(LAMBDA x, acc :
                            {Joined(p, q) : p \in acc, q \in RunsOfExpr(x, comp, depth)},
                        {Nothing}, parts)
      [] OTHER -> {Nothing}

Loops(body, comp, depth, n) ==
    IF n = 0 THEN {Nothing}
    ELSE {Nothing} \cup
         UNION {IF p.over THEN {p}
                ELSE {Joined(p, q) : q \in Loops(body, comp, depth, n - 1)}
                : p \in Runs(body, comp, depth)}

RunsOf(st, comp, depth) ==
    CASE st.s \in {"do", "assign", "ann", "aug"} -> RunsOfExpr(st.e, comp, depth)
      [] st.s = "return" -> {[r EXCEPT !.over = TRUE] :
                                r \in RunsOfExpr(st.e, comp, depth)}
      [] st.s = "if"     -> UNION {{Joined(p, q) : q \in Runs(b, comp, depth)} :
                                p \in RunsOfExpr(st.e, comp, depth),
                                b \in {st.body, st.orelse}}
      [] st.s \in {"while", "for"} -> Loops(st.body, comp, depth, Turns)
      [] OTHER           -> {Nothing}

Runs(body, comp, depth) ==
    IF body = << >> THEN {Nothing}
    ELSE UNION {IF p.over THEN {p}
                ELSE {Joined(p, q) : q \in Runs(Tail(body), comp, depth)}
                : p \in RunsOf(Head(body), comp, depth)}

(* The bodies the pass understands: awaits are whole statements or whole   *)
(* arguments of which only one waits, no object is awaited, a call goes to *)
(* the component's own method of that name, nothing returns early, and an  *)
(* if has a body (without one its minimum is that of the other branch).    *)
Awaits(e) == {x \in SubExprs(e) : x.e = "await"}

RECURSIVE Follows(_, _)
Follows(e, comp) ==
    CASE e.e = "await" -> /\ e.kind[1] # "object"
                          /\ e.kind[1] # "self" => e.kind[2] \notin ToSet(comp.order)
      [] e.e = "args"  -> /\ Cardinality({i \in DOMAIN e.vs : e.vs[i].e = "await"}) <= 1
                          /\ \A i \in DOMAIN e.vs : Follows(e.vs[i], comp)
      [] e.e = "bin"   -> Awaits(e) = {}
      [] OTHER         -> TRUE

Understood(comp) ==
    \A f \in ToSet(comp.order) : \A st \in SubStmts(comp.body[f]) :
        /\ st.s # "return"
        /\ st.s = "if" => st.body # << >>
        /\ st.s \in {"do", "assign"} => Follows(st.e, comp)
        /\ st.s \notin {"do", "assign"} =>
               \A e \in ToSet(Exprs(st)) : Awaits(e) = {}

-----------------------------------------------------------------------------
(* The bounds of a method hold for every path through it. *)
LatenciesBound(comp) ==
    Understood(comp) =>
        \A f \in comp.async : \A r \in Runs(comp.body[f], comp, 2) :
            LET l == method_latencies(comp)[f]
            IN  /\ l.min_ps <= r.t
                /\ l.max_ps = Unbounded \/ r.t <= l.max_ps

(* A method that loses its frame never suspends, and a component whose     *)
(* first well known method suspends has its thread registered.             *)
FramesOnlyForWaits(comp) ==
    Understood(comp) =>
        /\ \A f \in frame_eliminable(comp) : \A r \in Runs(comp.body[f], comp, 2) :
               ~r.waits
        /\ \A f \in comp.async \cap {"run"} :
               (\E r \in Runs(comp.body[f], comp, 2) : r.waits)
                   => bulk_sync_entries(comp) # {}
=============================================================================
