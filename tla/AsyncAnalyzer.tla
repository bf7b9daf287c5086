--------------------------- MODULE AsyncAnalyzer ----------------------------
(***************************************************************************)
(* Which asynchronous methods may become synchronous ones: the walk over   *)
(* one body in async_analyzer.py, and the fixed point over the calls of    *)
(* one component in passes/async_lower.py.                                 *)
(***************************************************************************)
EXTENDS DmProgram

(* The walk of async_analyzer.py.  What it does not know it passes over.   *)
RECURSIVE _analyze_expr(_)
_analyze_expr(e) ==
    CASE e.e = "await"                       -> FALSE
      [] e.e \in {"bin", "unary", "compare"} -> \A x \in ToSet(Operands(e)) : _analyze_expr(x)
      [] OTHER                               -> TRUE

RECURSIVE _analyze_statement(_)
_analyze_statement(st) ==
    CASE st.s \in {"do", "assign", "return", "call"} -> _analyze_expr(st.e)
      [] st.s \in {"if", "while"} ->
            _analyze_expr(st.e) /\ \A x \in ToSet(Inner(st)) : _analyze_statement(x)
      [] st.s = "for" ->
            /\ \A e \in ToSet(st.args) : _analyze_expr(e)
            /\ \A x \in ToSet(Inner(st)) : _analyze_statement(x)
      [] OTHER -> TRUE

_can_convert_to_sync(body) == \A st \in ToSet(body) : _analyze_statement(st)

(* The statements and expressions that are visited. *)
Visited(body) ==
    /\ \A st \in SubStmts(body) : st.s \notin {"ann", "aug", "match"}
    /\ \A e \in AllExprs(body)  : e.e \notin {"bool", "ifexp"}

-----------------------------------------------------------------------------
(* The fixed point of async_lower.py.  A component has functions, some of  *)
(* which await, are imported, or belong to a protocol (pinned); calls[f]   *)
(* holds the names f calls.  A map gives "true", "false" or "unknown".     *)

_classify_function(map, comp, f) ==
    IF \/ f \in comp.pinned
       \/ f \in comp.awaits
       \/ \E g \in comp.calls[f] : map[g] = "false"
    THEN "false" ELSE "true"

(* One round over the functions in the order of the component. *)
Round(map, comp) ==
    FoldLeft(LAMBDA m, f : [m EXCEPT ![f] = _classify_function(m, comp, f)],
             map, comp.order)

RECURSIVE RoundsFrom(_, _)
RoundsFrom(map, comp) ==
    LET next == Round(map, comp)
    IN  IF next = map THEN map ELSE RoundsFrom(next, comp)

_classify_all(comp) ==
    RoundsFrom([f \in ToSet(comp.order) |->
                    IF f \in comp.pinned THEN "false" ELSE "unknown"], comp)

RECURSIVE Reached(_, _)
Reached(comp, from) ==
    LET next == from \cup UNION {comp.calls[f] : f \in from}
    IN  IF next = from THEN from ELSE Reached(comp, next)

(* A function suspends if a call leads from it to an await. *)
MaySuspend(comp, f) == Reached(comp, {f}) \cap (comp.pinned \cup comp.awaits) # {}
=============================================================================
