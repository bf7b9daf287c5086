----------------------- MODULE DmAsyncMethodGenerator -----------------------
(***************************************************************************)
(* dm_async_generator.py: a method body as a coroutine for the timebase.   *)
(* All locals live in the frame.  The body is cut where a statement is an  *)
(* await; awaits further inside are printed in place.  A body with an      *)
(* endless loop that awaits becomes two cases that take turns.             *)
(***************************************************************************)
EXTENDS StmtGenerator

-----------------------------------------------------------------------------
(* Text of expressions and statements. *)

RECURSIVE _gen_expr(_)
_gen_expr(e) ==
    CASE e.e = "const"              -> <<Lit(e.n)>>
      [] e.e \in {"local", "param"} -> << <<"frame", e.v>> >>
      [] e.e = "field"              -> << <<"self", e.v>> >>
      [] e.e = "bin" -> Paren(_gen_expr(e.l) \o <<Op(_get_dm_binop(e.op))>> \o _gen_expr(e.r))
      [] OTHER       -> <<Bad>>

(* An await that is printed in place: a port is called at once; a delay, a *)
(* channel or a method is begun, and nothing waits for it.                 *)
InPlace(st) ==
    IF st.e.kind = "port"
    THEN LET called == Await("port", Text(_gen_expr(st.e.arg)))
         IN  IF st.s = "do" THEN Do(called) ELSE Assign(Text(_gen_expr(st.tgt)), called)
    ELSE [s |-> "begun"]

(* The variable of the C loop is not the one of the frame, which the body  *)
(* reads.                                                                  *)
_gen_range_for(v, args, body) ==
    LET start == IF Len(args) = 1 THEN <<Lit(0)>> ELSE args[1]
        end   == IF Len(args) = 1 THEN args[1] ELSE args[2]
        step  == IF Len(args) = 3 THEN args[3] ELSE <<Lit(1)>>
        var   == <<"auto", v>>
    IN  [s |-> "cfor", v |-> var, body |-> body,
         args |-> <<Text(start), Text(<<var, Op("<")>> \o end), Text(step)>>]

_gen_while_stmt(test, body) == _gen_dm_while(test, body)

Unsupported == {"aug", "match", "break", "continue"}

RECURSIVE _gen_stmt(_)
_gen_stmt(st) ==
    LET gen(e)    == Text(_gen_expr(e))
        all(body) == [i \in DOMAIN body |-> _gen_stmt(body[i])]
    IN  CASE st.s \in {"assign", "ann", "do"} /\ st.e.e = "await" -> InPlace(st)
          [] st.s \in {"assign", "ann"} /\ st.e.e # "await" -> Assign(gen(st.tgt), gen(st.e))
          [] st.s = "call"   -> Call(st.f, gen(st.e))
          [] st.s = "return" -> Return(gen(st.e))
          [] st.s = "if"     -> If(gen(st.e), all(st.body), all(st.orelse))
          [] st.s = "while"  -> _gen_while_stmt(gen(st.e), all(st.body))
          [] st.s = "for"    -> _gen_range_for(st.v, [i \in DOMAIN st.args |->
                                                        _gen_expr(st.args[i])],
                                               all(st.body))

_gen_body(body) == [i \in DOMAIN body |-> _gen_stmt(body[i])]

-----------------------------------------------------------------------------
(* Cutting. *)

_find_await(st) == st.s \in {"do", "assign", "return"} /\ st.e.e = "await"

RECURSIVE _body_has_await(_)
_body_has_await(body) ==
    \E st \in ToSet(body) :
        _find_await(st) \/ (st.s \in {"if", "while", "for"} /\ _body_has_await(Inner(st)))

NoStmt == [s |-> "nop"]

_split_at_awaits(body) ==
    LET cuts == SetToSortSeq({i \in DOMAIN body : _find_await(body[i])}, <)
        first(n) == IF n = 1 THEN 1 ELSE cuts[n - 1] + 1
    IN  [n \in 1 .. Len(cuts) + 1 |->
            IF n <= Len(cuts)
            THEN [stmts |-> SubSeq(body, first(n), cuts[n] - 1), at |-> body[cuts[n]]]
            ELSE [stmts |-> SubSeq(body, first(n), Len(body)),   at |-> NoStmt]]

(* The first endless loop, 0 if there is none. *)
_extract_infinite_loop(body) ==
    LET loops == {i \in DOMAIN body : body[i].s = "while" /\ body[i].e = Num(1)}
    IN  IF loops = {} THEN 0 ELSE CHOOSE i \in loops : \A j \in loops : i <= j

IsLoopCoroutine(body) ==
    LET at == _extract_infinite_loop(body)
    IN  at # 0 /\ _body_has_await(body[at].body)

(* The position of the first await in the body of the loop, 0 if it is     *)
(* further inside; the generator raises an error then.                     *)
_split_body_at_first_await(body) ==
    LET cuts == {i \in DOMAIN body : _find_await(body[i])}
    IN  IF cuts = {} THEN 0 ELSE CHOOSE i \in cuts : \A j \in cuts : i <= j

Rejects(body) ==
    \/ body = << >>
    \/ \E st \in SubStmts(body) : st.s \in Unsupported
    \/ /\ IsLoopCoroutine(body)
       /\ _split_body_at_first_await(body[_extract_infinite_loop(body)].body) = 0

-----------------------------------------------------------------------------
(* Running the cases under the timebase. *)

(* The thread is resumed after the await, at the index stored before it,   *)
(* or falls through when the time could be advanced at once.  A method of  *)
(* the component ends with zsp_timebase_return(thread, 0).                 *)
_gen_await_code(st, run) ==
    LET after == Awaited(run, st.e.kind, CVal(_gen_expr(st.e.arg), run.m))
    IN  IF st.e.kind = "method" THEN [after EXCEPT !.rval = 0] ELSE after

(* The first thing the next case does. *)
TakeResult(st, run) ==
    IF st.s = "assign" THEN Set(run, _gen_expr(st.tgt)[1], run.rval) ELSE run

(* "return e" in a task returns e in the place of the frame. *)
Returned(run) == [Logged(run, "crash", 0) EXCEPT !.sig = "return"]

RECURSIVE RunBlocks(_, _, _), BlockEnds(_, _, _)
RunBlocks(blocks, i, run) == BlockEnds(blocks, i, Exec(_gen_body(blocks[i].stmts), run))

BlockEnds(blocks, i, after) ==
    IF after.sig = "return" THEN (IF after.fuel = 0 THEN after ELSE Returned(after))
    ELSE IF after.sig = "halted" \/ i = Len(blocks) THEN after
    ELSE RunBlocks(blocks, i + 1, TakeResult(blocks[i].at,
                                             _gen_await_code(blocks[i].at, after)))

(* Case 0 runs what is before the loop and the first turn up to the await; *)
(* case 1 the rest of the turn and the next one up to the await; both look *)
(* for the request to halt before the turn.  There is no semicolon after a *)
(* delay.                                                                  *)
AfterAwait(loop, at, run) ==
    IF run.sig \in {"return", "halted"} THEN run
    ELSE Exec(_gen_body(SubSeq(loop, at + 1, Len(loop))),
              TakeResult(loop[at], _gen_await_code(loop[at], run)))

RECURSIVE Turns(_, _), LoopTurnEnds(_, _)
Turns(loop, run) ==
    LET at == _split_body_at_first_await(loop)
    IN  IF run.fuel = 0 THEN OutOfFuel(run)
        ELSE LoopTurnEnds(loop, AfterAwait(loop, at,
                               Exec(<<HaltCheck>> \o _gen_body(SubSeq(loop, 1, at - 1)),
                                                      [run EXCEPT !.fuel = @ - 1])))

LoopTurnEnds(loop, after) ==
    CASE after.sig = "return" -> Returned(after)
      [] after.sig = "halted" -> after
      [] OTHER                -> Turns(loop, after)

_generate_infinite_loop_coroutine(body, run) ==
    LET at == _extract_infinite_loop(body)
    IN  Turns(body[at].body, Exec(_gen_body(SubSeq(body, 1, at - 1)), run))

generate(body, run) ==
    IF IsLoopCoroutine(body)
    THEN _generate_infinite_loop_coroutine(body, run)
    ELSE RunBlocks(_split_at_awaits(body), 1, run)

-----------------------------------------------------------------------------
(* What the coroutine can be relied on for: awaits of channels, methods    *)
(* and delays that are statements of their own, at the top level, or the   *)
(* first one in the endless loop.                                          *)

PrintedInPlace(body) ==
    LET at   == _extract_infinite_loop(body)
        loop == body[at].body
        cut  == _split_body_at_first_await(loop)
    IN  IF IsLoopCoroutine(body)
        THEN SubSeq(body, 1, at - 1) \o SubSeq(loop, 1, cut - 1)
                                     \o SubSeq(loop, cut + 1, Len(loop))
        ELSE SelectSeq(body, LAMBDA st : ~_find_await(st))

DmReliable(body) ==
    /\ ReliableBody(body)
    /\ ~Rejects(body)
    /\ \A e \in AllExprs(body) : e.e \in {"const", "local", "param", "field", "bin", "await"}
    /\ \A st \in SubStmts(body) :
          /\ st.s # "return"
          /\ st.s = "for" => <<"auto", st.v>> \notin Read(AllExprs(st.body))
          /\ st.s = "assign" /\ st.e.e = "await" => st.e.kind \in {"port", "chan"}
    /\ \A e \in AllExprs(PrintedInPlace(body)) : e.e = "await" => e.kind = "port"
    /\ IsLoopCoroutine(body) =>
          LET loop == body[_extract_infinite_loop(body)].body
          IN  loop[_split_body_at_first_await(loop)].e.kind # "wait"
=============================================================================
