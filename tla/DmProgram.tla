----------------------------- MODULE DmProgram ------------------------------
(***************************************************************************)
(* Method bodies of the data model (zuspec.ir.core), what Python makes of  *)
(* them, and what C makes of the text the generators print.  It is the     *)
(* yardstick of the generators' modules: a body and the C emitted for it   *)
(* are run from the same memory, and their logs are compared.              *)
(*                                                                         *)
(* A memory maps a location <<store, name>> to an integer.  The stores are *)
(* the automatic variables of a function, the frame of a coroutine, and    *)
(* the component.  A log holds the calls in their order, each with its     *)
(* argument and the time at which it happens, and the result returned.     *)
(***************************************************************************)
EXTENDS Integers, Sequences, FiniteSets, SequencesExt

CONSTANTS Fuel,        \* turns of loops that a run may take
          AwaitValue   \* AwaitValue[n]: what the n-th await yields

(* What an automatic variable or a frame member holds before it is set.    *)
Garbage == 77

-----------------------------------------------------------------------------
(* Expressions and statements of the data model. *)

Num(n)               == [e |-> "const", n |-> n]
Var(v)               == [e |-> "local", v |-> v]
Param(v)             == [e |-> "param", v |-> v]
Field(v)             == [e |-> "field", v |-> v]
Elem(a)              == [e |-> "elem", v |-> a]   \* the element of an array
Bin(op, l, r)        == [e |-> "bin", op |-> op, l |-> l, r |-> r]
Unary(op, x)         == [e |-> "unary", op |-> op, x |-> x]
Compare(l, ops, rs)  == [e |-> "compare", l |-> l, ops |-> ops, rs |-> rs]
BoolOp(op, vs)       == [e |-> "bool", op |-> op, vs |-> vs]
IfExp(t, b, o)       == [e |-> "ifexp", t |-> t, b |-> b, o |-> o]
Await(kind, arg)     == [e |-> "await", kind |-> kind, arg |-> arg]

Assign(tgt, e)       == [s |-> "assign", tgt |-> tgt, e |-> e]
AnnAssign(tgt, e)    == [s |-> "ann", tgt |-> tgt, e |-> e]
AugAssign(tgt, op, e)== [s |-> "aug", tgt |-> tgt, op |-> op, e |-> e]
Call(f, e)           == [s |-> "call", f |-> f, e |-> e]   \* see below
Do(e)                == [s |-> "do", e |-> e]
If(e, body, orelse)  == [s |-> "if", e |-> e, body |-> body, orelse |-> orelse]
While(e, body)       == [s |-> "while", e |-> e, body |-> body]
For(v, args, body)   == [s |-> "for", v |-> v, args |-> args, body |-> body]
Match(e, cases)      == [s |-> "match", e |-> e, cases |-> cases]
Case(p, body)        == [p |-> p, body |-> body]
Return(e)            == [s |-> "return", e |-> e]
Break                == [s |-> "break"]
Continue             == [s |-> "continue"]

(* A call is what the outside sees of a run.  Call("print", e) stands for   *)
(* print("%d" % e), which prints the number on both sides.                 *)

(* The statements directly inside a statement. *)
Inner(st) ==
    CASE st.s = "if"              -> st.body \o st.orelse
      [] st.s \in {"while","for"} -> st.body
      [] st.s = "match"           -> FlattenSeq([i \in DOMAIN st.cases |->
                                                    st.cases[i].body])
      [] OTHER                    -> << >>

(* The expressions directly inside a statement. *)
Exprs(st) ==
    CASE st.s \in {"assign", "ann", "aug", "call", "do", "if", "while",
                   "match", "setattr"}         -> <<st.e>>
      [] st.s = "return"                       -> <<st.e>>
      [] st.s = "for"                          -> st.args
      [] OTHER                                 -> << >>

Operands(e) ==
    CASE e.e = "bin"     -> <<e.l, e.r>>
      [] e.e = "unary"   -> <<e.x>>
      [] e.e = "compare" -> <<e.l>> \o e.rs
      [] e.e \in {"bool", "args"} -> e.vs
      [] e.e = "ifexp"   -> <<e.t, e.b, e.o>>
      [] e.e = "await"   -> <<e.arg>>
      [] OTHER           -> << >>

RECURSIVE SubExprs(_)
SubExprs(e) == {e} \cup UNION {SubExprs(x) : x \in ToSet(Operands(e))}

RECURSIVE SubStmts(_)
SubStmts(body) ==
    ToSet(body) \cup UNION {SubStmts(Inner(st)) : st \in ToSet(body)}

AllExprs(body) ==
    UNION {UNION {SubExprs(e) : e \in ToSet(Exprs(st))} : st \in SubStmts(body)}

-----------------------------------------------------------------------------
(* Operators with the same meaning in Python and in C.                     *)

AsInt(b) == IF b THEN 1 ELSE 0

Comparisons == {"==", "!=", "<", "<=", ">", ">="}

Holds(op, a, b) ==
    CASE op = "==" -> a = b   [] op = "!=" -> a # b
      [] op = "<"  -> a < b   [] op = "<=" -> a <= b
      [] op = ">"  -> a > b   [] op = ">=" -> a >= b

Arith(op, a, b) ==
    CASE op = "+"  -> a + b  [] op = "-"  -> a - b  [] op = "*" -> a * b
      [] op = "<<" -> a * 2 ^ b
      [] op = ">>" -> a \div 2 ^ b
      [] op \in Comparisons -> AsInt(Holds(op, a, b))

(* Python.  Division rounds down, a chain of comparisons is their          *)
(* conjunction, and "and" and "or" yield the operand that decides.         *)
PyArith(op, a, b) ==
    CASE op = "//" -> a \div b  [] op = "%" -> a % b  [] OTHER -> Arith(op, a, b)

PyUnary(op, a) == IF op = "not" THEN AsInt(a = 0) ELSE -a

PyChain(ops, vs) == AsInt(\A i \in DOMAIN ops : Holds(ops[i], vs[i], vs[i + 1]))

Deciding(op, vs) ==
    LET decides == {i \in DOMAIN vs : (vs[i] = 0) = (op = "and")}
    IN  vs[IF decides = {} THEN Len(vs) ELSE CHOOSE i \in decides : \A j \in decides : i <= j]

RECURSIVE PyVal(_, _)
PyVal(e, m) ==
    CASE e.e = "const"   -> e.n
      [] e.e \in {"local", "param"} -> m[<<"auto", e.v>>]
      [] e.e \in {"field", "elem"}  -> m[<<"self", e.v>>]
      [] e.e = "bin"     -> PyArith(e.op, PyVal(e.l, m), PyVal(e.r, m))
      [] e.e = "unary"   -> PyUnary(e.op, PyVal(e.x, m))
      [] e.e = "compare" -> PyChain(e.ops, [i \in 1 .. Len(e.rs) + 1 |->
                                               PyVal(IF i = 1 THEN e.l ELSE e.rs[i - 1], m)])
      [] e.e = "bool"    -> Deciding(e.op, [i \in DOMAIN e.vs |-> PyVal(e.vs[i], m)])
      [] e.e = "ifexp"   -> PyVal(IF PyVal(e.t, m) # 0 THEN e.b ELSE e.o, m)

-----------------------------------------------------------------------------
(* C.  A text is a sequence of tokens: <<"op", "+">>, <<"num", 3>>, and an *)
(* operand <<store, name>>.  <<"bad", _>> stands for what is no C: a       *)
(* comment in the place of an operand, an "else" without an "if".          *)

Op(o)  == <<"op", o>>
Lit(n) == <<"num", n>>
Bad    == <<"bad", "unsupported">>
Paren(text) == <<Op("(")>> \o text \o <<Op(")")>>

IsOp(tok, ops) == tok[1] = "op" /\ tok[2] \in ops

LevelsOfC == << {"?"}, {"||"}, {"&&"}, {"==", "!="}, {"<", "<=", ">", ">="},
                {"<<", ">>"}, {"+", "-"}, {"*", "/", "%"} >>
OpsOfC == UNION ToSet(LevelsOfC)

DepthAt(text, i) ==
    Cardinality({j \in 1 .. i - 1 : IsOp(text[j], {"("})})
  - Cardinality({j \in 1 .. i     : IsOp(text[j], {")"})})

(* The binary operators outside of parentheses.  An operator after another *)
(* one is a prefix.                                                        *)
Outside(text, ops) ==
    {i \in 2 .. Len(text) - 1 :
        /\ IsOp(text[i], ops)
        /\ DepthAt(text, i) = 0
        /\ ~IsOp(text[i - 1], OpsOfC \cup {"!", ":"})}

TruncDiv(a, b) == IF a >= 0 THEN a \div b ELSE -((-a) \div b)

CBin(op, a, b) ==
    CASE op = "||" -> AsInt(a # 0 \/ b # 0)
      [] op = "&&" -> AsInt(a # 0 /\ b # 0)
      [] op = "/"  -> TruncDiv(a, b)
      [] op = "%"  -> a - b * TruncDiv(a, b)
      [] OTHER     -> Arith(op, a, b)

(* The operator that binds least is applied last; of several of one level  *)
(* the rightmost one.                                                      *)
Levels(text) == {k \in DOMAIN LevelsOfC : Outside(text, LevelsOfC[k]) # {}}
Weakest(text) == CHOOSE k \in Levels(text) : \A o \in Levels(text) : k <= o
Rightmost(found) == CHOOSE i \in found : \A j \in found : j <= i
Colon(text) == CHOOSE i \in DOMAIN text : IsOp(text[i], {":"}) /\ DepthAt(text, i) = 0

RECURSIVE CVal(_, _), CSplit(_, _, _, _), CSelect(_, _, _)
CVal(text, m) ==
    IF Levels(text) # {}
    THEN CSplit(text, m, Weakest(text), Rightmost(Outside(text, LevelsOfC[Weakest(text)])))
    ELSE CASE IsOp(text[1], {"!"})  -> AsInt(CVal(Tail(text), m) = 0)
           [] IsOp(text[1], {"-"})  -> -CVal(Tail(text), m)
           [] IsOp(text[1], {"("})  -> CVal(SubSeq(text, 2, Len(text) - 1), m)
           [] text[1][1] = "num"    -> text[1][2]
           [] OTHER                 -> m[text[1]]

CSplit(text, m, level, at) ==
    IF level = 1
    THEN CSelect(CVal(SubSeq(text, 1, at - 1), m), SubSeq(text, at + 1, Len(text)), m)
    ELSE CBin(text[at][2], CVal(SubSeq(text, 1, at - 1), m),
                           CVal(SubSeq(text, at + 1, Len(text)), m))

CSelect(test, text, m) ==
    CVal(IF test # 0 THEN SubSeq(text, 1, Colon(text) - 1)
                     ELSE SubSeq(text, Colon(text) + 1, Len(text)), m)

Text(toks) == [e |-> "text", toks |-> toks]

Value(e, m) == IF e.e = "text" THEN CVal(e.toks, m) ELSE PyVal(e, m)

-----------------------------------------------------------------------------
(* Running.  A run is in one of the states sig: it goes on, or leaves a    *)
(* loop, a turn of it, or the body, or is halted: longjmp takes it out of  *)
(* everything.  The host asks for the halt in the call that makes the log  *)
(* "halt" long; 0 if it never does.                                        *)

Loc(tgt) ==
    CASE tgt.e = "text"  -> tgt.toks[1]
      [] tgt.e \in {"local", "param"} -> <<"auto", tgt.v>>
      [] tgt.e \in {"field", "elem"} -> <<"self", tgt.v>>

Start(m) == [m |-> m, log |-> << >>, t |-> 0, k |-> 1, rval |-> 0,
             fuel |-> Fuel, halt |-> 0, sig |-> "run"]

Set(run, loc, v) == [run EXCEPT !.m = [run.m EXCEPT ![loc] = v]]
Logged(run, what, v) == [run EXCEPT !.log = Append(run.log, <<what, v, run.t>>)]

(* An await that has come to its end.  Delays yield nothing. *)
Awaited(run, kind, v) ==
    IF kind = "wait"
    THEN [Logged(run, kind, v) EXCEPT !.t = run.t + v, !.rval = 0]
    ELSE [Logged(run, kind, v) EXCEPT !.k = run.k + 1,
                                      !.rval = AwaitValue[run.k]]

RangeValues(a) ==
    LET start == IF Len(a) = 1 THEN 0 ELSE a[1]
        stop  == IF Len(a) = 1 THEN a[1] ELSE a[2]
        step  == IF Len(a) = 3 THEN a[3] ELSE 1
        n     == IF step > 0
                 THEN IF stop > start THEN (stop - start + step - 1) \div step ELSE 0
                 ELSE IF start > stop THEN (start - stop - step - 1) \div (-step) ELSE 0
    IN  [i \in 1 .. n |-> start + (i - 1) * step]

(* A turn of a loop is over.  Leaves tells whether the loop is, too.       *)
Leaves(run)     == run.sig \in {"break", "return", "halted"}
AfterLoop(run)  == [run EXCEPT !.sig = IF @ = "break" THEN "run" ELSE @]
NextTurn(run)   == [run EXCEPT !.sig = "run"]
OutOfFuel(run)  == [run EXCEPT !.sig = "return"]

(* C only: if (self->_halt_requested) { longjmp(self->_halt_jmp, 1); }     *)
HaltCheck       == [s |-> "halt_check"]
HaltAsked(run)  == run.halt # 0 /\ Len(run.log) >= run.halt
Checked(run)    == IF HaltAsked(run) THEN [run EXCEPT !.sig = "halted"] ELSE run

(* The body that an "if", a "match" or a block comes to.  A pattern is a    *)
(* set of numbers; the empty set is the wildcard.                          *)
Matching(cases, v) ==
    LET fits == {i \in DOMAIN cases : cases[i].p = {} \/ v \in cases[i].p}
    IN  IF fits = {} THEN << >> ELSE cases[CHOOSE i \in fits : \A j \in fits : i <= j].body

Chosen(st, m) ==
    CASE st.s = "block" -> st.body
      [] st.s = "if"    -> IF Value(st.e, m) # 0 THEN st.body ELSE st.orelse
      [] st.s = "match" ->
            Matching(st.cases, Value(st.e, m))

(* The statements that contain no others. *)
Received(st, after) ==
    CASE st.s = "do"     -> after
      [] st.s = "return" -> [Logged(after, "return", after.rval) EXCEPT !.sig = "return"]
      [] OTHER           -> Set(after, Loc(st.tgt), after.rval)

Effect(st, run) ==
    IF st.s \in {"assign", "ann", "do", "return"} /\ st.e.e = "await"
    THEN Received(st, Awaited(run, st.e.kind, Value(st.e.arg, run.m)))
    ELSE CASE st.s \in {"assign", "ann"} -> Set(run, Loc(st.tgt), Value(st.e, run.m))
           [] st.s = "aug"    -> Set(run, Loc(st.tgt),
                                     PyArith(st.op, run.m[Loc(st.tgt)], Value(st.e, run.m)))
           [] st.s = "call"   -> Logged(run, st.f, Value(st.e, run.m))
           [] st.s = "return" -> [Logged(run, "return", Value(st.e, run.m)) EXCEPT !.sig = "return"]
           [] st.s = "begun"  -> Logged(run, "begun", 0)
           [] st.s \in {"break", "continue"} -> [run EXCEPT !.sig = st.s]
           [] st.s = "nop"    -> run
           [] st.s = "halt_check" -> Checked(run)

(* Loops.  "for" goes over values that are computed once, the loop of C    *)
(* ("cfor") counts in a variable of its own.                               *)
LoopKinds == {"while", "for", "cfor"}

Entered(st, run) ==
    IF st.s = "cfor" THEN Set(run, st.v, Value(st.args[1], run.m)) ELSE run

ValuesOf(st, run) ==
    IF st.s = "for" THEN RangeValues([i \in DOMAIN st.args |-> Value(st.args[i], run.m)])
                    ELSE << >>

HasTurn(st, values, run) ==
    CASE st.s = "for"   -> values # << >>
      [] st.s = "while" -> Value(st.e, run.m) # 0
      [] st.s = "cfor"  -> Value(st.args[2], run.m) # 0

TurnBegun(st, values, run) ==
    [(IF st.s = "for" THEN Set(run, <<"auto", st.v>>, Head(values)) ELSE run)
        EXCEPT !.fuel = @ - 1]

TurnOver(st, run) ==
    IF st.s = "cfor" THEN Set(NextTurn(run), st.v, run.m[st.v] + Value(st.args[3], run.m))
                     ELSE NextTurn(run)

Left(st, run, before) ==
    IF st.s = "cfor" THEN Set(AfterLoop(run), st.v, before.m[st.v]) ELSE AfterLoop(run)

RECURSIVE Exec(_, _), TurnsOf(_, _, _), TurnEnds(_, _, _)
Exec(body, run) ==
    IF body = << >> \/ run.sig # "run" THEN run
    ELSE Exec(Tail(body),
              LET st == Head(body)
              IN  IF st.s \in LoopKinds
                  THEN Left(st, TurnsOf(st, ValuesOf(st, run), Entered(st, run)), run)
                  ELSE IF st.s \in {"if", "match", "block"} THEN Exec(Chosen(st, run.m), run)
                  ELSE Effect(st, run))

TurnsOf(st, values, run) ==
    IF ~HasTurn(st, values, run) THEN run
    ELSE IF run.fuel = 0 THEN OutOfFuel(run)
    ELSE TurnEnds(st, values, Exec(st.body, TurnBegun(st, values, run)))

TurnEnds(st, values, run) ==
    IF Leaves(run) THEN run
    ELSE TurnsOf(st, IF values = << >> THEN << >> ELSE Tail(values), TurnOver(st, run))

(* What an observer of the run sees: its log and the fields it leaves.     *)
Seen(run, fields) == <<run.log, [f \in fields |-> run.m[<<"self", f>>]]>>
=============================================================================
