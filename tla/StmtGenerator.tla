--------------------------- MODULE StmtGenerator ----------------------------
(***************************************************************************)
(* stmt_generator.py: the C text of statements and expressions, printed    *)
(* for synchronous methods and for the continuations of coroutines.        *)
(*                                                                         *)
(* frame holds the names that live in the locals struct of a coroutine     *)
(* (locals_struct_names).  The C statements are those of DmProgram with    *)
(* texts for expressions; "cfor", "nop" and "halt_check" are C only.       *)
(***************************************************************************)
EXTENDS DmProgram

_get_dm_binop(op) == CASE op = "//" -> "/" [] OTHER -> op
_get_dm_augop(op) == CASE op = "//" -> "?" [] OTHER -> op

(* ExprCompare is joined without parentheses, everything else that has     *)
(* operators gets its own pair.                                            *)
RECURSIVE _gen_dm_expr(_, _)
_gen_dm_expr(e, frame) ==
    LET gen(x) == _gen_dm_expr(x, frame)
        separated(xs, op) == FoldLeft(LAMBDA acc, x : acc \o <<Op(op)>> \o gen(x),
                                      gen(xs[1]), Tail(xs))
    IN  CASE e.e = "const"   -> <<Lit(e.n)>>
          [] e.e \in {"local", "param"} ->
                << <<IF e.v \in frame THEN "frame" ELSE "auto", e.v>> >>
          [] e.e = "field"   -> << <<"self", e.v>> >>
          [] e.e = "bin"     -> Paren(gen(e.l) \o <<Op(_get_dm_binop(e.op))>> \o gen(e.r))
          [] e.e = "unary"   -> Paren(<<Op(IF e.op = "not" THEN "!" ELSE e.op)>> \o gen(e.x))
          [] e.e = "compare" ->
                FlattenSeq(<<gen(e.l)>> \o
                    [i \in DOMAIN e.ops |-> <<Op(e.ops[i])>> \o gen(e.rs[i])])
          [] e.e = "bool"    -> Paren(separated(e.vs, IF e.op = "and" THEN "&&" ELSE "||"))
          [] e.e = "ifexp"   -> Paren(gen(e.t) \o <<Op("?")>> \o gen(e.b)
                                               \o <<Op(":")>> \o gen(e.o))

(* An expression in a statement.  An await is printed as what it awaits:   *)
(* a port is called, the delay of self.wait becomes a comment.             *)
Gen(e, frame) == Text(_gen_dm_expr(e, frame))

GenAwait(e, frame) == [e EXCEPT !.arg = Gen(e.arg, frame)]

Nop == [s |-> "nop"]

RECURSIVE _gen_dm_stmt(_, _)

(* Mutant: the start of range(start, end) is left out. *)
range_for_from_zero(st, frame) ==
    LET a   == [i \in DOMAIN st.args |-> _gen_dm_expr(st.args[i], frame)]
        var == <<"auto", st.v>>
    IN  [s |-> "cfor", v |-> var,
         args |-> <<Text(<<Lit(0)>>),
                    Text(<<var, Op("<")>> \o (IF Len(a) = 1 THEN a[1] ELSE a[2])),
                    Text(IF Len(a) = 3 THEN a[3] ELSE <<Lit(1)>>)>>,
         body |-> [i \in DOMAIN st.body |-> _gen_dm_stmt(st.body[i], frame)]]

(* for (int i = start; i < end; i += step), with end evaluated each turn.  *)
_gen_dm_range_for(st, frame) ==
    LET a     == [i \in DOMAIN st.args |-> _gen_dm_expr(st.args[i], frame)]
        start == IF Len(a) = 1 THEN <<Lit(0)>> ELSE a[1]
        end   == IF Len(a) = 1 THEN a[1] ELSE a[2]
        step  == IF Len(a) = 3 THEN a[3] ELSE <<Lit(1)>>
        var   == <<"auto", st.v>>
    IN  [s |-> "cfor", v |-> var,
         args |-> <<Text(start), Text(<<var, Op("<")>> \o end), Text(step)>>,
         body |-> [i \in DOMAIN st.body |-> _gen_dm_stmt(st.body[i], frame)]]

(* An endless loop looks for the request to halt at the start of a turn.   *)
_gen_dm_while(test, body) ==
    While(test, IF test = Text(<<Lit(1)>>) THEN <<HaltCheck>> \o body ELSE body)

(* if/else if/else, a test of the subject for each value pattern, 1 for    *)
(* any other pattern but the wildcard.  A wildcard that comes first is an  *)
(* "else" without an "if".                                                 *)
RECURSIVE _gen_dm_match(_, _, _)
_gen_dm_match(st, i, frame) ==
    IF i > Len(st.cases) THEN << >>
    ELSE LET pattern == st.cases[i].p
             body == [j \in DOMAIN st.cases[i].body |->
                         _gen_dm_stmt(st.cases[i].body[j], frame)]
             test == IF Cardinality(pattern) = 1
                     THEN _gen_dm_expr(st.e, frame) \o
                          <<Op("=="), Lit(CHOOSE n \in pattern : TRUE)>>
                     ELSE <<Lit(1)>>
         IN  IF pattern = {} THEN IF i = 1 THEN <<Do(Text(<<Bad>>))>> ELSE body
             ELSE <<If(Text(test), body, _gen_dm_match(st, i + 1, frame))>>

_gen_dm_stmt(st, frame) ==
    LET gen(e) == IF e.e = "await" THEN GenAwait(e, frame) ELSE Gen(e, frame)
        all(body) == [i \in DOMAIN body |-> _gen_dm_stmt(body[i], frame)]
    IN  CASE st.s \in {"assign", "ann"} -> Assign(Gen(st.tgt, frame), gen(st.e))
          [] st.s = "aug" ->
                (* x op= e is x = x op (e) *)
                Assign(Gen(st.tgt, frame),
                       IF _get_dm_augop(st.op) = "?" THEN Text(<<Bad>>)
                       ELSE Text(_gen_dm_expr(st.tgt, frame) \o <<Op(st.op)>>
                                 \o Paren(_gen_dm_expr(st.e, frame))))
          [] st.s = "call"   -> Call(st.f, gen(st.e))
          [] st.s = "do"     -> IF st.e.kind = "wait" THEN Nop ELSE Do(gen(st.e))
          [] st.s = "return" -> Return(gen(st.e))
          [] st.s = "if"     -> If(gen(st.e), all(st.body), all(st.orelse))
          [] st.s = "while"  -> _gen_dm_while(gen(st.e), all(st.body))
          [] st.s = "for"    -> _gen_dm_range_for(st, frame)
          [] st.s = "match"  -> [s |-> "block", body |-> _gen_dm_match(st, 1, frame)]
          [] st.s \in {"break", "continue"} -> st

GenBody(body, frame) == [i \in DOMAIN body |-> _gen_dm_stmt(body[i], frame)]

-----------------------------------------------------------------------------
(* What the printed text can be relied on for.  A comparison must not be   *)
(* an operand of an operator that binds tighter, nor a chain.  The value   *)
(* of "and" and "or" is a truth value in C, so that they have to be tests, *)
(* or to join truth values.  What is divided is not negative.              *)

IsCompare(e) == e.e = "compare"
IsTruth(e)   == IsCompare(e) \/ (e.e \in {"unary", "bin"} /\ e.op \in Comparisons \cup {"not"})

RECURSIVE Reliable(_, _)
Reliable(e, test) ==
    LET operands(t) == \A x \in ToSet(Operands(e)) : Reliable(x, t)
        noCompare   == \A x \in ToSet(Operands(e)) : ~IsCompare(x)
    IN  CASE e.e = "bin"     -> /\ noCompare /\ operands(FALSE)
                                /\ e.op \in {"//", "%"} =>
                                       \A x \in SubExprs(e.l) :
                                           x.e \in {"bin", "unary"} => x.op # "-"
          [] e.e = "unary"   -> noCompare /\ operands(e.op = "not")
          [] e.e = "compare" -> noCompare /\ Len(e.ops) = 1 /\ operands(FALSE)
          [] e.e = "bool"    -> /\ operands(test)
                                /\ test \/ \A x \in ToSet(e.vs) : IsTruth(x)
          [] e.e = "ifexp"   -> /\ Reliable(e.t, TRUE)
                                /\ Reliable(e.b, test) /\ Reliable(e.o, test)
          [] e.e = "await"   -> Reliable(e.arg, FALSE)
          [] OTHER           -> TRUE

Assigned(body) == {Loc(st.tgt) : st \in {x \in SubStmts(body) :
                                            x.s \in {"assign", "ann", "aug"}}}
Read(es) == {Loc(e) : e \in {x \in es : x.e \in {"local", "param", "field"}}}

(* A loop over a range counts upwards, does not change what it counts with *)
(* and keeps its variable to itself.                                       *)
ReliableFor(st, body) ==
    LET var == <<"auto", st.v>>
        args == UNION {SubExprs(e) : e \in ToSet(st.args)}
    IN  /\ Len(st.args) = 3 => st.args[3].e = "const" /\ st.args[3].n > 0
        /\ Assigned(st.body) \cap (Read(args) \cup {var}) = {}
        /\ \A x \in ToSet(body) \ {st} :
               var \notin Assigned(<<x>>) \cup Read(AllExprs(<<x>>))

ReliableStmt(st, body) ==
    /\ \A e \in ToSet(Exprs(st)) : Reliable(e, st.s \in {"if", "while"})
    /\ st.s = "aug"   => st.op # "//"
    /\ st.s = "for"   => ReliableFor(st, body)
    /\ st.s = "match" => /\ st.cases[1].p # {}
                         /\ \A i \in DOMAIN st.cases : Cardinality(st.cases[i].p) <= 1

ReliableBody(body) == \A st \in SubStmts(body) : ReliableStmt(st, body)

(* Fields that are divided are not negative either. *)
ReliableOn(body, fields) ==
    (\E e \in AllExprs(body) : e.e = "bin" /\ e.op \in {"//", "%"})
        => \A f \in DOMAIN fields : fields[f] >= 0

-----------------------------------------------------------------------------
(* A synchronous method as c_generator.py prints it, and its run in Python.*)

Memory(fields, locals, unset) ==
    [loc \in ({"self"} \X DOMAIN fields) \cup ({"auto", "frame"} \X locals) |->
        IF loc[1] = "self" THEN fields[loc[2]] ELSE unset]

PythonSees(body, fields, locals, unset) ==
    Seen(Exec(body, Start(Memory(fields, locals, unset))), DOMAIN fields)

(* A body that reads no variable before it sets it. *)
IsDefined(body, fields, locals) ==
    PythonSees(body, fields, locals, 0) = PythonSees(body, fields, locals, Garbage)

RECURSIVE Tokens(_)
Tokens(cbody) ==
    LET of(st) == UNION {ToSet(e.toks) : e \in ToSet(Exprs(st))}
                  \cup (IF st.s = "cfor" THEN UNION {ToSet(e.toks) : e \in ToSet(st.args)} ELSE {})
        into(st) == IF st.s \in {"cfor", "block"} THEN st.body ELSE Inner(st)
    IN  UNION {of(st) \cup Tokens(into(st)) : st \in ToSet(cbody)}

Compiles(cbody) == Bad \notin Tokens(cbody)
=============================================================================
