---------------------------- MODULE RtlComponent ----------------------------
(***************************************************************************)
(* The C module emitted for a component of the register transfer level:    *)
(* passes/rtl (expr_lower, next_state_split, comb_order, c_emit).  The     *)
(* registers are held twice, in _regs and in _nxt.  Python pokes fields    *)
(* and calls eval_comb, clock_edge and apply_reset.                        *)
(*                                                                         *)
(* m is the memory of the struct: <<"regs", f>>, <<"nxt", f>>, and         *)
(* <<"self", f>> for everything that is not registered.                    *)
(***************************************************************************)
EXTENDS DmProgram

CONSTANTS Components,  \* the components looked at
          Values       \* the values Python writes into fields

VARIABLES comp, m

vars == <<comp, m>>

-----------------------------------------------------------------------------
(* Which fields are registered: those a @sync process assigns to.          *)

StmtsOf(bodies) == UNION {SubStmts(bodies[i]) : i \in DOMAIN bodies}

_target_field_index(st) ==
    IF st.s \in {"assign", "aug"} /\ st.tgt.e = "field" THEN {st.tgt.v} ELSE {}

rtl_nxt_fields(c) == UNION {_target_field_index(st) : st \in StmtsOf(c.syncs)}

-----------------------------------------------------------------------------
(* The order of the @comb processes. *)

(* What an expression is seen to read.  The operand of a unary operator is *)
(* not among the attributes that are descended into.                       *)
RECURSIVE _collect_reads(_)
_collect_reads(e) ==
    CASE e.e \in {"field", "elem"} -> {e.v}
      [] e.e = "unary"             -> {}
      [] OTHER -> UNION {_collect_reads(x) : x \in ToSet(Operands(e))}

StmtReads(body) ==
    UNION {UNION {_collect_reads(e) : e \in ToSet(Exprs(st))} :
              st \in {x \in SubStmts(body) : x.s # "setattr"}}
    \cup {st.tgt.v : st \in {x \in SubStmts(body) : x.s = "aug" /\ x.tgt.e = "field"}}

StmtWrites(body) ==
    {st.tgt.v : st \in {x \in SubStmts(body) : x.s \in {"assign", "aug"} /\ x.tgt.e = "field"}}

(* i has to come before j. *)
Feeds(c, i, j) == i # j /\ StmtWrites(c.combs[i]) \cap StmtReads(c.combs[j]) # {}

(* Kahn's algorithm.  The queue takes the processes whose last predecessor *)
(* has been placed, in the order they are written.                         *)
RECURSIVE Kahn(_, _, _, _)
Kahn(c, queue, order, in_degree) ==
    IF queue = << >> THEN order
    ELSE LET i    == Head(queue)
             deg  == [j \in DOMAIN c.combs |-> in_degree[j] - AsInt(Feeds(c, i, j))]
             free == SelectSeq([j \in DOMAIN c.combs |-> j],
                               LAMBDA j : Feeds(c, i, j) /\ deg[j] = 0)
         IN  Kahn(c, Tail(queue) \o free, Append(order, i), deg)

rtl_comb_order(c) ==
    LET n   == Len(c.combs)
        deg == [j \in 1 .. n |-> Cardinality({i \in 1 .. n : Feeds(c, i, j)})]
    IN  Kahn(c, SelectSeq([j \in 1 .. n |-> j], LAMBDA j : deg[j] = 0), << >>, deg)

(* Otherwise a combinational loop is reported and nothing is emitted. *)
IsOrdered(c) == Len(rtl_comb_order(c)) = Len(c.combs)

-----------------------------------------------------------------------------
(* The C text.  Reads take the current value, writes of a @sync process go *)
(* to _nxt; elements of arrays are written directly.                       *)

_lower_ref_field(v, nxt, write_ctx) ==
    << <<IF v \notin nxt THEN "self" ELSE IF write_ctx THEN "nxt" ELSE "regs", v>> >>

RECURSIVE lower_expr(_, _)
lower_expr(e, nxt) ==
    LET gen(x) == lower_expr(x, nxt)
        joined(texts, op) ==
            FoldLeft(LAMBDA acc, t : acc \o <<Op(op)>> \o t, texts[1], Tail(texts))
        operands == <<e.l>> \o e.rs
        _lower_compare == [i \in DOMAIN e.ops |->
            Paren(gen(operands[i]) \o <<Op(e.ops[i])>> \o gen(operands[i + 1]))]
    IN  CASE e.e = "const"   -> <<Lit(e.n)>>
          [] e.e = "local"   -> << <<"auto", e.v>> >>
          [] e.e = "field"   -> _lower_ref_field(e.v, nxt, FALSE)
          [] e.e = "elem"    -> << <<"self", e.v>> >>
          [] e.e = "bin"     -> Paren(gen(e.l) \o <<Op(IF e.op = "//" THEN "/" ELSE e.op)>>
                                               \o gen(e.r))
          [] e.e = "unary"   -> Paren(<<Op(IF e.op = "not" THEN "!" ELSE e.op)>> \o gen(e.x))
          [] e.e = "compare" -> IF Len(e.ops) = 1 THEN _lower_compare[1]
                                ELSE Paren(joined(_lower_compare, "&&"))
          [] e.e = "bool"    -> Paren(joined([i \in DOMAIN e.vs |-> Paren(gen(e.vs[i]))],
                                             IF e.op = "and" THEN "&&" ELSE "||"))
          [] e.e = "ifexp"   -> Paren(Paren(gen(e.t)) \o <<Op("?")>> \o Paren(gen(e.b))
                                                      \o <<Op(":")>> \o Paren(gen(e.o)))

LowerTarget(tgt, nxt, write_ctx) ==
    CASE tgt.e = "local" -> << <<"auto", tgt.v>> >>
      [] tgt.e = "elem"  -> << <<"self", tgt.v>> >>
      [] tgt.e = "field" -> _lower_ref_field(tgt.v, nxt, write_ctx)

_lower_assign(st, nxt, write_ctx) ==
    Assign(Text(LowerTarget(st.tgt, nxt, write_ctx)), Text(lower_expr(st.e, nxt)))

_lower_aug_assign(st, nxt, write_ctx) ==
    AugAssign(Text(LowerTarget(st.tgt, nxt, write_ctx)), st.op, Text(lower_expr(st.e, nxt)))

(* for attr in [...]: setattr(self, attr, e) is unrolled. *)
Unrolled(st, nxt, write_ctx) ==
    [i \in DOMAIN st.fs |->
        Assign(Text(_lower_ref_field(st.fs[i], nxt, write_ctx)), Text(lower_expr(st.e, nxt)))]

RECURSIVE lower_stmts(_, _, _)
lower_stmts(body, nxt, write_ctx) ==
    LET all(b) == lower_stmts(b, nxt, write_ctx)
        lower(st) ==
            CASE st.s = "assign"  -> <<_lower_assign(st, nxt, write_ctx)>>
              [] st.s = "aug"     -> <<_lower_aug_assign(st, nxt, write_ctx)>>
              [] st.s = "if"      -> <<If(Text(lower_expr(st.e, nxt)), all(st.body), all(st.orelse))>>
              [] st.s = "setattr" -> Unrolled(st, nxt, write_ctx)
    IN  FlattenSeq([i \in DOMAIN body |-> lower(body[i])])

collect_local_names(body) ==
    {st.tgt.v : st \in {x \in SubStmts(body) : x.s \in {"assign", "aug"} /\ x.tgt.e = "local"}}

(* The bodies of all @comb processes share one function and its variables. *)
Compiles(c) ==
    \A i, j \in DOMAIN c.combs :
        i # j => collect_local_names(c.combs[i]) \cap collect_local_names(c.combs[j]) = {}

-----------------------------------------------------------------------------
(* The functions of the module. *)

LocalNames == {"x", "y"}

(* The variables of a function start at 0, and end with it. *)
RunC(body, mem) ==
    LET after == Exec(body, Start(mem)).m
    IN  [loc \in DOMAIN mem |-> IF loc[1] = "auto" THEN 0 ELSE after[loc]]

(* Wires come first, in the order they are declared. *)
EvalWires(c, mem) ==
    FoldLeft(LAMBDA acc, w : [acc EXCEPT ![<<"self", w.v>>] =
                                 CVal(lower_expr(w.e, rtl_nxt_fields(c)), acc)],
             mem, c.wires)

(* Mutant: the @comb processes come before the wires. *)
eval_comb_before_wires(c, mem) ==
    EvalWires(c, FoldLeft(LAMBDA acc, i :
                              RunC(lower_stmts(c.combs[i], rtl_nxt_fields(c), FALSE), acc),
                          mem, rtl_comb_order(c)))

_emit_eval_comb(c, mem) ==
    FoldLeft(LAMBDA acc, i : RunC(lower_stmts(c.combs[i], rtl_nxt_fields(c), FALSE), acc),
             EvalWires(c, mem), rtl_comb_order(c))

_emit_sync_bodies(c, mem) ==
    FoldLeft(LAMBDA acc, body : RunC(lower_stmts(body, rtl_nxt_fields(c), TRUE), acc),
             mem, c.syncs)

_emit_advance(c, mem) ==
    [loc \in DOMAIN mem |-> IF loc[1] = "regs" THEN mem[<<"nxt", loc[2]>>] ELSE mem[loc]]

(* Mutant: the wires and the @comb processes are left to the caller. *)
clock_edge_without_comb(c, mem) == _emit_advance(c, _emit_sync_bodies(c, mem))

_emit_clock_edge(c, mem) == _emit_advance(c, _emit_sync_bodies(c, _emit_eval_comb(c, mem)))

(* Mutant: the shadow of a register is not reset. *)
apply_reset_regs_only(c, mem) ==
    [loc \in DOMAIN mem |->
        IF loc[2] \in DOMAIN c.reset /\ loc[1] \in {"self", "regs"} THEN c.reset[loc[2]]
        ELSE mem[loc]]

_emit_apply_reset(c, mem) ==
    [loc \in DOMAIN mem |->
        IF loc[2] \in DOMAIN c.reset /\ loc[1] \in {"self", "regs", "nxt"}
        THEN c.reset[loc[2]] ELSE mem[loc]]

-----------------------------------------------------------------------------
(* The components whose text does what they say.                           *)

ReadsOf(es) == {e.v : e \in {x \in es : x.e \in {"field", "elem"}}}
ReadsIn(body) == ReadsOf(AllExprs(body))

ArraysIn(body, c) == {f \in c.arrays : \E st \in SubStmts(body) :
                         st.s = "assign" /\ st.tgt = Elem(f)}

(* Wires read only what is there before them. *)
WiresReliable(c) ==
    \A i \in DOMAIN c.wires :
        ReadsOf(SubExprs(c.wires[i].e)) \cap
            (UNION {StmtWrites(c.combs[j]) : j \in DOMAIN c.combs}
             \cup {c.wires[j].v : j \in i .. Len(c.wires)}) = {}

(* A @comb process writes plain fields that are its own, reads none of     *)
(* them, and every read of another one's is noticed.                       *)
CombsReliable(c) ==
    \A i \in DOMAIN c.combs :
        LET body == c.combs[i]
            written(j) == StmtWrites(c.combs[j]) \cup ArraysIn(c.combs[j], c)
        IN  /\ written(i) \cap (c.arrays \cup rtl_nxt_fields(c) \cup ReadsIn(body)) = {}
            /\ \A st \in SubStmts(body) : st.s \notin {"aug", "setattr"}
            /\ \A j \in DOMAIN c.combs \ {i} :
                  /\ written(i) \cap written(j) = {}
                  /\ written(j) \cap ReadsIn(body) \subseteq StmtReads(body)

(* A @sync process writes registers and arrays.  It augments a field that  *)
(* nothing else assigns, and an array is not read after it is written.     *)
SyncsReliable(c) ==
    LET assigns == {st \in StmtsOf(c.syncs) : st.s \in {"assign", "aug"}}
    IN  /\ \A st \in StmtsOf(c.syncs) :
              /\ st.s = "setattr" => ToSet(st.fs) \subseteq rtl_nxt_fields(c)
              /\ st.s = "aug" =>
                    /\ st.tgt.e = "field"
                    /\ Cardinality({i \in DOMAIN c.syncs : \E x \in SubStmts(c.syncs[i]) :
                                       x.s \in {"assign", "aug"} /\ x.tgt = st.tgt}) = 1
                    /\ \A x \in assigns \ {st} : x.tgt # st.tgt
                    /\ \A x \in StmtsOf(c.syncs) : x.s = "setattr" => st.tgt.v \notin ToSet(x.fs)
        /\ \A i \in DOMAIN c.syncs : \A j \in i .. Len(c.syncs) :
              ArraysIn(c.syncs[i], c) \cap ReadsIn(c.syncs[j]) = {}

Reliable(c) == /\ IsOrdered(c) /\ Compiles(c)
               /\ WiresReliable(c) /\ CombsReliable(c) /\ SyncsReliable(c)

-----------------------------------------------------------------------------
WireNames(c) == {c.wires[i].v : i \in DOMAIN c.wires}

_emit_init(c) ==
    [loc \in ({"regs", "nxt"} \X rtl_nxt_fields(c))
        \cup ({"self"} \X ((c.fields \ rtl_nxt_fields(c)) \cup WireNames(c)))
        \cup ({"auto"} \X LocalNames) |-> 0]

Init == /\ comp \in {c \in Components : Reliable(c)}
        /\ m = _emit_init(comp)

eval_comb   == m' = _emit_eval_comb(comp, m)   /\ UNCHANGED comp
clock_edge  == m' = _emit_clock_edge(comp, m)  /\ UNCHANGED comp
apply_reset == m' = _emit_apply_reset(comp, m) /\ UNCHANGED comp

(* The fields no @comb process computes. *)
Held(c) == c.fields \ UNION {StmtWrites(c.combs[i]) : i \in DOMAIN c.combs}

(* state.f = n, and for a register also state.f_nxt = n. *)
Poke == /\ \E f \in Held(comp) \cap comp.poked, n \in Values :
               m' = [loc \in DOMAIN m |->
                        IF loc[1] # "auto" /\ loc[2] = f THEN n ELSE m[loc]]
        /\ UNCHANGED comp

Next == eval_comb \/ clock_edge \/ apply_reset \/ Poke

Spec == Init /\ [][Next]_vars

(* The circuit the component describes, with the current values of its     *)
(* registers.                                                              *)
Circuit == INSTANCE SyncCircuit WITH
    val <- [f \in Held(comp) |->
               m[<<IF f \in rtl_nxt_fields(comp) THEN "regs" ELSE "self", f>>]]

-----------------------------------------------------------------------------
(* Between two calls a register and its shadow agree: one that no process  *)
(* writes during an edge keeps its value (the struct assignment of         *)
(* advance, and init and apply_reset).                                     *)
ShadowsAgree ==
    \A f \in rtl_nxt_fields(comp) : m[<<"nxt", f>>] = m[<<"regs", f>>]

(* Every call is a step of the circuit: an edge takes over what the @sync  *)
(* processes compute from the values before it, in whatever order they are *)
(* written, and with the combinational fields of these values.             *)
ImplementsCircuit == Circuit!Spec

=============================================================================
