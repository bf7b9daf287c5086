----------------------------- MODULE ClassModel -----------------------------
(***************************************************************************)
(* class_codegen.py: classes with single inheritance as C structures whose *)
(* type descriptor is their table of virtual methods, and the tasks of a   *)
(* class as coroutines.                                                    *)
(*                                                                         *)
(* A context has the names of its classes in the order in which they were  *)
(* entered, and for each its super class ("" for none), its methods        *)
(* [name, virtual] and its fields [name, handle].                          *)
(***************************************************************************)
EXTENDS DmProgram, TLC

-----------------------------------------------------------------------------
(* The hierarchy: ClassModel. *)

(* Bases before derived classes. *)
RECURSIVE visit(_, _, _, _)
visit(ctx, order, name, seen) ==
    LET up == ctx.super[name]
        upFirst == up \in ToSet(ctx.order) /\ up \notin seen
    IN  IF name \in ToSet(order) THEN order
        ELSE Append(IF upFirst THEN visit(ctx, order, up, seen \cup {name}) ELSE order, name)

_order(ctx) == FoldLeft(LAMBDA order, name : visit(ctx, order, name, {}), << >>, ctx.order)

(* A class and what is above it, as far as it is analyzed. *)
RECURSIVE Chain(_, _)
Chain(classes, name) ==
    IF name \notin DOMAIN classes THEN << >>
    ELSE <<name>> \o Chain(classes, classes[name].super)

FirstOf(chain, Has(_)) == SelectSeq(chain, Has)[1]

(* Each virtual method to the class that declared it first. *)
_virtual_methods_upchain(classes, super) ==
    LET intro(c)  == {m.name : m \in {x \in ToSet(classes[c].methods) : x.introduces}}
        chain     == Chain(classes, super)
    IN  [n \in UNION {intro(c) : c \in ToSet(chain)} |->
            FirstOf(chain, LAMBDA c : n \in intro(c))]

_field_decl_upchain(classes, super) ==
    LET own(c) == {f.name : f \in ToSet(classes[c].fields)}
        chain  == Chain(classes, super)
    IN  [n \in UNION {own(c) : c \in ToSet(chain)} |-> FirstOf(chain, LAMBDA c : n \in own(c))]

_analyze(classes, ctx, c) ==
    LET inherited == _virtual_methods_upchain(classes, ctx.super[c])
        info(m)   == [name |-> m.name, virtual |-> m.virtual,
                      introduces |-> m.virtual /\ m.name \notin DOMAIN inherited,
                      slot_owner |-> IF m.virtual /\ m.name \in DOMAIN inherited
                                     THEN inherited[m.name] ELSE c]
    IN  [super   |-> ctx.super[c], fields |-> ctx.fields[c],
         methods |-> [i \in DOMAIN ctx.methods[c] |-> info(ctx.methods[c][i])],
         field_decl |-> [n \in {f.name : f \in ToSet(ctx.fields[c])} |-> c]
                        @@ _field_decl_upchain(classes, ctx.super[c])]

_build(ctx) ==
    FoldLeft(LAMBDA classes, c : classes @@ (c :> _analyze(classes, ctx, c)),
             [c \in {} |-> c], _order(ctx))

RECURSIVE vtable_slots(_, _)
vtable_slots(classes, c) ==
    IF c \notin DOMAIN classes THEN {}
    ELSE vtable_slots(classes, classes[c].super)
         \cup {<<c, m.name>> : m \in {x \in ToSet(classes[c].methods) : x.introduces}}

Declares(classes, c, n) == \E m \in ToSet(classes[c].methods) : m.name = n

concrete_impl(classes, c, n) ==
    LET found == SelectSeq(Chain(classes, c), LAMBDA x : Declares(classes, x, n))
    IN  <<IF found = << >> THEN c ELSE found[1], n>>

-----------------------------------------------------------------------------
(* The descriptor of a class: a copy of the one of its base, in which      *)
(* every slot and, if the class has handles of its own, the map of the     *)
(* references is set again.                                                *)

Handles(classes, c) == {<<c, f.name>> : f \in {x \in ToSet(classes[c].fields) : x.handle}}

RECURSIVE _type_singleton(_, _)
_type_singleton(classes, c) ==
    IF c \notin DOMAIN classes THEN [slots |-> << >>, refs |-> {}]
    ELSE LET base == _type_singleton(classes, classes[c].super)
             own  == Handles(classes, c)
         IN  [slots |-> [s \in vtable_slots(classes, c) |-> concrete_impl(classes, c, s[2])]
                        @@ base.slots,
              refs  |-> IF own = {} THEN base.refs ELSE own]

(* What the destructor gives back: the handles of the class, then those of *)
(* its base.                                                               *)
RECURSIVE _dtor(_, _)
_dtor(classes, c) ==
    IF c \notin DOMAIN classes THEN << >>
    ELSE SetToSeq(Handles(classes, c)) \o _dtor(classes, classes[c].super)

(* A call in the code of class c: of super, or of self through the slot of *)
(* a virtual method or directly.                                           *)
_call(classes, c, receiver, n) ==
    LET found == SelectSeq(Chain(classes, c), LAMBDA x : Declares(classes, x, n))
        info  == CHOOSE m \in ToSet(classes[found[1]].methods) : m.name = n
    IN  CASE receiver = "super" -> [to |-> concrete_impl(classes, classes[c].super, n), slot |-> FALSE]
          [] receiver = "self" /\ info.virtual -> [to |-> <<info.slot_owner, n>>, slot |-> TRUE]
          [] OTHER -> [to |-> concrete_impl(classes, c, n), slot |-> FALSE]

(* The function that runs when the object is one of class d. *)
Reached(classes, call, d) ==
    IF call.slot THEN _type_singleton(classes, d).slots[call.to] ELSE call.to

-----------------------------------------------------------------------------
(* The rules of the language.  A method is virtual from the class on that  *)
(* says so.  A call of a virtual method runs the override nearest to the   *)
(* class of the object, any other call the method nearest to its code.     *)

RECURSIVE Above(_, _)
Above(ctx, c) == IF c \notin ToSet(ctx.order) THEN << >> ELSE <<c>> \o Above(ctx, ctx.super[c])

Nearest(ctx, c, n) ==
    SelectSeq(Above(ctx, c), LAMBDA x : \E m \in ToSet(ctx.methods[x]) : m.name = n)

MarkedVirtual(ctx, c, n) == \E m \in ToSet(ctx.methods[c]) : m.name = n /\ m.virtual
IsVirtual(ctx, c, n) == \E x \in ToSet(Above(ctx, c)) : MarkedVirtual(ctx, x, n)

(* A class whose override is not marked is called directly by its own code;*)
(* such calls are left out.                                                *)
CallsAreDispatched(ctx) ==
    LET classes == _build(ctx)
    IN  \A d \in DOMAIN classes : \A c \in ToSet(Above(ctx, d)) :
          \A n \in UNION {{m.name : m \in ToSet(ctx.methods[x])} : x \in ToSet(Above(ctx, c))} :
            LET decl == Nearest(ctx, c, n)[1]
            IN  /\ IsVirtual(ctx, decl, n) = MarkedVirtual(ctx, decl, n) =>
                     Reached(classes, _call(classes, c, "self", n), d) =
                        <<IF IsVirtual(ctx, decl, n) THEN Nearest(ctx, d, n)[1] ELSE decl, n>>
                /\ Nearest(ctx, ctx.super[c], n) # << >> =>
                     Reached(classes, _call(classes, c, "super", n), d) =
                        <<Nearest(ctx, ctx.super[c], n)[1], n>>

(* A derived class with handles of its own has a map of these alone; with  *)
(* handles in one class of the chain, map and destructor have all of them. *)
HandlesAreKnown(ctx) ==
    LET classes == _build(ctx)
        holders(d) == {c \in ToSet(Above(ctx, d)) : Handles(classes, c) # {}}
        all(d)     == UNION {Handles(classes, c) : c \in holders(d)}
    IN  \A d \in DOMAIN classes :
          /\ ToSet(_dtor(classes, d)) = all(d) /\ Len(_dtor(classes, d)) = Cardinality(all(d))
          /\ Cardinality(holders(d)) <= 1 => _type_singleton(classes, d).refs = all(d)

(* The structure of a class starts with that of its base, which comes      *)
(* earlier in the header; a field is taken from the class that declares it *)
(* nearest to the code.                                                    *)
BasesComeFirst(ctx) ==
    LET order == _order(ctx)
        at(c) == CHOOSE i \in DOMAIN order : order[i] = c
    IN  /\ ToSet(order) = ToSet(ctx.order) /\ Len(order) = Len(ctx.order)
        /\ \A c \in ToSet(order) : ctx.super[c] \in ToSet(order) => at(ctx.super[c]) < at(c)
        /\ \A c \in ToSet(order) : \A n \in DOMAIN _build(ctx)[c].field_decl :
              _build(ctx)[c].field_decl[n] =
                 FirstOf(Above(ctx, c), LAMBDA x : \E f \in ToSet(ctx.fields[x]) : f.name = n)

-----------------------------------------------------------------------------
(* Text of a method or task.  In a task the parameters are in the frame.   *)

RECURSIVE expr(_, _)
expr(e, store) ==
    CASE e.e = "const" -> <<Lit(e.n)>>
      [] e.e = "local" -> << <<"auto", e.v>> >>
      [] e.e = "param" -> << <<store, e.v>> >>
      [] e.e = "field" -> << <<"self", e.v>> >>
      [] e.e = "bin"   -> Paren(expr(e.l, store) \o <<Op(e.op)>> \o expr(e.r, store))

RECURSIVE stmt(_, _)
stmt(st, store) ==
    LET text(e)     == Text(expr(e, store))
        block(body) == [i \in DOMAIN body |-> stmt(body[i], store)]
    IN  CASE st.s = "return" -> Return(text(st.e))
          [] st.s = "assign" -> Assign(text(st.tgt), text(st.e))
          [] st.s = "call"   -> Call(st.f, text(st.e))
          [] st.s = "if"     -> If(text(st.e), block(st.body), block(st.orelse))

_method_body(body) == [i \in DOMAIN body |-> stmt(body[i], "auto")]

(* Every other statement and expression raises NotImplementedError.        *)
MethodReliable(body) ==
    /\ \A st \in SubStmts(body) : st.s \in {"return", "assign", "call", "if"}
    /\ \A e \in AllExprs(body) :
          /\ e.e \in {"const", "local", "param", "field", "bin"}
          /\ e.e = "bin" => e.op \in {"+", "-", "*"} \cup Comparisons

-----------------------------------------------------------------------------
(* Tasks: _CoSplitter.split and _coroutine_body.  A delay, or a call of an *)
(* asynchronous method with or without a target, ends a case.              *)

Suspends(st) ==
    /\ st.s \in {"do", "assign"} /\ st.e.e = "await"
    /\ st.e.kind = "method" \/ (st.e.kind = "wait" /\ st.s = "do")

split(body) ==
    LET cuts == SetToSortSeq({i \in DOMAIN body : Suspends(body[i])}, <)
        first(n) == IF n = 1 THEN 1 ELSE cuts[n - 1] + 1
    IN  [n \in 1 .. Len(cuts) + 1 |->
            IF n <= Len(cuts)
            THEN [stmts |-> SubSeq(body, first(n), cuts[n] - 1), suspend |-> <<body[cuts[n]]>>]
            ELSE [stmts |-> SubSeq(body, first(n), Len(body)), suspend |-> << >>]]

(* A return is the last statement of the task and not inside another one:  *)
(* further up it is refused, further in it is printed as the return of C.  *)
(* Locals are not declared.                                                *)
TaskReliable(body) ==
    /\ MethodReliable(SelectSeq(body, LAMBDA st : ~Suspends(st)))
    /\ \A st \in ToSet(body) : Suspends(st) => MethodReliable(<<Call("", st.e.arg)>>)
    /\ \A e \in AllExprs(body) : e.e # "local"
    /\ \A st \in ToSet(body) : \A x \in SubStmts(Inner(st)) : x.s # "return"
    /\ \A i \in DOMAIN body : body[i].s = "return" => i = Len(body)

(* The value of a subtask is taken first thing in the next case. *)
Taken(st, run) == IF st.s = "assign" THEN Set(run, expr(st.tgt, "frame")[1], run.rval) ELSE run

CaseText(block) == [i \in DOMAIN block.stmts |-> stmt(block.stmts[i], "frame")]

RECURSIVE RunCases(_, _, _), _emit_suspend(_, _, _)
RunCases(blocks, i, run) == _emit_suspend(blocks, i, Exec(CaseText(blocks[i]), run))

(* zsp_timebase_wait or zsp_timebase_call; the thread comes back to the    *)
(* index stored before.                                                    *)
_emit_suspend(blocks, i, run) ==
    IF blocks[i].suspend = << >> THEN run
    ELSE LET st == blocks[i].suspend[1]
         IN  RunCases(blocks, i + 1,
                      Taken(st, Awaited(run, st.e.kind, CVal(expr(st.e.arg, "frame"), run.m))))

(* Case 0 moves the arguments to the frame. *)
_coroutine_body(body, run) ==
    RunCases(split(body), 1,
             [run EXCEPT !.m = [loc \in DOMAIN run.m |->
                 IF loc[1] = "frame" THEN run.m[<<"auto", loc[2]>>] ELSE run.m[loc]]])
=============================================================================
