------------------------------- MODULE CUnits --------------------------------
(***************************************************************************)
(* passes/c_emit.py: the header and the source file that CEmitPass prints  *)
(* for a component, as the C compiler reads them: which names a file       *)
(* defines, declares and uses, in their order.                             *)
(*                                                                         *)
(* A design d has the components d.order; d.fields[c], a sequence of       *)
(* [name, k, ref], with the kinds of _collect_field_meta; d.frames[c], the *)
(* coroutines [fn, acts, params] with the actions they keep; d.sync[c],    *)
(* the functions [fn, process]; d.direct[c], the functions called          *)
(* directly; d.binds[c], the [type, port, fn] wired by init; d.sched[c],   *)
(* whether there is a scheduler; d.locks[c], the pools that are locked;    *)
(* and d.actions, a sequence of [name, contract, statics].                 *)
(***************************************************************************)
EXTENDS Sequences, FiniteSets, SequencesExt

(* Lines of a file: an include; a definition, which may occur once in a    *)
(* unit unless it is guarded; a declaration.                               *)
Include(h)        == [line |-> "include", file |-> h]
Def(names, uses)  == [line |-> "def", names |-> names, uses |-> uses]
Once(names, uses) == [line |-> "once", names |-> names, uses |-> uses]
Decl(names, uses) == [line |-> "decl", names |-> names, uses |-> uses]

T(c) == c \o "_t"
All(s, op(_)) == FlattenSeq([i \in DOMAIN s |-> op(s[i])])
Those(s, test(_)) == SelectSeq(s, test)
When(cond, lines) == IF cond THEN lines ELSE << >>

Kind(d, c, k)    == Those(d.fields[c], LAMBDA f : f.k = k)
Has(d, c, k)     == Kind(d, c, k) # << >>
Ports(d, c)      == Those(d.fields[c], LAMBDA f : f.k \in {"method_port", "method_export"})

(* The headers of the runtime, for what the generated files use.           *)
Runtime(h) ==
    CASE h = "zsp_mutex.h"    -> {"zsp_mutex_t", "zsp_mutex_init", "zsp_mutex_acquire"}
      [] h = "zsp_memory.h"   -> {"zsp_memory_t", "zsp_memory_init"}
      [] h = "zsp_indexed_pool.h" -> {"zsp_indexed_pool_t", "zsp_indexed_pool_init"}
      [] h = "zsp_timebase.h" -> {"zsp_frame_t", "zsp_thread_t", "zsp_timebase_t"}
      [] h = "zsp_alloc.h"    -> {"zsp_alloc_t"}
      [] h = "zsp_init_ctxt.h"-> {"zsp_init_ctxt_t"}
      [] h = "setjmp.h"       -> {"jmp_buf", "setjmp", "longjmp"}
      [] OTHER                -> {}

-----------------------------------------------------------------------------
(* The header. *)

(* Mutant: the headers of the elements of pools are forgotten. *)
includes_without_elements(d, c) ==
    <<Include("setjmp.h")>>
        \o When(Has(d, c, "indexed_pool"), <<Include("zsp_indexed_pool.h")>>)
        \o When(Has(d, c, "claim_pool"), <<Include("zsp_mutex.h")>>)
        \o When(Has(d, c, "memory"), <<Include("zsp_memory.h")>>)
        \o All(Kind(d, c, "component"), LAMBDA f : <<Include(f.ref)>>)

IncludesOf(d, c) ==
    <<Include("setjmp.h")>>
        \o When(Has(d, c, "indexed_pool"), <<Include("zsp_indexed_pool.h")>>)
        \o When(Has(d, c, "claim_pool"),
                <<Include("zsp_mutex.h")>>
                \o All(Kind(d, c, "claim_pool"), LAMBDA f : <<Include(f.ref)>>))
        \o When(Has(d, c, "memory"), <<Include("zsp_memory.h")>>)
        \o All(Kind(d, c, "component"), LAMBDA f : <<Include(f.ref)>>)

(* Each class once. *)
_emit_py_struct_typedef(d, c) ==
    LET refs == {f.ref : f \in ToSet(Kind(d, c, "py_struct"))}
    IN  [i \in 1 .. Cardinality(refs) |-> Def({T(SetToSeq(refs)[i])}, {})]

ActsOf(d, c) == UNION {d.frames[c][i].acts : i \in DOMAIN d.frames[c]}

_emit_action_typedefs(d, c) ==
    All(Those(d.actions, LAMBDA a : a.name \in ActsOf(d, c)), LAMBDA a : <<Def({T(a.name)}, {})>>)

(* For the actions of the component, and for all others of the design.     *)
_emit_action_contract_funcs(d, c) ==
    All(Those(d.actions, LAMBDA a : a.contract),
        LAMBDA a : <<Def({a.name \o "_check"}, {T(a.name)})>>)

_emit_static_inline_func(fn) == Once({fn}, {})

_emit_static_inline_funcs(d, c) ==
    All(d.actions, LAMBDA a :
            [i \in DOMAIN a.statics |-> _emit_static_inline_func(a.statics[i])])

(* The type of a port comes from the header of its protocol, and a         *)
(* callable port has one as well.                                          *)
PortTypes(d, c) ==
    When(Ports(d, c) # << >> \/ Has(d, c, "callable_port"), <<Include("zsp_timebase.h")>>)
        \o All(Ports(d, c), LAMBDA f : <<Include("protocol " \o f.ref)>>)

_emit_func_ptr_struct(proto) == Def({T(proto)}, {})

_emit_protocol_header(proto) == <<Include("zsp_timebase.h"), _emit_func_ptr_struct(proto)>>

(* What must be complete for a member. *)
MemberUses(f) ==
    CASE f.k \in {"component", "py_struct", "method_port", "method_export"} -> {T(f.ref)}
      [] f.k = "claim_pool"   -> {T(f.ref), "zsp_mutex_t"}
      [] f.k = "memory"       -> {"zsp_memory_t"}
      [] f.k = "indexed_pool" -> {"zsp_indexed_pool_t"}
      [] f.k = "fifo"         -> {"zsp_fifo_t"}
      [] OTHER                -> {}

StructDef(d, c) ==
    Def({T(c)}, {"jmp_buf"} \cup UNION {MemberUses(f) : f \in ToSet(d.fields[c])})

FnTypes(d, c) == All(Kind(d, c, "callable_port"), LAMBDA f : <<Def({c \o "_" \o f.name \o "_fn_t"}, {})>>)

(* The functions on fields that other files may call. *)
FieldFunctions(d, c, f) ==
    LET fn(op) == c \o op \o f.name
    IN  CASE f.k = "plain"           -> <<Decl({fn("_get_"), fn("_set_")}, {T(c)})>>
          [] f.k = "indexed_regfile" -> <<Decl({fn("_get_")}, {T(c)})>>
          [] f.k = "callable_port"   -> <<Decl({fn("_bind_")}, {T(c), fn("_") \o "_fn_t"})>>
          [] f.k = "method_port"     -> <<Decl({fn("_bind_")}, {T(c), T(f.ref)})>>
          [] f.k = "method_export"   -> <<Decl({fn("_")}, {T(f.ref)})>>
          [] f.k = "memory"          -> <<Decl({fn("_mem_read_"), fn("_mem_fetch_")}, {T(c)})>>
          [] f.k = "component"       -> <<Decl({fn("_ptr_")}, {T(c), T(f.ref)})>>
          [] OTHER                   -> << >>

Lifecycle(c) == Decl({c \o "_init", c \o "_run", c \o "_halt"}, {T(c)})

(* The processes with parameters. *)
ProcessDecls(d, c) ==
    All(Those(d.sync[c], LAMBDA s : s.process), LAMBDA s : <<Decl({s.fn}, {T(c)})>>)
        \o All(Those(d.frames[c], LAMBDA fr : fr.params), LAMBDA fr : <<Decl({fr.fn}, {T(c)})>>)

_emit_header(d, c) ==
    IncludesOf(d, c) \o _emit_py_struct_typedef(d, c) \o _emit_action_typedefs(d, c)
        \o _emit_action_contract_funcs(d, c) \o _emit_static_inline_funcs(d, c)
        \o PortTypes(d, c) \o <<StructDef(d, c)>> \o FnTypes(d, c) \o <<Lifecycle(c)>>
        \o All(d.fields[c], LAMBDA f : FieldFunctions(d, c, f)) \o ProcessDecls(d, c)

-----------------------------------------------------------------------------
(* The source file. *)

DirectDecls(d, c) == [i \in DOMAIN d.direct[c] |-> Decl({d.direct[c][i]}, {})]

_emit_coroutine_locals_typedef(d, c, fr) ==
    Def({fr.fn \o "_locals_t"}, {"zsp_frame_t", T(c)} \cup {T(a) : a \in fr.acts})

_emit_coroutine(d, c, fr) ==
    Def({fr.fn \o "_task"}, {fr.fn \o "_locals_t", "zsp_thread_t"} \cup ToSet(d.direct[c]))

_emit_coroutine_entry_fn(fr) == Def({fr.fn}, {fr.fn \o "_task", fr.fn \o "_locals_t"})

InitUses(f) ==
    CASE f.k = "component"    -> {f.ref \o "_init"}
      [] f.k = "claim_pool"   -> {f.ref \o "_init", "zsp_mutex_init"}
      [] f.k = "indexed_pool" -> {"zsp_indexed_pool_init"}
      [] f.k = "memory"       -> {"zsp_memory_init", "zsp_alloc_t", "zsp_init_ctxt_t"}
      [] f.k = "fifo"         -> {"zsp_fifo_init"}
      [] OTHER                -> {}

_emit_init_fn(d, c) ==
    Def({c \o "_init body"},
        UNION {InitUses(f) : f \in ToSet(d.fields[c])}
        \cup UNION {{b.type \o "_bind_" \o b.port, b.fn} : b \in d.binds[c]})

(* The scheduler, or the tasks, or the components inside.                  *)
RunUses(d, c) ==
    IF d.sched[c] THEN {c \o "_sched"}
    ELSE IF d.frames[c] # << >>
    THEN UNION {{fr.fn \o "_task", fr.fn \o "_locals_t", "zsp_timebase_t"} :
                    fr \in ToSet(d.frames[c])}
    ELSE {f.ref \o "_run" : f \in ToSet(Kind(d, c, "component"))}

_emit_run_fn(d, c) == Def({c \o "_run body"}, {"setjmp", "longjmp"} \cup RunUses(d, c))

_emit_mutex_acquire(d, c) ==
    All(d.locks[c], LAMBDA pool : <<Def({c \o "_" \o pool \o "_acquire"}, {"zsp_mutex_acquire", T(c)})>>)

_emit_source(d, c) ==
    <<Include(c)>>
        \o When(Has(d, c, "memory"), <<Include("zsp_alloc.h"), Include("zsp_init_ctxt.h")>>)
        \o DirectDecls(d, c)
        \o All(Kind(d, c, "method_export"), LAMBDA f : <<Def({c \o "_" \o f.name \o " body"}, {T(f.ref)})>>)
        \o When(d.frames[c] # << >>, <<Include("zsp_timebase.h")>>)
        \o All(d.frames[c], LAMBDA fr : <<_emit_coroutine_locals_typedef(d, c, fr)>>)
        \o All(d.frames[c], LAMBDA fr : <<_emit_coroutine(d, c, fr)>>
                   \o When(fr.params, <<_emit_coroutine_entry_fn(fr)>>))
        \o <<_emit_init_fn(d, c), _emit_run_fn(d, c)>>
        \o When(d.sched[c], <<Def({c \o "_sched"}, {})>>)
        \o All(d.sync[c], LAMBDA s : <<Def({s.fn \o " body"}, {T(c)})>>)
        \o _emit_mutex_acquire(d, c)

-----------------------------------------------------------------------------
(* The compiler: files are included once, and what is left are lines.      *)
Components(d) == ToSet(d.order)
Protocols(d)  == {f.ref : f \in UNION {ToSet(Ports(d, c)) : c \in Components(d)}}

File(d, h) ==
    IF h \in Components(d) THEN _emit_header(d, h)
    ELSE IF \E p \in Protocols(d) : h = "protocol " \o p
    THEN _emit_protocol_header(CHOOSE p \in Protocols(d) : h = "protocol " \o p)
    ELSE <<Once(Runtime(h), {})>>

RECURSIVE Expand(_, _, _)
Expand(d, file, acc) ==
    FoldLeft(LAMBDA a, l :
                 IF l.line # "include" THEN [a EXCEPT !.lines = Append(@, l)]
                 ELSE IF l.file \in a.seen THEN a
                 ELSE Expand(d, File(d, l.file), [a EXCEPT !.seen = @ \cup {l.file}]),
             acc, file)

Unit(d, c) == Expand(d, _emit_source(d, c), [lines |-> << >>, seen |-> {}]).lines

Compiles(lines) ==
    \A i \in DOMAIN lines :
        LET before == UNION {lines[j].names : j \in 1 .. i - 1}
        IN  /\ lines[i].uses \subseteq before
            /\ lines[i].line = "def" =>
                   \A j \in 1 .. i - 1 : lines[j].line = "def" => lines[j].names \cap lines[i].names = {}

(* The components a header brings in. *)
Reaches(d, c) ==
    {h \in Components(d) : h \in Expand(d, _emit_source(d, c), [lines |-> << >>, seen |-> {}]).seen}

(* A component has no FIFO, whose header nobody includes, no scheduler,    *)
(* which is defined after its use, and locks a pool once.  What is printed into every header that *)
(* needs it, unguarded (the types of actions and of Python classes), is    *)
(* needed by one header only; and contracts are printed into all of them.  *)
ReliableDesign(d) ==
    \A c \in Components(d) :
        /\ ~Has(d, c, "fifo") /\ ~d.sched[c]
        /\ Cardinality(ToSet(d.locks[c])) = Len(d.locks[c])
        /\ \A b, e \in Reaches(d, c) : b # e =>
               /\ ActsOf(d, b) \cap ActsOf(d, e) = {}
               /\ {f.ref : f \in ToSet(Kind(d, b, "py_struct"))}
                      \cap {f.ref : f \in ToSet(Kind(d, e, "py_struct"))} = {}
        /\ (\E a \in ToSet(d.actions) : a.contract) =>
               /\ Reaches(d, c) = {c}
               /\ \A a \in ToSet(d.actions) : a.contract => a.name \in ActsOf(d, c)

(* Each generated file compiles: every type and function is declared       *)
(* before the line that uses it, through the headers that are included,    *)
(* and nothing is defined twice, however components share and nest types.  *)
UnitsCompile(d) == ReliableDesign(d) => \A c \in Components(d) : Compiles(Unit(d, c))
=============================================================================
