---------------------------- MODULE CallDispatch -----------------------------
(***************************************************************************)
(* stmt_generator.py, the calls of a method body: which C function is      *)
(* named, with which first argument, for a call on a field of the          *)
(* component.                                                              *)
(*                                                                         *)
(* A design d has the component's type d.top, the types d.types, the       *)
(* context of the generator (tlm_port_mode, hoisted_ports, devirt_map),    *)
(* and what ports are bound to: d.bound[path] = [type, inst].  A path is   *)
(* the sequence of field indices from self.  The methods in d.async are    *)
(* coroutines, which C calls with a thread and a place for the frame.      *)
(***************************************************************************)
EXTENDS Integers, Sequences, FiniteSets, SequencesExt

FieldAt(d, type, i) ==
    IF type \in DOMAIN d.types /\ i \in DOMAIN d.types[type].fields
    THEN d.types[type].fields[i]
    ELSE [name |-> "field", kind |-> "none", t |-> "none"]

(* The type of a field: that of its elements for a claim pool.             *)
Element(t) == IF t = "pool" THEN "Unit" ELSE t

(* The type a path leads to, starting at self. *)
_get_field_type(d, path) ==
    FoldLeft(LAMBDA type, i : Element(FieldAt(d, type, i).t), d.top, path)

(* The field a path of one index names; deeper ones have no kind.          *)
_get_field_kind(d, path) ==
    IF Len(path) = 1 THEN FieldAt(d, d.top, path[1]).kind ELSE "none"
_get_field_name(d, path) ==
    IF Len(path) = 1 THEN FieldAt(d, d.top, path[1]).name ELSE "none"

_is_port_type(d, path) == _get_field_kind(d, path) \in {"port", "protocol", "callable"}
_is_memory_type(d, path) == _get_field_type(d, path) = "memory"
_is_callable_port(d, type, name) ==
    \E i \in DOMAIN d.types[type].fields :
        d.types[type].fields[i].name = name /\ d.types[type].fields[i].kind = "callable"

(* self->a.b: the name of each index is looked up in the type before it.   *)
_gen_dm_field_ref(d, path) ==
    [i \in DOMAIN path |->
        FieldAt(d, _get_field_type(d, SubSeq(path, 1, i - 1)), path[i]).name]

-----------------------------------------------------------------------------
(* The C text of a call: the function it names, and its arguments.  first  *)
(* is the argument the generator adds.                                     *)
CCall(fn, first, args) == [fn |-> fn, args |-> <<first>> \o args]
Unsupported == [fn |-> <<"comment">>, args |-> << >>]

(* A list of arguments that is joined behind a comma must not be empty.    *)
Joined(args) == IF args = << >> THEN << <<"missing">> >> ELSE args

(* zdc.u8(x) and the like, int(x) and bool(x): a cast.                     *)
CastWidth == [u8 |-> 8, i8 |-> 8, bit1 |-> 8, bit8 |-> 8, u16 |-> 16, i16 |-> 16, bit16 |-> 16]
Signed == {"i8", "i16"}

Wrapped(v, w, signed) ==
    LET u == v % (2 ^ w)
    IN  IF signed /\ u >= 2 ^ (w - 1) THEN u - (2 ^ w) ELSE u

GenCast(to, v) ==
    IF to \in DOMAIN CastWidth THEN Wrapped(v, CastWidth[to], to \in Signed) ELSE v
PyCast(to, v) ==
    CASE to = "bool" -> IF v = 0 THEN 0 ELSE 1
      [] to = "bit1" -> v % 2
      [] OTHER       -> GenCast(to, v)

GenArgs(call) == [i \in DOMAIN call.args |-> <<"num", GenCast(call.args[i].to, call.args[i].v)>>]
PyArgs(call)  == [i \in DOMAIN call.args |-> <<"num", PyCast(call.args[i].to, call.args[i].v)>>]

(* Target__slot, and Target__slot_task for a coroutine.                    *)
_devirt_direct_fn(d, name, slot, is_async) ==
    IF name \in DOMAIN d.devirt
    THEN <<"function", d.devirt[name] \o "__" \o slot \o (IF is_async THEN "_task" ELSE "")>>
    ELSE << >>

(* The implementation, from the local it was hoisted to or from the port.  *)
ImplOf(d, path) ==
    IF _get_field_name(d, path) \in d.hoisted
    THEN <<"local", "_" \o _get_field_name(d, path) \o "_impl">>
    ELSE <<"member", _gen_dm_field_ref(d, path), "impl">>

CallableArgs(base, attr) == <<"member", base, attr \o "_ud">>

(* self.port.method(args) *)
GenPortCall(d, path, attr, args) ==
    LET base   == _gen_dm_field_ref(d, path)
        direct == _devirt_direct_fn(d, _get_field_name(d, path), attr, FALSE)
    IN  IF _get_field_kind(d, path) = "protocol" /\ d.tlm
        THEN IF direct # << >> THEN CCall(direct, ImplOf(d, path), args)
             ELSE CCall(<<"member", base, attr>>, ImplOf(d, path), Joined(args))
        ELSE CCall(<<"pointee", base, attr>>, <<"pointee", base, "self">>, Joined(args))

(* self.component.method(args): a callable port, or a function of the type. *)
GenComponentCall(d, path, attr, args) ==
    LET base == _gen_dm_field_ref(d, path)
        type == _get_field_type(d, path)
    IN  IF _is_callable_port(d, type, attr)
        THEN CCall(<<"member", base, attr>>, CallableArgs(base, attr), args)
        ELSE IF attr \in d.types[type].functions
        THEN CCall(<<"function", type \o "_" \o attr>>, <<"address", base>>, args)
        ELSE Unsupported

(* A call in an expression; form "field" is self.f(args) with f a field.   *)
_gen_dm_call(d, call) ==
    LET args == GenArgs(call)
        path == call.path
    IN  IF call.form = "field"
        THEN IF _get_field_kind(d, path) = "callable"
             THEN CCall(<<"member", << >>, _get_field_name(d, path)>>,
                        CallableArgs(<< >>, _get_field_name(d, path)), args)
             ELSE Unsupported
        ELSE IF path = << >>
        THEN IF _is_callable_port(d, d.top, call.attr)
             THEN CCall(<<"member", << >>, call.attr>>, CallableArgs(<< >>, call.attr), args)
             ELSE Unsupported
        ELSE IF _is_port_type(d, path) THEN GenPortCall(d, path, call.attr, args)
        ELSE IF _is_memory_type(d, path)
        THEN IF call.attr \in {"read", "write"}
             THEN CCall(<<"function", "zsp_memory_" \o call.attr>>,
                        <<"address", _gen_dm_field_ref(d, path)>>, args)
             ELSE Unsupported
        ELSE IF _get_field_type(d, path) \in DOMAIN d.types
        THEN GenComponentCall(d, path, call.attr, args)
        ELSE Unsupported

(* target = await self.port.method(args): the call gets a thread and a     *)
(* place for the frame, and its result is taken from the thread.           *)
_maybe_async_port_block(d, call) ==
    LET direct == _devirt_direct_fn(d, _get_field_name(d, call.path), call.attr, TRUE)
        fn     == IF direct # << >> THEN direct
                  ELSE <<"member", _gen_dm_field_ref(d, call.path), call.attr>>
    IN  CCall(fn, ImplOf(d, call.path),
              << <<"thread">> >> \o GenArgs(call) \o << <<"frame">> >>)

GenCall(d, call) ==
    IF call.await /\ call.form = "method" /\ d.tlm /\ _get_field_kind(d, call.path) = "protocol"
    THEN _maybe_async_port_block(d, call)
    ELSE _gen_dm_call(d, call)

-----------------------------------------------------------------------------
(* What the C text calls: the type and method of the function, the object  *)
(* it is given, the rest of its arguments.  The struct of a protocol port  *)
(* is a member with impl and a slot for each method; an old port points to *)
(* such a struct; a callable port is a function and its user data.         *)

Nothing == [fn |-> "none", on |-> << >>, args |-> << >>]

PathOf(d, names) ==
    CHOOSE path \in UNION {[1 .. n -> 1 .. 6] : n \in 0 .. 2} :
        Len(path) = Len(names) /\ _gen_dm_field_ref(d, path) = names
Exists(d, names) ==
    \E path \in UNION {[1 .. n -> 1 .. 6] : n \in 0 .. 2} :
        Len(path) = Len(names) /\ _gen_dm_field_ref(d, path) = names

Named(d, t, m) == t \o "__" \o m \o (IF m \in d.async THEN "_task" ELSE "")

(* The function behind a name, and the object an argument denotes.         *)
FunctionAt(d, fn) ==
    CASE fn[1] = "function" -> fn[2]
      [] fn[1] \in {"member", "pointee"} ->
            LET own == Append(fn[2], fn[3])
            IN  IF Exists(d, own)
                THEN d.bound[PathOf(d, own)].type
                ELSE Named(d, d.bound[PathOf(d, fn[2])].type, fn[3])
      [] OTHER -> "none"

ObjectAt(d, arg) ==
    CASE arg[1] = "address" -> PathOf(d, arg[2])
      [] arg[1] = "local"   -> d.bound[CHOOSE p \in DOMAIN d.bound :
                                          arg[2] = "_" \o _get_field_name(d, p) \o "_impl"].inst
      [] arg[1] \in {"member", "pointee"} ->
            IF arg[3] \in {"impl", "self"}
            THEN d.bound[PathOf(d, arg[2])].inst
            ELSE d.bound[CHOOSE p \in DOMAIN d.bound :
                            /\ _gen_dm_field_ref(d, Front(p)) = arg[2]
                            /\ Last(_gen_dm_field_ref(d, p)) \o "_ud" = arg[3]].inst

CSees(d, c) ==
    IF c = Unsupported THEN Nothing
    ELSE [fn |-> FunctionAt(d, c.fn), on |-> ObjectAt(d, c.args[1]), args |-> Tail(c.args)]

(* What Python calls: the bound method or function, or that of the object  *)
(* the path leads to; a coroutine with what C has to give it.              *)
PythonSees(d, call) ==
    LET own  == IF call.form = "field" THEN call.path
                ELSE Append(call.path,
                            CHOOSE i \in 1 .. 6 :
                                FieldAt(d, _get_field_type(d, call.path), i).name = call.attr)
        args == IF call.await THEN << <<"thread">> >> \o PyArgs(call) \o << <<"frame">> >>
                ELSE PyArgs(call)
        type == _get_field_type(d, call.path)
    IN  IF call.form = "method" /\ call.path \in DOMAIN d.bound
        THEN [fn |-> Named(d, d.bound[call.path].type, call.attr),
              on |-> d.bound[call.path].inst, args |-> args]
        ELSE IF call.form = "method" /\ type = "memory"
        THEN [fn |-> "zsp_memory_" \o call.attr, on |-> call.path, args |-> args]
        ELSE IF call.form = "method" /\ type \in DOMAIN d.types
                /\ call.attr \in d.types[type].functions
        THEN [fn |-> type \o "_" \o call.attr, on |-> call.path, args |-> args]
        ELSE [fn |-> d.bound[own].type, on |-> d.bound[own].inst, args |-> args]

(* The calls the generator supports: a port is one of the component        *)
(* itself, a coroutine is awaited and a method of a protocol port, and a   *)
(* port's method has an argument unless the call is direct or awaited.     *)
ReliableCall(d, call) ==
    LET kind == _get_field_kind(d, call.path)
        port == call.form = "method" /\ kind \in {"port", "protocol"}
    IN  /\ \A i \in DOMAIN call.args : GenArgs(call)[i] = PyArgs(call)[i]
        /\ GenCall(d, call) # Unsupported
        /\ call.await = (port /\ call.attr \in d.async)
        /\ call.await => kind = "protocol" /\ d.tlm
        /\ port /\ ~call.await /\ call.args = << >> =>
               kind = "protocol" /\ d.tlm /\ _get_field_name(d, call.path) \in DOMAIN d.devirt
        /\ port /\ kind = "protocol" => d.tlm

(* A call in the C text reaches the function and the object that the call  *)
(* reaches in Python, with the same arguments, whether it goes through a   *)
(* slot, a hoisted pointer or a direct call.                               *)
CallsReachCallee(d, call) ==
    ReliableCall(d, call) => CSees(d, GenCall(d, call)) = PythonSees(d, call)
=============================================================================
