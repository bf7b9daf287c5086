--------------------------- MODULE ComponentStruct --------------------------
(***************************************************************************)
(* The C object of a component as CEmitPass prints it: the struct, the     *)
(* init function, the functions on its fields, and the Python module that  *)
(* tells ctypes their signatures; with the nodes that ChannelPortLowerPass *)
(* adds for the fields, and ResourceLowerPass for the bodies.              *)
(*                                                                         *)
(* A field is [name, t, bits, signed, idx, hint]: bits is the width of an  *)
(* integer or of the elements, idx the width of an index, and hint tells   *)
(* whether the type hint of the Python class is there.                     *)
(* A C type is <<"uint", w>>, <<"int", w>> or <<"ptr">>.                   *)
(***************************************************************************)
EXTENDS AccessLower

Ptr  == <<"ptr">>
Void == <<"void">>

_round_to_std_bits(b) == Min({w \in {8, 16, 32, 64} : b <= w} \cup {64})
Unsigned(b) == <<"uint", _round_to_std_bits(b)>>
CInt(f)     == IF f.signed THEN <<"int", _round_to_std_bits(f.bits)>>
               ELSE Unsigned(f.bits)

(* _collect_field_meta: the kind that decides what is printed for a field. *)
(* An alias is a reference to an integer type, a channel is seen by        *)
(* ChannelPortLowerPass only.                                              *)
kind(f) ==
    CASE f.t \in {"int", "bool", "alias"} -> "plain"
      [] f.t \in {"callable_port", "method_port", "method_export",
                  "indexed_regfile", "indexed_pool", "claim_pool", "memory",
                  "component", "py_struct"} -> f.t
      [] f.t \in {"untyped", "channel", "get_if", "put_if", "queue", "lock"} -> "skip"

(* Without a hint an index has 5 bits and an element 32. *)
idx_bits(f)  == IF f.hint THEN f.idx ELSE 5
elem_bits(f) == IF f.hint THEN f.bits ELSE 32
depth(f)     == 2 ^ idx_bits(f)

c_type(f) == IF f.t = "bool" THEN <<"uint", 8>> ELSE CInt(f)

(* ChannelPortLowerPass._lower_field: the fields that become FIFOs. *)
SwFifos(fields) == {f \in fields : f.t \in {"channel", "get_if", "put_if", "queue"}}

(* CEmitPass._emit_struct_def: members as <<name, what>>.                  *)
MembersOf(f) ==
    CASE kind(f) = "plain"         -> {<<f.name, "int">>}
      [] kind(f) = "indexed_regfile" -> {<<f.name, "array">>}
      [] kind(f) = "claim_pool"    -> {<<f.name, "element">>, <<f.name, "mutex">>}
      [] kind(f) = "callable_port" -> {<<f.name, "function">>, <<f.name, "ud">>}
      [] kind(f) = "skip"          -> {}
      [] OTHER                     -> {<<f.name, kind(f)>>}

_emit_struct_def(fields) ==
    UNION {MembersOf(f) : f \in fields} \cup {<<f.name, "fifo">> : f \in SwFifos(fields)}

(* CEmitPass._emit_init_fn: the members that are initialised by a call.    *)
InitOf(f) ==
    CASE kind(f) \in {"component", "indexed_pool", "memory"} -> {<<f.name, kind(f)>>}
      [] kind(f) = "claim_pool" -> {<<f.name, "element">>, <<f.name, "mutex">>}
      [] OTHER                  -> {}

_emit_init_fn(fields) ==
    UNION {InitOf(f) : f \in fields} \cup {<<f.name, "fifo">> : f \in SwFifos(fields)}

(* The functions, as <<name, field, argument types, result>>.              *)
Fn(fn, f, args, ret) == <<fn, f.name, <<Ptr>> \o args, ret>>

_emit_field_accessors(f) ==
    {Fn("get", f, << >>, c_type(f)), Fn("set", f, <<c_type(f)>>, Void)}

_emit_regfile_accessors(f) ==
    LET i == Unsigned(idx_bits(f))
        e == Unsigned(elem_bits(f))
    IN  {Fn("rf_get", f, <<i>>, e), Fn("rf_set", f, <<i, e>>, Void),
         Fn("rf_read_all", f, <<Ptr, Unsigned(32)>>, Void)}

_emit_backdoor_memory_api(f) ==
    {Fn("mem_read", f, <<Unsigned(32)>>, Unsigned(64)),
     Fn("mem_write", f, <<Unsigned(32), Unsigned(64)>>, Void)}

_emit_subcomp_accessors(f) == {Fn("ptr", f, << >>, Ptr)}

_emit_port_binders(f) == {Fn("bind", f, <<Ptr, Ptr>>, Void)}

FunctionsOf(f) ==
    CASE kind(f) = "plain"           -> _emit_field_accessors(f)
      [] kind(f) = "indexed_regfile" -> _emit_regfile_accessors(f)
      [] kind(f) = "memory"          -> _emit_backdoor_memory_api(f)
      [] kind(f) = "component"       -> _emit_subcomp_accessors(f)
      [] kind(f) \in {"callable_port", "method_port"} -> _emit_port_binders(f)
      [] OTHER                       -> {}

_emit_source(fields) == UNION {FunctionsOf(f) : f \in fields}

(* CEmitPass._emit_abi_sidecar: only a field that is an integer itself has *)
(* its own width here.                                                     *)
AbiInt(f) == IF f.t = "int" THEN CInt(f) ELSE Unsigned(32)

AbiOf(f) ==
    CASE kind(f) = "plain" ->
            {Fn("get", f, << >>, AbiInt(f)), Fn("set", f, <<AbiInt(f)>>, Void)}
      [] kind(f) = "indexed_regfile" ->
            {Fn("rf_get", f, <<Unsigned(idx_bits(f))>>, Unsigned(elem_bits(f))),
             Fn("rf_set", f, <<Unsigned(idx_bits(f)), Unsigned(elem_bits(f))>>, Void),
             Fn("rf_read_all", f, <<Ptr, Unsigned(32)>>, Void)}
      [] kind(f) = "callable_port" -> {Fn("bind", f, <<Ptr, Ptr>>, Void)}
      [] kind(f) = "memory" ->
            {Fn("mem_read", f, <<Unsigned(32)>>, Unsigned(64)),
             Fn("mem_write", f, <<Unsigned(32), Unsigned(64)>>, Void)}
      [] kind(f) = "component" -> {Fn("ptr", f, << >>, Ptr)}
      [] OTHER -> {}

_emit_abi_sidecar(fields) == UNION {AbiOf(f) : f \in fields}

(* An element of a register file, by the index that the accessor uses.     *)
regfile_index(f, idx) == idx % depth(f)

-----------------------------------------------------------------------------
(* What ctypes is told of a function is its signature in C, for every      *)
(* field except a bool and an alias, which are 32 bits to ctypes only; it  *)
(* is told of every function but the binders of method ports.              *)
SidecarMatchesC(fields) ==
    LET exact == {f \in fields : f.t \notin {"bool", "alias"}}
    IN  /\ _emit_abi_sidecar(exact) \subseteq _emit_source(exact)
        /\ {<<fn[1], fn[2]>> : fn \in _emit_abi_sidecar(fields)}
               = {<<fn[1], fn[2]>> : fn \in _emit_source(
                     {f \in fields : kind(f) # "method_port"})}

(* The functions that the bodies of a component give rise to use members   *)
(* that exist and that init has initialised, as long as the pools that are *)
(* locked are claim pools.                                                 *)
NodesUseLiveMembers(fields, bodies) ==
    LET types == [n \in {f.name : f \in fields} |->
                     IF (CHOOSE f \in fields : f.name = n).t = "claim_pool"
                     THEN "ClaimPool" ELSE "int"]
        used  == _emit_mutex_acquire(lower_resources(types, bodies))
                 \cup {<<f.name, "fifo">> : f \in SwFifos(fields)}
    IN  used \subseteq _emit_struct_def(fields) \cap _emit_init_fn(fields)
=============================================================================
