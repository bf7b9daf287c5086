----------------------------- MODULE AccessLower ----------------------------
(***************************************************************************)
(* The lowering of calls on registers and memories to access nodes         *)
(* (MemRegAccessLowerPass), and of "with pool.lock()" to the acquire       *)
(* functions of a pool (ResourceLowerPass, CEmitPass).                     *)
(*                                                                         *)
(* A call is [recv, method, args]: recv is <<"self", field>> for a field   *)
(* of the component, <<"other", name>> for any other receiver and <<>> for *)
(* a plain call; args holds calls and <<"value", v>>.  A call that is one  *)
(* of the arguments is evaluated before the call itself.                   *)
(* A design is [order, fields]: the component types in the order of        *)
(* type_m, and for each of them its fields as a function to their types.   *)
(***************************************************************************)
EXTENDS Naturals, Sequences, FiniteSets, SequencesExt, FiniteSetsExt

RegReads  == {"read", "read_val"}
RegWrites == {"write", "write_val"}
RegRmws   == {"write_val_masked"}
RegFields == {"write_field", "write_fields", "write_masked"}
MemReads  == {"read8", "read16", "read32", "read64", "read"}
MemWrites == {"write8", "write16", "write32", "write64", "write"}

CallOn(recv, method, args) == [recv |-> recv, method |-> method, args |-> args]
IsCall(a) == "method" \in DOMAIN a
Value(v)  == [value |-> v]

(* The type of the receiver: that of the first field of this name that any *)
(* component has.                                                          *)
_receiver_type(d, recv) ==
    IF recv = << >> \/ recv[1] # "self" THEN "None"
    ELSE LET owners == {i \in DOMAIN d.order : recv[2] \in DOMAIN d.fields[d.order[i]]}
         IN  IF owners = {} THEN "None" ELSE d.fields[d.order[Min(owners)]][recv[2]]

_width_from_method(method) ==
    CASE method \in {"read8", "write8"}   -> 8
      [] method \in {"read16", "write16"} -> 16
      [] method \in {"read64", "write64"} -> 64
      [] OTHER                            -> 32

Node(kind, name, width) == [n |-> kind, on |-> name, width |-> width]
Refused == Node("ValueError", "", 0)

_lower_reg_call(call) ==
    LET name == IF call.recv[1] = "self" THEN call.recv[2] ELSE ""
    IN  CASE call.method \in RegFields -> Refused
          [] call.method \in RegRmws   -> Node("SwRegRmw", name, 0)
          [] call.method \in RegReads  -> Node("SwRegRead", name, 0)
          [] OTHER                     -> Node("SwRegWrite", name, 0)

(* A memory node keeps the address, not the memory it belongs to.          *)
_lower_mem_call(call) ==
    Node(IF call.method \in MemReads THEN "SwMemRead" ELSE "SwMemWrite",
         "", _width_from_method(call.method))

_lower_call(d, call) ==
    LET type == _receiver_type(d, call.recv)
    IN  CASE call.recv = << >>     -> << >>
          [] type = "register"     -> <<_lower_reg_call(call)>>
          [] type = "addr_space"   -> <<_lower_mem_call(call)>>
          [] type \notin {"register", "addr_space"} ->
                IF call.method \in RegReads \cup RegWrites \cup RegRmws \cup RegFields
                THEN <<_lower_reg_call(call)>>
                ELSE IF call.method \in MemReads \cup MemWrites
                THEN <<_lower_mem_call(call)>> ELSE << >>

(* A call comes before the calls among its arguments. *)
RECURSIVE _collect_calls(_)
_collect_calls(calls) ==
    IF calls = << >> THEN << >>
    ELSE <<Head(calls)>> \o _collect_calls(SelectSeq(Head(calls).args, IsCall))
         \o _collect_calls(Tail(calls))

(* MemRegAccessLowerPass._lower_function *)
_lower_function(d, body) ==
    FlattenSeq([i \in DOMAIN _collect_calls(body) |->
                    _lower_call(d, _collect_calls(body)[i])])

-----------------------------------------------------------------------------
(* ResourceLowerPass, for the top level statements of a body.  A statement *)
(* is [items, body], items holding <<field, method>>; a body of any other  *)
(* statement has no items.  Only the first item of a with is looked at,    *)
(* and the body of the with, like the release, is dropped.                 *)
IsPool(type) == type \in {"ClaimPool", "IndexedPool", "lock"}

_lower_with(fields, st) ==
    IF st.items = << >> THEN << >>
    ELSE LET item == Head(st.items)
         IN  IF /\ item[2] = "lock"
                /\ item[1] \in DOMAIN fields
                /\ IsPool(fields[item[1]])
             THEN <<Node("SwMutexAcquire", item[1], 0)>> ELSE << >>

lower_resources(fields, bodies) ==
    FlattenSeq([b \in DOMAIN bodies |-> FlattenSeq(
        [i \in DOMAIN bodies[b] |-> _lower_with(fields, bodies[b][i])])])

(* CEmitPass prints, for each node, a function that uses this member.      *)
_emit_mutex_acquire(nodes) == {<<nodes[i].on, "mutex">> : i \in DOMAIN nodes}

-----------------------------------------------------------------------------
(* Reference: the access that a call is, by the type of the field it is    *)
(* called on in its own component; other receivers are not accesses.       *)
Digits(method, w) == method \in {"read" \o ToString(w), "write" \o ToString(w)}

Access(fields, call) ==
    LET name == call.recv[2]
        reads == call.method \in MemReads \cup RegReads
    IN  CASE fields[name] = "register" ->
                {Node(IF call.method \in RegRmws THEN "SwRegRmw"
                      ELSE IF reads THEN "SwRegRead" ELSE "SwRegWrite", name, 0)}
          [] fields[name] = "addr_space" ->
                {Node(IF reads THEN "SwMemRead" ELSE "SwMemWrite", "",
                      IF \E w \in {8, 16, 64} : Digits(call.method, w)
                      THEN CHOOSE w \in {8, 16, 64} : Digits(call.method, w) ELSE 32)}
          [] OTHER -> {}

RECURSIVE AllCalls(_)
AllCalls(calls) == UNION {{c} \cup AllCalls(SelectSeq(c.args, IsCall)) : c \in ToSet(calls)}

(* Calls that the types of the fields allow, on fields whose name no other *)
(* component gives to a field of another type.                             *)
Legal(d, comp, body) ==
    \A c \in AllCalls(body) :
        /\ c.recv # << >> /\ c.recv[1] = "self" /\ c.recv[2] \in DOMAIN d.fields[comp]
        /\ \A t \in ToSet(d.order) :
               c.recv[2] \in DOMAIN d.fields[t] =>
                   d.fields[t][c.recv[2]] = d.fields[comp][c.recv[2]]
        /\ d.fields[comp][c.recv[2]] = "register" =>
               c.method \in RegReads \cup RegWrites \cup RegRmws
        /\ d.fields[comp][c.recv[2]] = "addr_space" => c.method \in MemReads \cup MemWrites
        /\ d.fields[comp][c.recv[2]] \in {"register", "addr_space"}

-----------------------------------------------------------------------------
(* Each call of a body is lowered to the access that the type of its       *)
(* receiver makes it, and to nothing else (the order of the nodes is not   *)
(* the order of evaluation: a call comes before its arguments).            *)
AccessesFollowTypes(d, comp, body) ==
    Legal(d, comp, body) =>
        /\ ToSet(_lower_function(d, body))
               = UNION {Access(d.fields[comp], c) : c \in AllCalls(body)}
        /\ Len(_lower_function(d, body)) = Len(_collect_calls(body))
=============================================================================
