----------------------------- MODULE CGenerator -----------------------------
(***************************************************************************)
(* c_generator.py: the init and bind functions of components, the          *)
(* declarations of a method's locals, and the ring buffer that specialized *)
(* generation makes of a channel.                                          *)
(*                                                                         *)
(* A design has the component types in order, their fields as sequences of *)
(* [name, type], where a type is "port", "export", "channel", "plain" or a *)
(* component, and their bind maps as sequences of [lhs, rhs].  A side is a *)
(* path of field indices from self and the name that is looked up at its   *)
(* end ("" for none).                                                      *)
(***************************************************************************)
EXTENDS DmProgram, TLC

Components(d)   == ToSet(d.order)
FieldsOf(d, type, kinds) == {i \in DOMAIN d.fields[type] : d.fields[type][i].type \in kinds}

-----------------------------------------------------------------------------
(* The memory of the generated program: a location is the path of names    *)
(* from the object on top.  A function is the sequence of its stores.      *)

RECURSIVE _expr_to_c(_, _, _)
_expr_to_c(d, type, path) ==
    IF path = << >> THEN << >>
    ELSE LET f == d.fields[type][path[1]]
         IN  <<f.name>> \o _expr_to_c(d, f.type, Tail(path))

Store(loc, value) == [loc |-> loc, value |-> value]

(* Ports and the objects of exports are cleared in the order of the        *)
(* fields, those of a child by the init function of the child.             *)
RECURSIVE _generate_init_function(_, _, _)
_generate_init_function(d, type, self) ==
    FlattenSeq([i \in DOMAIN d.fields[type] |->
        LET f == d.fields[type][i]
            at == Append(self, f.name)
        IN  CASE f.type = "port"   -> <<Store(at, <<"NULL">>)>>
              [] f.type = "export" -> <<Store(Append(at, "self"), <<"NULL">>)>>
              [] f.type \in Components(d) -> _generate_init_function(d, f.type, at)
              [] OTHER -> << >>])

(* A method of an export, the interface of a channel, or a port.           *)
_generate_bind_statement(d, type, self, b) ==
    LET lhs == self \o _expr_to_c(d, type, b.lhs.path)
        rhs == self \o _expr_to_c(d, type, b.rhs.path)
    IN  CASE b.lhs.ref # "" ->
               <<Store(Append(lhs, b.lhs.ref), <<"method", type, b.rhs.ref>>),
                 Store(Append(lhs, "self"), <<"object", self>>)>>
          [] b.lhs.ref = "" /\ b.rhs.ref \in {"put", "get"} -> <<Store(lhs, <<b.rhs.ref, rhs>>)>>
          [] OTHER -> <<Store(lhs, <<"export", rhs>>)>>

(* A component without ports, exports and binds gets no bind function.     *)
HasBindFunction(d, type) ==
    FieldsOf(d, type, {"port", "export"}) # {} \/ d.binds[type] # << >>

RECURSIVE _generate_bind_function(_, _, _)
_generate_bind_function(d, type, self) ==
    FlattenSeq([i \in DOMAIN d.fields[type] |->
        LET f == d.fields[type][i]
        IN  IF f.type \in Components(d) /\ HasBindFunction(d, f.type)
            THEN _generate_bind_function(d, f.type, Append(self, f.name)) ELSE << >>])
    \o FlattenSeq([i \in DOMAIN d.binds[type] |->
                      _generate_bind_statement(d, type, self, d.binds[type][i])])

Run(stores, m) == FoldLeft(LAMBDA acc, s : (s.loc :> s.value) @@ acc, m, stores)

After(d, top) == Run(_generate_bind_function(d, top, << >>),
                     Run(_generate_init_function(d, top, << >>), << >>))

-----------------------------------------------------------------------------
(* Reference: the binds of every object of the design, in any order.  An   *)
(* object is known by the indices of the fields that lead to it.           *)

RECURSIVE Objects(_, _, _, _)
Objects(d, type, at, index) ==
    {[type |-> type, at |-> at, index |-> index]} \cup
    UNION {LET f == d.fields[type][i] IN Objects(d, f.type, Append(at, f.name), Append(index, i)) :
              i \in FieldsOf(d, type, Components(d))}

ObjectsOf(d, top) == Objects(d, top, << >>, << >>)

(* The member that a path of o leads to is one of the object above it. *)
Place(d, top, o, path) ==
    IF path = << >> THEN o.at
    ELSE LET owner == CHOOSE u \in ObjectsOf(d, top) : u.index = o.index \o Front(path)
         IN  Append(owner.at, d.fields[owner.type][Last(path)].name)

MeantBy(d, top, o, b) ==
    LET lhs == Place(d, top, o, b.lhs.path)
        rhs == Place(d, top, o, b.rhs.path)
    IN  CASE b.lhs.ref # "" -> {Store(Append(lhs, b.lhs.ref), <<"method", o.type, b.rhs.ref>>),
                                Store(Append(lhs, "self"), <<"object", o.at>>)}
          [] b.lhs.ref = "" /\ b.rhs.ref # "" -> {Store(lhs, <<b.rhs.ref, rhs>>)}
          [] OTHER -> {Store(lhs, <<"export", rhs>>)}

Meant(d, top) ==
    UNION {UNION {MeantBy(d, top, o, b) : b \in ToSet(d.binds[o.type])} : o \in ObjectsOf(d, top)}

(* No port is bound twice, and an object with bound objects below it has   *)
(* something of its own to bind: the bind function of one that has not is  *)
(* left out, and with it the call of theirs.                               *)
ReliableDesign(d, top) ==
    /\ \A s \in Meant(d, top), t \in Meant(d, top) : s.loc = t.loc => s = t
    /\ \A o \in ObjectsOf(d, top), u \in ObjectsOf(d, top) :
          IsPrefix(u.at, o.at) /\ d.binds[o.type] # << >> => HasBindFunction(d, u.type)

(* After init and bind of the object on top every port that some object    *)
(* binds has what it is bound to, and every other port is empty.           *)
PortsAreConnected(d, top) ==
    ReliableDesign(d, top) =>
        LET m == After(d, top)
        IN  /\ \A s \in Meant(d, top) : s.loc \in DOMAIN m /\ m[s.loc] = s.value
            /\ \A loc \in DOMAIN m \ {s.loc : s \in Meant(d, top)} : m[loc] = <<"NULL">>

-----------------------------------------------------------------------------
(* _extract_method_local_vars: declared are the names assigned anywhere    *)
(* but in a match, save those of a loop that comes before.                 *)

RECURSIVE extract_from_stmt(_, _)
extract_from_stmt(found, st) ==
    CASE st.s = "assign" /\ st.tgt.e = "local" /\ st.tgt.v \notin found.seen ->
            [seen |-> found.seen \cup {st.tgt.v}, vars |-> found.vars \cup {st.tgt.v}]
      [] st.s \in {"for", "if", "while"} ->
            FoldLeft(extract_from_stmt,
                     [found EXCEPT !.seen = @ \cup (IF st.s = "for" THEN {st.v} ELSE {})],
                     Inner(st))
      [] OTHER -> found

_extract_method_local_vars(body, params) ==
    FoldLeft(extract_from_stmt, [seen |-> params, vars |-> {}], body).vars

(* The names that the C text uses outside of the loop that declares them.  *)
RECURSIVE UsedIn(_)
UsedIn(body) ==
    UNION {LET own == {e.v : e \in {x \in UNION {SubExprs(y) : y \in ToSet(Exprs(st))} :
                                      x.e = "local"}}
                      \cup (IF st.s \in {"assign", "ann", "aug"} /\ st.tgt.e = "local"
                            THEN {st.tgt.v} ELSE {})
           IN  own \cup (UsedIn(Inner(st)) \ (IF st.s = "for" THEN {st.v} ELSE {})) :
             st \in ToSet(body)}

(* Names that only an annotated assignment or a match sets are not         *)
(* declared, nor is one that a loop has counted with before.               *)
ReliableNames(body) ==
    LET plain == {st \in SubStmts(body) : st.s = "assign" /\ st.tgt.e = "local"}
        inMatch == SubStmts(FlattenSeq([i \in DOMAIN body |->
                                           IF body[i].s = "match" THEN Inner(body[i]) ELSE << >>]))
        loops == {st.v : st \in {x \in SubStmts(body) : x.s = "for"}}
    IN  /\ UsedIn(body) \subseteq {st.tgt.v : st \in plain \ inMatch}
        /\ UsedIn(body) \cap loops = {}

LocalsAreDeclared(body) ==
    ReliableNames(body) => UsedIn(body) \subseteq _extract_method_local_vars(body, {})

-----------------------------------------------------------------------------
(* A specialized channel: a ring without tests, which callers make with    *)
(* _empty and _full.  The capacity is a power of two.                      *)

ring_init(capacity) == [buffer |-> [i \in 0 .. capacity - 1 |-> Garbage],
                        head |-> 0, tail |-> 0, count |-> 0, got |-> << >>]

_empty(ring) == ring.count = 0
_full(ring, capacity) == ring.count >= capacity

_put(ring, capacity, value) ==
    [ring EXCEPT !.buffer[ring.tail] = value,
                 !.tail = (ring.tail + 1) % capacity, !.count = ring.count + 1]

_get(ring, capacity) ==
    [ring EXCEPT !.got = Append(ring.got, ring.buffer[ring.head]),
                 !.head = (ring.head + 1) % capacity, !.count = ring.count - 1]

(* Calls that find the channel full or empty are not made. *)
RingAfter(calls, capacity) ==
    FoldLeft(LAMBDA ring, c :
                 IF c = "get"
                 THEN (IF _empty(ring) THEN ring ELSE _get(ring, capacity))
                 ELSE (IF _full(ring, capacity) THEN ring ELSE _put(ring, capacity, c)),
             ring_init(capacity), calls)

(* The items come out in the order in which they went in. *)
QueueAfter(calls, capacity) ==
    FoldLeft(LAMBDA q, c :
                 IF c = "get"
                 THEN (IF q.held = << >> THEN q
                       ELSE [held |-> Tail(q.held), got |-> Append(q.got, Head(q.held))])
                 ELSE (IF Len(q.held) = capacity THEN q ELSE [q EXCEPT !.held = Append(q.held, c)]),
             [held |-> << >>, got |-> << >>], calls)

RingIsFifo(calls, capacity) ==
    /\ RingAfter(calls, capacity).got = QueueAfter(calls, capacity).got
    /\ RingAfter(calls, capacity).count = Len(QueueAfter(calls, capacity).held)
=============================================================================
