------------------------------ MODULE Elaborate -----------------------------
(***************************************************************************)
(* From component types to instances and connections (ElaborateSwPass),    *)
(* and the direct calls taken from the connections (DevirtualizePass).     *)
(*                                                                         *)
(* A design is [order, fields, binds]: the component types in the order of *)
(* type_m, their fields as sequences of [name, type], and the entries of   *)
(* their bind maps, each with the sides lhs and rhs.  A side is the path   *)
(* of indices of an expression ExprRefField(ExprRefField(self, i), j),     *)
(* or shorter where the expression is not nested twice.                    *)
(***************************************************************************)
EXTENDS Naturals, Sequences, FiniteSets, SequencesExt, FiniteSetsExt

Types(d) == ToSet(d.order)
SubComponents(d, type) == {i \in DOMAIN d.fields[type] :
                               d.fields[type][i].type \in Types(d)}

(* ElaborateSwPass._find_top.  <<>> stands for None. *)
_find_top(d, top) ==
    LET roots == SelectSeq(d.order, LAMBDA t : \A u \in Types(d) :
                     \A i \in DOMAIN d.fields[u] : d.fields[u][i].type # t)
    IN  IF top # "" THEN SelectSeq(d.order, LAMBDA t : t = top)
        ELSE IF Len(d.order) = 1 THEN d.order
        ELSE IF Len(roots) = 1 THEN roots
        ELSE IF d.order = << >> THEN << >> ELSE <<Last(d.order)>>

(* ElaborateSwPass._instantiate: the entries of inst_m, as <<path, type>>. *)
RECURSIVE _instantiate(_, _, _)
_instantiate(d, type, path) ==
    {<<path, type>>} \cup
    UNION {_instantiate(d, d.fields[type][i].type, Append(path, d.fields[type][i].name))
           : i \in SubComponents(d, type)}

inst_m(d, top) ==
    UNION {_instantiate(d, t, <<t>>) : t \in ToSet(_find_top(d, top))}

(* ElaborateSwPass._decode_bind: a set of no or one connection.            *)
Sub(d, owner, side) == d.fields[owner][side[1]]

Decodes(d, owner, side) ==
    /\ Len(side) = 2
    /\ side[1] \in SubComponents(d, owner)
    /\ side[2] \in DOMAIN d.fields[Sub(d, owner, side).type]

EndPoint(d, owner, side) ==
    LET sub == Sub(d, owner, side)
    IN  [component |-> sub.type, field |-> d.fields[sub.type][side[2]].name,
         inst_path |-> <<owner, sub.name>>]

_decode_bind(d, owner, bind) ==
    IF Decodes(d, owner, bind.lhs) /\ Decodes(d, owner, bind.rhs)
    THEN {[initiator |-> EndPoint(d, owner, bind.lhs),
           target    |-> EndPoint(d, owner, bind.rhs)]}
    ELSE {}

(* ElaborateSwPass.run, DevirtualizePass.run.  The connections are listed  *)
(* once for every type, not for every instance of it.                      *)
connections(d) ==
    UNION {UNION {_decode_bind(d, t, b) : b \in d.binds[t]} : t \in Types(d)}

Key(conn) == <<conn.initiator.component, conn.initiator.field>>

(* Mutant: any one of several connections is taken. *)
devirtualize_first(d) ==
    {CHOOSE conn \in connections(d) : Key(conn) = k :
        k \in {Key(conn) : conn \in connections(d)}}

devirtualized(d) ==
    {conn \in connections(d) :
        \A other \in connections(d) : Key(other) = Key(conn) => other = conn}

(* CEmitPass._decode_bind_wirings: what the init function of a component   *)
(* binds, as <<port of a child, wire function, child>>.  The right side is *)
(* an export of a child, or a whole child of which the first memory is     *)
(* meant.                                                                  *)
Memories(d, type) == {i \in DOMAIN d.fields[type] : d.fields[type][i].type = "memory"}

WireFn(d, owner, side) ==
    IF Len(side) = 2
    THEN IF Decodes(d, owner, side) THEN {EndPoint(d, owner, side).field} ELSE {}
    ELSE IF side[1] \in SubComponents(d, owner)
         THEN LET type == Sub(d, owner, side).type
              IN  IF Memories(d, type) = {} THEN {}
                  ELSE {d.fields[type][Min(Memories(d, type))].name}
         ELSE {}

_decode_bind_wirings(d, owner) ==
    UNION {IF Decodes(d, owner, b.lhs)
           THEN {<<EndPoint(d, owner, b.lhs).inst_path[2], EndPoint(d, owner, b.lhs).field,
                   fn, Sub(d, owner, b.rhs).name>> : fn \in WireFn(d, owner, b.rhs)}
           ELSE {}
           : b \in d.binds[owner]}

(* CEmitPass._emit_init_fn, run for the object at a path: the init         *)
(* functions of the children run first, then the ports of the children are *)
(* bound.  A port that is bound holds a function and the object it is      *)
(* called with.  (A port that init does not bind keeps what it held.)      *)
RECURSIVE _emit_init_fn(_, _, _, _)
_emit_init_fn(d, type, path, ports) ==
    LET children == SetToSortSeq(SubComponents(d, type), <)
        inner == FoldLeft(LAMBDA held, i : _emit_init_fn(d, d.fields[type][i].type,
                              Append(path, d.fields[type][i].name), held),
                          ports, children)
        wires == _decode_bind_wirings(d, type)
        bound == {<<Append(path, x[1]), x[2]>> : x \in wires}
    IN  {p \in inner : p[1] \notin bound} \cup
        {<<<<Append(path, x[1]), x[2]>>, x[3], Append(path, x[4])>> : x \in wires}

-----------------------------------------------------------------------------
(* Reference: the hardware that the design describes.  Every instance of   *)
(* an owner binds the ports of its own children.                           *)

Side(d, path, owner, side) == <<Append(path, Sub(d, owner, side).name),
                                d.fields[Sub(d, owner, side).type][side[2]].name>>

Bound(d, top) ==
    UNION {{<<Side(d, inst[1], inst[2], b.lhs), Side(d, inst[1], inst[2], b.rhs)>> :
                b \in {c \in d.binds[inst[2]] : /\ Decodes(d, inst[2], c.lhs)
                                                /\ Decodes(d, inst[2], c.rhs)}}
           : inst \in inst_m(d, top)}

(* A bind to a whole child means its first memory. *)
Whole(d, owner, side) ==
    /\ Len(side) = 1
    /\ side[1] \in SubComponents(d, owner)
    /\ Memories(d, Sub(d, owner, side).type) # {}

Meant(d, owner, side) ==
    IF Whole(d, owner, side)
    THEN <<side[1], Min(Memories(d, Sub(d, owner, side).type))>> ELSE side

TypeAt(d, top, path) == (CHOOSE inst \in inst_m(d, top) : inst[1] = path)[2]

-----------------------------------------------------------------------------
(* A port that is called directly is bound to that target in every         *)
(* instance of its component in which it is bound at all.                  *)
DirectCallsAgree(d, top) ==
    \A conn \in devirtualized(d), b \in Bound(d, top) :
        (/\ TypeAt(d, top, b[1][1]) = conn.initiator.component
         /\ b[1][2] = conn.initiator.field)
            => /\ TypeAt(d, top, b[2][1]) = conn.target.component
               /\ b[2][2] = conn.target.field

(* The paths of the connections that the top component makes are paths of  *)
(* instances, and each of its bindings is one of the connections.          *)
ConnectionsNameInstances(d, top) ==
    \A t \in ToSet(_find_top(d, top)) :
        {<<<<c.initiator.inst_path, c.initiator.field>>,
           <<c.target.inst_path, c.target.field>>>> :
                c \in {x \in connections(d) : x.initiator.inst_path[1] = t}}
        = {b \in Bound(d, top) : Len(b[1][1]) = 2}

(* After the init function of the top component every port that a bind map *)
(* of any instance names is bound to its target, and no other port is.     *)
PortsAreBoundAfterInit(d, top) ==
    \A t \in ToSet(_find_top(d, top)) :
        LET meant(b, owner) == [b EXCEPT !.rhs = Meant(d, owner, b.rhs)]
            full == [d EXCEPT !.binds = [u \in Types(d) |->
                                            {meant(b, u) : b \in d.binds[u]}]]
        IN  _emit_init_fn(d, t, <<t>>, {})
                = {<<b[1], b[2][2], b[2][1]>> : b \in Bound(full, top)}
=============================================================================
