------------------------------ MODULE MCCodegen -----------------------------
(***************************************************************************)
(* The generators of text and the passes over the data model, on every     *)
(* input from small palettes.  The variable item is the input: its first   *)
(* element names the pass it is for.                                       *)
(***************************************************************************)
EXTENDS DmProgram

CONSTANT MaxLen       \* length of a body

VARIABLE item

Lo == INSTANCE AsyncLower
Dm == INSTANCE DmAsyncMethodGenerator
An == INSTANCE AsyncAnalyzer
Txt == INSTANCE StmtGenerator
Syn == INSTANCE SyncMethodGenerator
Lat == INSTANCE WaitLatency WITH Unbounded <- 2000000000, CallTimes <- {0, 7}, Turns <- 2
Ela == INSTANCE Elaborate
Act == INSTANCE ActivityLower
Acc == INSTANCE AccessLower
Obj == INSTANCE ComponentStruct
Lay == INSTANCE RtlLayout
Uni == INSTANCE CUnits
Typ == INSTANCE TypeLower
Cal == INSTANCE CallDispatch
Cls == INSTANCE ClassModel
Com == INSTANCE CGenerator
Bit == INSTANCE RtlBits WITH W <- 4, Wide <- 8

MCAwaitValue == [n \in 1 .. 40 |-> 10 + n]

Is(kind) == item[1] = kind
Input    == item[2]

-----------------------------------------------------------------------------
(* Coroutines: bodies of up to MaxLen statements, behind two assignments;  *)
(* and components of three functions for the classification.               *)
X == Var("x")
Y == Var("y")
I == Var("i")
F == Field("f")

Port == Await("port", X)
Chan == Await("chan", Num(2))
Wait == Await("wait", Num(3))
Meth == Await("method", Num(4))

Plain ==
    { Assign(X, Num(1)), Assign(F, X), Assign(Y, Bin("+", X, F)),
      Call("print", X), If(F, <<Assign(X, Num(5))>>, << >>) }

Awaiting ==
    { Do(Wait), Do(Port), Do(Chan), Do(Meth), Assign(X, Port), Assign(Y, Chan),
      AnnAssign(X, Port), AnnAssign(X, Chan) }

Nesting ==
    { If(F, <<Do(Wait)>>, <<Do(Port)>>),
      If(F, <<Assign(X, Port)>>, << >>),
      While(Bin("<", X, Num(3)), <<Assign(X, Bin("+", X, Num(1))), Do(Port)>>),
      For("i", <<Num(2)>>, <<Call("print", I)>>),
      For("i", <<Num(2)>>, <<Do(Port)>>),
      For("i", <<Num(2)>>, <<Do(Chan)>>),
      While(Num(1), <<Do(Chan), Call("print", X)>>),
      While(Num(1), <<Call("print", X), Assign(X, Chan), Assign(Y, X)>>),
      While(Num(1), <<Do(Port), Do(Chan)>>),
      While(Num(1), <<Do(Wait)>>),
      While(Num(1), <<Call("print", Y), Assign(X, Port)>>),
      If(F, << >>, <<Return(X)>>) }

Palette == Plain \cup Awaiting \cup Nesting

(* A body starts by setting its locals, so that longer ones matter.        *)
Opening == <<Assign(X, Num(7)), Assign(Y, F)>>

Bodies == UNION {[1 .. n -> Palette] : n \in 1 .. MaxLen}

Functions == {"g", "h", "k"}

Components ==
    [order  : {<<"g", "h", "k">>, <<"k", "h", "g">>},
     pinned : {{}, {"k"}},
     awaits : SUBSET Functions,
     calls  : [Functions -> SUBSET Functions]]

-----------------------------------------------------------------------------
Locals == {"x", "y", "i"}
IsBody == Is("body")
Body   == Opening \o Input[1]
Field1 == [f |-> Input[2]]

Python == Lo!PythonSees(Body, Field1, Locals, Garbage)

(* A body that reads only what it has set. *)
Defined == IsBody /\ Lo!IsDefined(Body, Field1, Locals)

CMemory == Lo!Memory(Field1, Locals, Garbage)

EndlessLoops(body) == {st \in SubStmts(body) : st.s = "while" /\ st.e = Num(1)}
OtherLoops(body)   == {st \in SubStmts(body) : st.s \in LoopKinds} \ EndlessLoops(body)

(* A run that was not cut off because it had taken too many turns. *)
Ended(run) == run.fuel > 0 \/ run.sig # "return" \/ Last(run.log)[1] = "return"

(* A host that asks for a halt in its n-th call stops an endless loop, in  *)
(* the turn it is in or before the next one; until then the calls are      *)
(* those of a run that nobody halts, and calls before the request are made.*)
StopsWhenAsked(body, Run(_)) ==
    EndlessLoops(body) # {} =>
        \A n \in 1 .. 2 :
            LET asked == Run(n)  free == Run(0)
            IN  /\ IsPrefix(asked.log, free.log)
                /\ Len(asked.log) >= n \/ asked.log = free.log
                /\ OtherLoops(body) = {} /\ Len(asked.log) >= n => Ended(asked)

Asked(run, n) == [run EXCEPT !.halt = n]

(* A process whose awaits call ports does in one call of its task what the *)
(* coroutine does: _emit_run_fn, with the frame found by async_lower.  It  *)
(* ends when the host asks for a halt.                                     *)
RunFollowsSource ==
    Defined /\ Lo!RunReliable(Body) =>
        LET run(n) == Lo!_emit_run_fn(Lo!_split_at_awaits(Body),
                                      Asked(Lo!StartFrame(CMemory, FALSE), n))
        IN  Seen(run(0), {"f"}) = Python /\ StopsWhenAsked(Body, run)

(* The entry function of a coroutine that only delays does what the        *)
(* coroutine does, at the same times: _emit_coroutine_entry_fn.            *)
EntryFollowsSource ==
    Defined /\ Lo!EntryReliable(Body) =>
        Seen(Lo!_emit_coroutine_entry_fn(Lo!_split_at_awaits(Body),
                                         Lo!StartFrame(CMemory, TRUE)),
             {"f"}) = Python

(* The coroutine of dm_async_generator does what the body does, with the   *)
(* results of its awaits in the right variables: generate.                 *)
CoroutineFollowsSource ==
    Defined /\ Dm!DmReliable(Body) =>
        Seen(Dm!generate(Body, Start(CMemory)), {"f"}) = Python

(* A body the analyzer calls synchronous contains no await, as far as it   *)
(* consists of statements the analyzer visits: _can_convert_to_sync.       *)
ConvertibleNeverAwaits ==
    IsBody /\ An!Visited(Body) /\ An!_can_convert_to_sync(Body) =>
        \A e \in AllExprs(Body) : e.e # "await"

(* The classification is that of reachability, in whatever order the       *)
(* functions come and however they call each other: _classify_all.         *)
ClassifiesByReachability ==
    Is("component") =>
        \A f \in Functions :
            An!_classify_all(Input)[f] =
                IF An!MaySuspend(Input, f) THEN "false" ELSE "true"

-----------------------------------------------------------------------------
(* Texts: an expression of up to three operators as a value and as a test, *)
(* and bodies of two statements.                                           *)
G == Field("g")

Leaves0 == {X, F, G, Num(2)}
Ops == {"+", "-", "*"}

Simple ==
    {Bin(op, l, r) : op \in Ops, l \in {X, F}, r \in {G, Num(2)}}
    \cup {Bin(op, l, Num(2)) : op \in {"//", "%", ">>"}, l \in {F, G}}
    \cup {Unary(op, l) : op \in {"-", "not"}, l \in {F, G}}
    \cup {Compare(l, <<op>>, <<r>>) : op \in {"==", "<", ">="}, l \in {F, X}, r \in {G, Num(2)}}
    \cup {Compare(F, <<"<", "<">>, <<X, G>>)}

Nested ==
    {Bin(op, l, r) : op \in {"-", "*"}, l \in Simple, r \in {G, Num(2)}}
    \cup {Bin(op, l, r) : op \in {"-", "+"}, l \in {F}, r \in Simple}
    \cup {Bin(op, l, Num(2)) : op \in {"//", "%"}, l \in Simple}
    \cup {Unary(op, l) : op \in {"-", "not"}, l \in Simple}
    \cup {Compare(l, <<"==">>, <<r>>) : l \in Simple, r \in {Num(0), Num(1)}}
    \cup {BoolOp(op, <<l, r>>) : op \in {"and", "or"}, l \in Simple, r \in {F, Compare(G, <<"==">>, <<X>>)}}
    \cup {IfExp(t, X, r) : t \in Simple, r \in {F, Bin("+", F, Num(2))}}

Say(e) == Call("print", e)

Statements ==
    { Assign(X, Bin("+", X, F)), Assign(F, X), AnnAssign(Var("y"), G),
      AugAssign(X, "+", F), AugAssign(F, "-", Bin("*", G, X)), AugAssign(G, "*", Num(2)),
      If(F, <<Say(X)>>, <<Assign(G, Num(2))>>), Say(X), Say(F),
      While(Compare(X, <<"<">>, <<Num(5)>>), <<AugAssign(X, "+", Num(2)), Say(X)>>),
      While(Num(1), <<AugAssign(X, "+", Num(1)), If(Compare(X, <<"==">>, <<Num(6)>>), <<Break>>, <<Continue>>)>>),
      While(Num(1), <<AugAssign(X, "+", Num(1)), Say(X), If(G, <<Say(F)>>, << >>)>>),
      For("i", <<F>>, <<Say(Var("i"))>>),
      For("i", <<Num(1), Num(3)>>, <<Say(Bin("+", Var("i"), X))>>),
      For("i", <<Num(0), Num(5), Num(2)>>, <<AugAssign(F, "+", Var("i"))>>),
      For("i", <<Num(3), Num(0), Num(2)>>, <<Say(X)>>),
      Match(F, <<Case({1}, <<Say(X)>>), Case({3}, <<Assign(X, G)>>), Case({}, <<Say(G)>>)>>),
      Match(G, <<Case({0}, <<Say(X)>>)>>), Match(F, <<Case({}, <<Say(G)>>)>>),
      Match(F, <<Case({1, 3}, <<Say(G)>>), Case({}, <<Say(X)>>)>>),
      If(F, <<Return(X)>>, << >>) }

TextBodies ==
    {<<Assign(X, Num(3)), Return(e)>> : e \in Simple \cup Nested}
    \cup {<<Assign(X, Num(3)), If(e, <<Say(F)>>, <<Say(G)>>)>> : e \in Simple \cup Nested}
    \cup {<<Assign(X, Num(3)), a, b, Return(X)>> : a \in Statements, b \in Statements}

Names   == {"x", "y", "i", "p", "q"}
Fields  == {[f |-> 3, g |-> 0], [f |-> 0, g |-> 3], [f |-> -3, g |-> 1], [f |-> 1, g |-> -2]}

CSees(cbody, fields) ==
    Seen(Exec(cbody, Start(Txt!Memory(fields, Names, Garbage))), DOMAIN fields)

(* The C text of a method does what the method does in Python: same calls  *)
(* with the same arguments, same result, same fields; and it can be halted.*)
TextFollowsSource ==
    Is("text") =>
        LET body == Input[1]  fields == Input[2]  c == Txt!GenBody(body, {})
        IN  (/\ Txt!ReliableBody(body) /\ Txt!ReliableOn(body, fields) /\ Txt!Compiles(c)
             /\ Txt!IsDefined(body, fields, Names))
                => LET run(n) == Exec(c, Asked(Start(Txt!Memory(fields, Names, Garbage)), n))
                   IN  /\ Seen(run(0), DOMAIN fields)
                            = Txt!PythonSees(body, fields, Names, Garbage)
                       /\ StopsWhenAsked(body, run)

(* So does the function printed for direct calls, where it is printed from *)
(* what it knows.                                                          *)
SyncFollowsSource ==
    Is("text") =>
        LET body == Input[1]  fields == Input[2]
        IN  (/\ Syn!SyncReliable(body) /\ Txt!ReliableOn(body, fields)
            /\ Txt!IsDefined(body, fields, Names))
                => CSees(Syn!generate_sync(body), fields)
                       = Txt!PythonSees(body, fields, Names, Garbage)

-----------------------------------------------------------------------------
(* Latencies: run and helper, with bodies of up to two statements.         *)
Args(vs) == [e |-> "args", vs |-> vs]
Self(name, arg) == Await(<<"self", name>>, arg)

LatStatements ==
    { Do(Self("wait_ps", Num(3))), Do(Self("wait_ns", Num(1))), Do(Self("wait_ps", X)),
      Do(Self("wait", Num(2))), Do(Self("helper", Num(0))), Do(Await(<<"port", "get">>, X)),
      Assign(X, Self("helper", Num(0))), Assign(X, Num(1)),
      Do(Args(<<Self("wait_ps", Num(2)), X>>)),
      Do(Args(<<Self("wait_ps", Num(2)), Self("wait_ps", Num(5))>>)),
      Do(Await(<<"object", "event">>, X)), Do(Await(<<"port", "helper">>, X)),
      Assign(X, Bin("+", Self("wait_ps", Num(2)), X)), Return(Self("wait_ps", Num(2))),
      AugAssign(X, "+", Num(1)),
      If(X, <<Do(Self("wait_ps", Num(2)))>>, <<Do(Self("wait_ps", Num(4)))>>),
      If(X, <<Do(Self("wait_ps", Num(6)))>>, << >>),
      If(X, <<Assign(X, Num(1))>>, <<Do(Self("wait_ps", Num(4)))>>),
      If(X, << >>, <<Do(Self("helper", Num(0)))>>),
      While(X, <<Do(Self("wait_ps", Num(1)))>>), While(X, <<Assign(X, Num(1))>>),
      For("i", <<Num(2)>>, <<If(X, <<Do(Self("helper", Num(0)))>>, << >>)>>) }

Pairs(s) == {<< >>} \cup {<<a>> : a \in s} \cup {<<a, b>> : a \in s, b \in s}

LatComponents ==
    {[order |-> <<"helper", "run">>, async |-> as,
      body |-> [helper |-> h, run |-> r]] :
        h \in {<< >>} \cup {<<a>> : a \in LatStatements}, r \in Pairs(LatStatements),
        as \in {{"run"}, {"helper", "run"}}}

LatenciesBound     == Is("latency") => Lat!LatenciesBound(Input)
FramesOnlyForWaits == Is("latency") => Lat!FramesOnlyForWaits(Input)

-----------------------------------------------------------------------------
(* Designs of four types: Src with two ports, Snk with a memory and an     *)
(* export, Mid and Top that own and bind.                                  *)
Fld(n, t) == [name |-> n, type |-> t]
BindOf(l, r) == [lhs |-> l, rhs |-> r]

DesignFields ==
    [Src |-> <<Fld("p", "port"), Fld("q", "port")>>,
     Snk |-> <<Fld("e", "export"), Fld("m", "memory"), Fld("e2", "export")>>,
     Mid |-> <<Fld("a", "Src"), Fld("n", "int"), Fld("s", "Snk")>>,
     Top |-> <<Fld("x", "Mid"), Fld("a", "Src"), Fld("s", "Snk"), Fld("y", "Mid")>>]

MidBinds == {BindOf(<<1, i>>, r) : i \in {1, 2}, r \in {<<3, 1>>, <<3, 3>>, <<3>>, <<2>>}}
TopBinds == {BindOf(l, r) : l \in {<<2, 1>>, <<2, 2>>, <<2>>, <<1, 1>>},
                            r \in {<<3, 1>>, <<3, 3>>, <<3>>}}

(* No owner binds a port twice. *)
OncePerPort(binds) == \A b \in binds, c \in binds : b.lhs = c.lhs => b = c

Designs ==
    {[order |-> o, fields |-> DesignFields,
      binds |-> [Src |-> {}, Snk |-> {}, Mid |-> m, Top |-> t]] :
        o \in {<<"Snk", "Src", "Mid", "Top">>, <<"Top", "Mid", "Src", "Snk">>},
        m \in {b \in SUBSET MidBinds : Cardinality(b) <= 2 /\ OncePerPort(b)},
        t \in {b \in SUBSET TopBinds : Cardinality(b) <= 2 /\ OncePerPort(b)}}

DirectCallsAgree         == Is("design") => Ela!DirectCallsAgree(Input, "")
ConnectionsNameInstances == Is("design") => Ela!ConnectionsNameInstances(Input, "")
PortsAreBoundAfterInit   == Is("design") => Ela!PortsAreBoundAfterInit(Input, "")

-----------------------------------------------------------------------------
(* Activities of up to four statements with nested blocks of two.          *)
Inner0 == {Act!Traverse("c", <<"k3">>), Act!Constraint(<<"k4">>), Act!Super}
InnerLists == {<<a, b>> : a \in Inner0, b \in {Act!Traverse("d", << >>), Act!Constraint(<<"k5">>)}}

ActStatements(n) ==
    {Act!Traverse("t" \o ToString(n), << >>), Act!Traverse("u" \o ToString(n), <<"k0">>),
     Act!Constraint(<<"k" \o ToString(n)>>), Act!Bind}
    \cup (IF n = 2 THEN {Act!Block(kind, l) : kind \in {"seq", "atomic", "parallel", "schedule"},
                                              l \in InnerLists}
                        \cup {Act!Loop(kind, l) : kind \in {"repeat", "foreach"}, l \in InnerLists}
                        \cup {Act!Choice(kind, <<l, << >>>>) : kind \in {"select", "if"}, l \in InnerLists}
          ELSE {})

Activities == {<<a, b, c, d>> : a \in ActStatements(1), b \in ActStatements(2),
                                c \in ActStatements(3), d \in ActStatements(4)}

CallsFollowActivity            == Is("activity") => Act!CallsFollowActivity(Input)
ConstraintsReachTheirTraversal == Is("activity") => Act!ConstraintsReachTheirTraversal(Input)

-----------------------------------------------------------------------------
(* Accesses: up to two calls on a register, a memory or another field, one *)
(* of them possibly an argument of the other, in a design in which another *)
(* component has a field of the same name.                                 *)
Methods == {"read", "read_val", "write", "write_val_masked", "write_field", "read8",
            "read64", "write16", "write32", "reset"}
Receivers == {<<"self", "r">>, <<"self", "m">>, <<"self", "n">>, <<"other", "r">>}

OneCall == {Acc!CallOn(rv, me, << >>) : rv \in Receivers, me \in Methods}
Nesting0 == {Acc!CallOn(rv, me, <<a>>) : rv \in {<<"self", "r">>, <<"self", "m">>},
                me \in {"write", "write16"}, a \in OneCall \cup {Acc!Value("v")}}

AccBodies == {<<a>> : a \in OneCall \cup Nesting0}
             \cup {<<a, b>> : a \in Nesting0, b \in {Acc!CallOn(<<"self", "r">>, "read", << >>),
                                                      Acc!CallOn(<<"self", "m">>, "read", << >>)}}

AccDesigns ==
    {[order |-> <<"B", "A">>,
      fields |-> [A |-> [r |-> "register", m |-> "addr_space", n |-> "int"],
                  B |-> b]] :
        b \in {[z |-> "register"], [r |-> "register"], [m |-> "register"], [r |-> "addr_space"]}}

AccessesFollowTypes == Is("access") => Acc!AccessesFollowTypes(Input[1], "A", Input[2])

-----------------------------------------------------------------------------
(* Objects: two fields of any type, and bodies that lock.                  *)
ObjField(n, t, b, s, i, h) ==
    [name |-> n, t |-> t, bits |-> b, signed |-> s, idx |-> i, hint |-> h]

ObjTypes == {"int", "bool", "alias", "untyped", "callable_port", "method_port",
             "method_export", "indexed_regfile", "indexed_pool", "claim_pool", "memory",
             "component", "py_struct", "channel", "get_if", "put_if", "queue"}

ObjFieldsOf(n) ==
    {ObjField(n, t, b, s, 3, h) : t \in ObjTypes, b \in {5, 16, 33}, s \in BOOLEAN, h \in BOOLEAN}

WithLock == [items |-> <<<<"b", "lock">>>>]
ObjBodies == {<< >>, <<<<WithLock>>>>,
              <<<<[items |-> << >>], WithLock>>, <<[items |-> <<<<"a", "get">>>>]>>>>}

SidecarMatchesC     == Is("object") => Obj!SidecarMatchesC(Input[1])
NodesUseLiveMembers == Is("object") => Obj!NodesUseLiveMembers(Input[1], Input[2])

-----------------------------------------------------------------------------
(* Layouts: three fields, registered or not, with a structure and a wire.  *)
LayField(n, r, t, b) == [name |-> n, rank |-> r, t |-> t, bits |-> b, size |-> 3, ref |-> "S"]

LayFieldsOf(n, r) ==
    {LayField(n, r, "int", b) : b \in {1, 12, 32, 64}}
    \cup {LayField(n, r, t, 16) : t \in {"array", "ref", "unknown"}}

LayDesigns ==
    {[fields |-> <<x, y, z>>, nxt |-> nx, counters |-> cs,
      wires |-> <<LayField("w", 9, "int", 1)>>, behav |-> bh,
      structs |-> [S |-> st]] :
        x \in LayFieldsOf("a", 1), y \in LayFieldsOf("b", 2), z \in LayFieldsOf("c", 3),
        nx \in {{}, {"a", "b"}, {"a", "b", "c"}}, cs \in {{}, {"c"}}, bh \in BOOLEAN,
        st \in {<<LayField("s", 1, "int", 8), LayField("t", 2, "int", 32)>>,
                <<LayField("s", 1, "int", 64), LayField("t", 2, "unknown", 0)>>}}

LayoutsAgree       == Is("layout") => Lay!LayoutsAgree(Input)
RegistersArePacked == Is("layout") => Lay!RegistersArePacked(Input)

-----------------------------------------------------------------------------
(* Calls: a component with a port of each kind, two memories, and units    *)
(* that have a callable port and a function of their own.                  *)
CallField(n, k, t) == [name |-> n, kind |-> k, t |-> t]

CallTypes ==
    [Top  |-> [fields |-> <<CallField("p", "protocol", "Mem"), CallField("q", "port", "Mem"),
                            CallField("f", "callable", "none"), CallField("m", "field", "memory"),
                            CallField("u", "field", "Unit"), CallField("k", "field", "pool")>>,
               functions |-> {"run"}],
     Unit |-> [fields |-> <<CallField("f", "callable", "none"), CallField("m", "field", "memory"),
                            CallField("v", "field", "Leaf")>>,
               functions |-> {"step"}],
     Leaf |-> [fields |-> <<CallField("n", "field", "int")>>, functions |-> {"step"}]]

BoundTo(t, i) == [type |-> t, inst |-> i]

CallDesigns ==
    {[top |-> "Top", types |-> CallTypes, tlm |-> tlm, hoisted |-> h, devirt |-> dv,
      async |-> {"fetch"},
      bound |-> (<<1>> :> BoundTo(t, "x") @@ <<2>> :> BoundTo("Rom", "y")
                 @@ <<3>> :> BoundTo("alu", "z") @@ <<5, 1>> :> BoundTo("mul", "w")
                 @@ <<6, 1>> :> BoundTo("div", "v"))] :
        tlm \in BOOLEAN, h \in {{}, {"p"}}, t \in {"Ram"},
        dv \in {[n \in {} |-> ""], [p |-> "Ram"]}}

CallArgs == {[to |-> c, v |-> v] : c \in {"none", "u8", "i8", "u16", "bit1", "bool"},
                                   v \in {1, 3, 200, 300}}

CallTargets ==
    ({<<1>>, <<2>>} \X {"read", "write", "fetch"}) \cup ({<<4>>, <<5, 2>>} \X {"read", "write"})
    \cup ({<<5>>, <<6>>} \X {"f", "step"}) \cup {<< <<5, 3>>, "step" >>, << << >>, "f" >>}

CallInputs ==
    {[form |-> "method", path |-> t[1], attr |-> t[2], args |-> ar, await |-> aw] :
        t \in CallTargets, aw \in BOOLEAN,
        ar \in {<< >>, <<[to |-> "none", v |-> 4]>>}
               \cup {<<a, [to |-> "i8", v |-> 5]>> : a \in CallArgs}}
    \cup {[form |-> "field", path |-> <<3>>, attr |-> "", args |-> <<a>>, await |-> FALSE] :
            a \in CallArgs}

CallsReachCallee == Is("call") => Cal!CallsReachCallee(Input[1], Input[2])

-----------------------------------------------------------------------------
(* Bits, with an int of 4 bits and fields of 3, 4 and 8: r is registered,  *)
(* x is not, c is a constant, b.s a member of a registered bundle.         *)
BitPlaces ==
    {[form |-> f, name |-> n, path |-> <<n>>] : f \in {"attribute", "field"}, n \in {"r", "x", "c"}}
    \cup {[form |-> "attribute", name |-> "b", path |-> <<"b", "s">>]}

BitOps(width) ==
    {[kind |-> "slice", const |-> k, hi |-> hl[1], lo |-> hl[2]] :
        k \in BOOLEAN, hl \in {p \in (0 .. width - 1) \X (0 .. width - 1) : p[2] <= p[1]}}
    \cup {[kind |-> "bit", lo |-> i] : i \in 0 .. width - 1}
    \cup {[kind |-> o, const |-> k, hi |-> n] : o \in {"sext", "zext"}, k \in BOOLEAN, n \in 1 .. width}
    \cup {[kind |-> "bool"], [kind |-> "any", of |-> {0, width - 1}], [kind |-> "any", of |-> {}]}

BitValues(width) ==
    IF width = 8 THEN {0, 1, 2, 85, 128, 166, 255} ELSE 0 .. (2 ^ width) - 1

BitDesign == [nxt |-> {"r", "b"}, consts |-> {"c"}]

(* One value before the edge, and another pending. *)
BitFields(v) == [q \in {<<"r">>, <<"x">>, <<"c">>, <<"b", "s">>} |-> v]

BitAccesses ==
    UNION {{<<[place |-> pl, op |-> o, width |-> w], v>> :
               pl \in BitPlaces, o \in BitOps(w), v \in BitValues(w)} : w \in {3, 4, 8}}

(* Elements of a registered array. *)
ArrayAccess(i) ==
    [place |-> [form |-> "field", name |-> "r", path |-> <<"r">>],
     op |-> [kind |-> "element", lo |-> i], width |-> 8]

BitInputs == BitAccesses \cup {<<ArrayAccess(i), [n \in 0 .. 2 |-> 5 + n]>> : i \in 0 .. 2}

BitsFollowSource ==
    Is("bits") => Bit!BitsFollowSource(Input[1], BitDesign, BitFields(Input[2]), BitFields(6))

-----------------------------------------------------------------------------
(* Generated files: Leaf, Mid that has a Leaf in some way, and Top that    *)
(* has both, with coroutines whose actions are shared or not.              *)
UnitField(n, k, r) == [name |-> n, k |-> k, ref |-> r]

LeafFields == {<<UnitField("m", "memory", "")>>, <<UnitField("f", "callable_port", "")>>,
               <<UnitField("e", "method_export", "Bus"), UnitField("m", "memory", "")>>,
               <<UnitField("q", "fifo", "")>>, <<UnitField("s", "py_struct", "Conf")>>}
MidFields  == {<<UnitField("a", k, "Leaf"), x>> :
                  k \in {"component", "claim_pool"},
                  x \in {UnitField("p", "method_port", "Bus"), UnitField("n", "plain", ""),
                         UnitField("i", "indexed_pool", ""), UnitField("s", "py_struct", "Conf"),
                         UnitField("r", "indexed_regfile", "")}}
TopFields  == {<<UnitField("b", "component", "Mid")>>,
               <<UnitField("a", "component", "Leaf"), UnitField("b", "component", "Mid")>>,
               <<UnitField("a", "claim_pool", "Leaf"), UnitField("p", "method_port", "Bus")>>}

Coroutine(fn, acts, params) == [fn |-> fn, acts |-> acts, params |-> params]

UnitDesigns ==
    {[order   |-> <<"Leaf", "Mid", "Top">>,
      fields  |-> [Leaf |-> lf, Mid |-> mf, Top |-> tf],
      frames  |-> [Leaf |-> << >>, Mid |-> <<Coroutine("Mid_go", ma, TRUE)>>,
                   Top |-> <<Coroutine("Top_go", ta, FALSE), Coroutine("Top_on", {}, TRUE)>>],
      sync    |-> [Leaf |-> <<[fn |-> "Leaf_f", process |-> TRUE]>>, Mid |-> << >>, Top |-> << >>],
      direct  |-> [Leaf |-> << >>, Mid |-> <<"Leaf__read">>, Top |-> << >>],
      binds   |-> [Leaf |-> {}, Mid |-> {},
                   Top |-> IF lf[1].k = "memory" /\ mf[2].k = "method_port" /\ Len(tf) = 2
                              /\ tf[2].name = "b"
                           THEN {[type |-> "Mid", port |-> "p", fn |-> "Leaf_mem_fetch_m"]} ELSE {}],
      sched   |-> [Leaf |-> FALSE, Mid |-> FALSE, Top |-> sc],
      locks   |-> [Leaf |-> << >>, Mid |-> << >>,
                   Top |-> IF tf[1].k = "claim_pool" THEN lk ELSE << >>],
      actions |-> ac] :
        lf \in LeafFields, mf \in MidFields, tf \in TopFields, sc \in BOOLEAN,
        lk \in {<<"a">>, <<"a", "a">>},
        ma \in {{}, {"Add"}}, ta \in {{}, {"Add"}, {"Sub"}},
        ac \in {<<[name |-> "Add", contract |-> ct, statics |-> <<"sext">>],
                  [name |-> "Sub", contract |-> FALSE, statics |-> <<"sext">>]>> : ct \in BOOLEAN}}

UnitsCompile == Is("unit") => Uni!UnitsCompile(Input)

-----------------------------------------------------------------------------
(* Types: four that refer to each other, entered in any of two orders.     *)
TypeField(k, of) == [k |-> k, of |-> of]
TypeFieldsOf(n) ==
    Pairs({TypeField("int", "int"), TypeField("array", "int")}
          \cup {TypeField(k, m) : k \in {"ref", "array"}, m \in {"A", "B", "C", "E"} \ {n}})

TypeDesigns ==
    {[order |-> o,
      types |-> [A |-> [kind |-> "struct", fields |-> fa], B |-> [kind |-> "component", fields |-> fb],
                 C |-> [kind |-> "struct", fields |-> fc], E |-> [kind |-> "enum", fields |-> << >>]]] :
        o \in {<<"A", "B", "C", "E">>, <<"E", "C", "A", "B">>},
        fa \in TypeFieldsOf("A"), fb \in TypeFieldsOf("B"),
        fc \in {<< >>, <<TypeField("ref", "A")>>, <<TypeField("ref", "E"), TypeField("array", "int")>>}}

TypesInOrder == Is("types") => Typ!TypesInOrder(Input)

-----------------------------------------------------------------------------
(* Classes: B derives from A, and C from A or B, entered in three orders;  *)
(* methods m and n, virtual or not, and bodies of up to four statements.   *)
Meth0(n, v) == [name |-> n, virtual |-> v]

ClassMethods ==
    {<< >>, <<Meth0("m", FALSE)>>, <<Meth0("m", TRUE)>>, <<Meth0("n", TRUE)>>,
     <<Meth0("m", TRUE), Meth0("n", FALSE)>>, <<Meth0("n", TRUE), Meth0("m", TRUE)>>}

Handle(n, h) == [name |-> n, handle |-> h]

ClassFields ==
    {[A |-> <<Handle("h", TRUE), Handle("f", FALSE)>>, B |-> << >>, C |-> <<Handle("f", FALSE)>>],
     [A |-> << >>, B |-> <<Handle("h", TRUE), Handle("k", TRUE)>>, C |-> << >>],
     [A |-> <<Handle("f", FALSE)>>, B |-> <<Handle("f", FALSE)>>, C |-> <<Handle("h", TRUE)>>]}

ClassContexts ==
    {[order |-> o, super |-> [A |-> "", B |-> "A", C |-> sc], fields |-> fs,
      methods |-> [A |-> ma, B |-> mb, C |-> mc]] :
        o \in {<<"A", "B", "C">>, <<"C", "B", "A">>, <<"B", "C", "A">>}, sc \in {"A", "B"},
        fs \in ClassFields, ma \in ClassMethods, mb \in ClassMethods, mc \in ClassMethods}

CallsAreDispatched == Is("class") => Cls!CallsAreDispatched(Input)
HandlesAreKnown    == Is("class") => Cls!HandlesAreKnown(Input)
BasesComeFirst     == Is("class") => Cls!BasesComeFirst(Input)

P == Param("p")
Q == Param("q")

TaskStatements ==
    { Assign(P, Bin("+", P, F)), Assign(F, Bin("*", Q, Bin("-", P, Num(1)))), Do(Wait),
      Do(Await("wait", P)), Do(Meth), Assign(P, Await("method", Q)), Assign(F, Meth),
      Call("print", P), If(Bin("<", F, P), <<Assign(F, Num(1))>>, <<Call("print", Q)>>),
      If(P, <<Do(Wait)>>, << >>), Return(Bin("-", P, Q)), Return(F) }

TaskBodies ==
    {<<Assign(P, Num(7))>> \o b : b \in UNION {[1 .. n -> TaskStatements] : n \in 1 .. 3}}

Params == {"p", "q"}
TaskMemory(fields) == Txt!Memory(fields, Params, Garbage)

TasksFollowSource ==
    Is("task") /\ Cls!TaskReliable(Input[1]) =>
            Seen(Cls!_coroutine_body(Input[1], Start(TaskMemory(Input[2]))), DOMAIN Input[2])
                = Txt!PythonSees(Input[1], Input[2], Params, Garbage)

MethodsFollowSource ==
    Is("task") /\ Cls!MethodReliable(Input[1]) =>
            CSees(Cls!_method_body(Input[1]), Input[2])
                = Txt!PythonSees(Input[1], Input[2], Names, Garbage)

-----------------------------------------------------------------------------
(* Components: Top has Out, which has Mid, which has a Src and a Snk, and  *)
(* ports are bound at one of the levels or at several.                     *)
Part(n, t) == [name |-> n, type |-> t]
Side(path, ref) == [path |-> path, ref |-> ref]
Bind(l, r) == [lhs |-> l, rhs |-> r]

PartsOf ==
    [Src |-> <<Part("p", "port"), Part("q", "port"), Part("n", "plain")>>,
     Snk |-> <<Part("e", "export"), Part("n", "plain"), Part("o", "export")>>,
     Mid |-> <<Part("a", "Src"), Part("s", "Snk"), Part("c", "channel"), Part("p", "port")>>,
     Out |-> <<Part("x", "Mid")>>,
     Top |-> <<Part("y", "Out"), Part("a", "Src"), Part("s", "Snk"), Part("z", "Src")>>]

SnkConnects == {<< >>, <<Bind(Side(<<1>>, "put"), Side(<< >>, "take"))>>}

MidConnects ==
    Pairs({Bind(Side(<<1, 1>>, ""), Side(<<2, 1>>, "")), Bind(Side(<<1, 2>>, ""), Side(<<2, 3>>, "")),
           Bind(Side(<<1, 2>>, ""), Side(<<3>>, "put")), Bind(Side(<<4>>, ""), Side(<<2, 1>>, ""))})

OutConnects == {<< >>, <<Bind(Side(<<1, 1, 2>>, ""), Side(<<1, 3>>, "get"))>>}

TopConnects ==
    Pairs({Bind(Side(<<2, 1>>, ""), Side(<<3, 1>>, "")), Bind(Side(<<2, 2>>, ""), Side(<<1, 1, 2, 3>>, "")),
           Bind(Side(<<4, 2>>, ""), Side(<<1, 1, 3>>, "get"))})

BindDesigns ==
    {[order |-> <<"Src", "Snk", "Mid", "Out", "Top">>, fields |-> PartsOf,
      binds |-> [Src |-> << >>, Snk |-> s, Mid |-> m, Out |-> o, Top |-> t]] :
        s \in SnkConnects, m \in MidConnects, o \in OutConnects, t \in TopConnects}

PortsAreConnected == Is("bind") => Com!PortsAreConnected(Input, "Top")

LocalBodies ==
    LET Sets == Statements \cup
                {Assign(Y, X), Assign(Y, Bin("+", Y, X)), Say(Y),
                 If(X, <<Say(F)>>, <<Assign(Y, X)>>), While(X, <<Assign(Y, X), Assign(X, F)>>),
                 For("i", <<Y>>, <<Assign(Y, Var("i")), If(Y, <<Assign(X, Y)>>, << >>)>>)}
    IN  {<<a, b, c>> : a \in Sets, b \in Sets, c \in {Say(X), For("i", <<X>>, <<Say(Y)>>)}}

LocalsAreDeclared == Is("locals") => Com!LocalsAreDeclared(Input)

RingCalls == UNION {[1 .. n -> {"v", "w", "get"}] : n \in 1 .. 6}

RingIsFifo == Is("ring") => Com!RingIsFifo(Input[1], Input[2])

-----------------------------------------------------------------------------
(* The properties of the run. *)

(* What an asynchronous method is translated to does what the method does: *)
(* the function of a process, the entry function of a coroutine that only  *)
(* delays, the coroutine of dm_async_generator and the task of a class,    *)
(* each on the bodies it can translate.  The function of a process in an   *)
(* endless loop also ends when the host asks for a halt in one of its      *)
(* calls, and up to there it has made the calls of the method.             *)
AsyncTextFollowsSource ==
    /\ RunFollowsSource /\ EntryFollowsSource
    /\ CoroutineFollowsSource /\ TasksFollowSource

(* What a synchronous method is translated to, as a method of a component, *)
(* as a function for direct calls and as a method of a class, makes the    *)
(* same calls with the same arguments in the same order, and leaves the    *)
(* same fields and result.  In an endless loop the method of a component   *)
(* can be halted, and up to there it has made the same calls.              *)
MethodTextFollowsSource == TextFollowsSource /\ SyncFollowsSource /\ MethodsFollowSource

(* No suspension is overlooked: a function converted to a synchronous one  *)
(* cannot suspend, by itself or through the functions it calls, and one    *)
(* whose frame is left out does not wait; every execution of a component's *)
(* functions waits within the bounds computed for it.                      *)
SuspensionsAreFound ==
    /\ ConvertibleNeverAwaits /\ ClassifiesByReachability
    /\ LatenciesBound /\ FramesOnlyForWaits

(* A call through a port arrives where the binds of the design lead: the   *)
(* same function with the same instance whether it goes through the bound  *)
(* structure or was made direct, and every port is bound after the init.   *)
(* What c_generator binds is what the objects of the design ask for, and a *)
(* channel it made a ring of gives its items in order.  A call of a method *)
(* of a class runs the override the object's class has.                    *)
CallsFollowConnections ==
    /\ CallsReachCallee /\ DirectCallsAgree
    /\ ConnectionsNameInstances /\ PortsAreBoundAfterInit
    /\ PortsAreConnected /\ RingIsFifo /\ CallsAreDispatched

(* The function of an activity calls its actions in the order of the       *)
(* source, and a constraint is handed to the traversal it was written for. *)
ActivitiesKeepOrder == CallsFollowActivity /\ ConstraintsReachTheirTraversal

(* Parts that are generated apart name the same data: the sidecar and the  *)
(* header, the nodes and the members they use, the ctypes structure and    *)
(* the C one, and an access and the kind and width of what it accesses.    *)
LayoutsAndAccessesAgree ==
    /\ SidecarMatchesC /\ NodesUseLiveMembers
    /\ LayoutsAgree /\ RegistersArePacked /\ AccessesFollowTypes /\ HandlesAreKnown

(* Every name is declared before its use and defined once, across the      *)
(* includes of the generated files, in the order of the types and of the   *)
(* classes, and in the body of a method.                                   *)
FilesCompile == UnitsCompile /\ TypesInOrder /\ BasesComeFirst /\ LocalsAreDeclared

-----------------------------------------------------------------------------
Init ==
    \/ \E b \in Bodies, f \in 0 .. 1 : item = <<"body", <<b, f>>>>
    \/ \E c \in Components   : item = <<"component", c>>
    \/ \E b \in TextBodies, f \in Fields : item = <<"text", <<b, f>>>>
    \/ \E c \in LatComponents : item = <<"latency", c>>
    \/ \E d \in Designs       : item = <<"design", d>>
    \/ \E a \in Activities    : item = <<"activity", a>>
    \/ \E d \in AccDesigns, b \in AccBodies : item = <<"access", <<d, b>>>>
    \/ \E x \in ObjFieldsOf("a"), y \in ObjFieldsOf("b"), b \in ObjBodies :
           (b # << >> => y.t = "claim_pool") /\ item = <<"object", <<{x, y}, b>>>>
    \/ \E d \in CallDesigns, c \in CallInputs : item = <<"call", <<d, c>>>>
    \/ \E b \in BitInputs    : item = <<"bits", b>>
    \/ \E d \in UnitDesigns  : item = <<"unit", d>>
    \/ \E d \in TypeDesigns  : item = <<"types", d>>
    \/ \E c \in ClassContexts : item = <<"class", c>>
    \/ \E d \in BindDesigns   : item = <<"bind", d>>
    \/ \E b \in LocalBodies   : item = <<"locals", b>>
    \/ \E c \in RingCalls, n \in {2, 4} : item = <<"ring", <<c, n>>>>
    \/ \E b \in TaskBodies, f \in Fields : item = <<"task", <<b, f>>>>
    \/ \E d \in LayDesigns    : (d.counters \cap d.nxt = {}) /\ item = <<"layout", d>>

Next == UNCHANGED item

Spec == Init /\ [][Next]_item
=============================================================================
