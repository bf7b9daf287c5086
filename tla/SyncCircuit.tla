---------------------------- MODULE SyncCircuit -----------------------------
(***************************************************************************)
(* What a component of wires, @comb and @sync processes promises: a clock  *)
(* edge computes the wires and the combinational fields from the state,    *)
(* lets every @sync process read the state as it was before the edge, and  *)
(* then takes over what they have written, all at once.                    *)
(*                                                                         *)
(* What no @comb process computes is held from edge to edge; the reset of  *)
(* a component gives values to some of it.                                 *)
(***************************************************************************)
EXTENDS DmProgram

CONSTANTS Values       \* the values written from outside

VARIABLES comp,        \* the component
          val          \* the values it holds

Assigned(bodies) ==
    {Loc(st.tgt)[2] : st \in {x \in UNION {SubStmts(bodies[i]) : i \in DOMAIN bodies} :
        x.s \in {"assign", "aug"} /\ x.tgt.e \in {"field", "elem"}}}

Holding(c)  == c.fields \ Assigned(c.combs)
WireNames(c) == {c.wires[i].v : i \in DOMAIN c.wires}
Locals(c)   == {"x", "y"}

-----------------------------------------------------------------------------
(* The settled values.  Wires and processes are run, in the order they are *)
(* written, as often as there are of them.                                 *)

Each(fs, e) == [i \in DOMAIN fs |-> Assign(Field(fs[i]), e)]

RECURSIVE Plainly(_)
Plainly(body) ==
    FlattenSeq([i \in DOMAIN body |->
        LET st == body[i]
        IN  CASE st.s = "setattr" -> Each(st.fs, st.e)
              [] st.s = "if"      -> <<If(st.e, Plainly(st.body), Plainly(st.orelse))>>
              [] OTHER            -> <<st>>])

Pass(c, m) ==
    LET wired == FoldLeft(LAMBDA acc, w : [acc EXCEPT ![<<"self", w.v>>] = PyVal(w.e, acc)],
                          m, c.wires)
    IN  FoldLeft(LAMBDA acc, body : Exec(Plainly(body), Start(acc)).m, wired, c.combs)

RECURSIVE Passes(_, _, _)
Passes(c, m, n) == IF n = 0 THEN m ELSE Passes(c, Pass(c, m), n - 1)

Settle(c, m) == Passes(c, m, Len(c.wires) + Len(c.combs))

SettledMemory(c, v) ==
    Settle(c, [loc \in {"self", "auto", "nxt"} \X (c.fields \cup WireNames(c) \cup Locals(c)) |->
                  IF loc[1] # "auto" /\ loc[2] \in DOMAIN v THEN v[loc[2]] ELSE 0])

(* A body with its assignments to fields put off. *)
RECURSIVE Deferred(_)
Deferred(body) ==
    LET later(tgt) == IF tgt.e = "local" THEN tgt ELSE Text(<< <<"nxt", tgt.v>> >>)
        put(st) ==
            CASE st.s = "assign" -> Assign(later(st.tgt), st.e)
              [] st.s = "aug"    -> Assign(later(st.tgt), Bin(st.op, st.tgt, st.e))
              [] st.s = "if"     -> If(st.e, Deferred(st.body), Deferred(st.orelse))
              [] OTHER           -> st
    IN  [i \in DOMAIN body |-> put(body[i])]

EdgeOf(c, v) ==
    LET after == FoldLeft(LAMBDA acc, body : Exec(Deferred(Plainly(body)), Start(acc)).m,
                          SettledMemory(c, v), c.syncs)
    IN  [f \in DOMAIN v |-> after[<<"nxt", f>>]]

-----------------------------------------------------------------------------
Init == val = [f \in Holding(comp) |-> 0]

Edge  == val' = EdgeOf(comp, val)
Poke  == \E f \in Holding(comp), n \in Values : val' = [val EXCEPT ![f] = n]
Reset == val' = [f \in DOMAIN val |-> IF f \in DOMAIN comp.reset THEN comp.reset[f] ELSE val[f]]

Next == UNCHANGED comp /\ (Edge \/ Poke \/ Reset)

Spec == Init /\ [][Next]_<<comp, val>>
=============================================================================
