--------------------------- MODULE MCRtlComponent ---------------------------
(***************************************************************************)
(* Components of a wire, two @comb processes written in the wrong or the   *)
(* right order, and up to two @sync processes from a palette.              *)
(***************************************************************************)
EXTENDS RtlComponent

MCAwaitValue == <<0>>

A == Field("a")
B == Field("b")
P == Field("p")
Q == Field("q")
In == Field("i")
W == Field("w")
Mem == Elem("mem")
X == Var("x")

Three(e) == Bin("%", e, Num(3))

WireA == [v |-> "w", e |-> Compare(A, <<"<">>, <<B>>)]

(* p from the state, q from p, q from the wire, and p from q. *)
CombP == <<Assign(P, Three(Bin("+", A, In)))>>
CombQ == <<Assign(Q, Bin("+", P, B))>>
CombW == <<If(Unary("not", In), <<Assign(Q, A)>>, <<Assign(Q, W)>>)>>
CombX == <<Assign(X, Bin("*", Q, Num(2))), Assign(P, Three(X))>>

CombLists == { << >>, <<CombQ, CombP>>, <<CombX, CombW>>, <<CombW, CombP>> }

SyncPalette ==
    { <<AugAssign(A, "-", IfExp(Compare(A, <<"==">>, <<Num(2)>>), Num(2), Unary("-", Num(1))))>>,
      <<Assign(A, Three(Bin("+", B, Num(1))))>>,
      <<Assign(B, A)>>,
      <<If(In, <<Assign(B, Three(P))>>, << >>)>>,
      <<Assign(X, Bin("+", A, Q)), Assign(B, Three(X)), Assign(Mem, A)>>,
      <<Assign(B, Mem)>>,
      <<If(BoolOp("and", <<In, W>>), <<[s |-> "setattr", fs |-> <<"a", "b">>, e |-> Num(1)]>>,
                                     <<Assign(A, B)>>)>> }

UpTo2(S) == {<< >>} \cup {<<x>> : x \in S} \cup {<<x, y>> : x, y \in S}

Component(ws, cs, ss) ==
    [fields |-> {"a", "b", "p", "q", "i", "mem"}, arrays |-> {"mem"},
     wires |-> ws, combs |-> cs, syncs |-> ss, reset |-> [f \in {"a", "p"} |-> 2],
     poked |-> {"i", "a"}]

(* A component names the wires it has. *)
IsClosed(c) ==
    WireNames(c) = {"w"} \/ \A st \in StmtsOf(c.combs) \cup StmtsOf(c.syncs) :
                               W \notin AllExprs(<<st>>)

MCComponents ==
    {c \in {Component(ws, cs, ss) : ws \in {<< >>, <<WireA>>},
                                    cs \in CombLists, ss \in UpTo2(SyncPalette)} :
        IsClosed(c)}
=============================================================================
