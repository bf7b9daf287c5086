---------------------------- MODULE ActivityLower ---------------------------
(***************************************************************************)
(* The lowering of an activity to scheduler nodes (ActivityLowerPass) and  *)
(* the C function printed for them (CEmitPass._emit_scheduler).            *)
(*                                                                         *)
(* A statement of an activity is a record with its kind k.  What matters   *)
(* of a traversal is its handle and its inline constraints; a constraint   *)
(* statement is not a node, but is handed to a traversal that follows.     *)
(***************************************************************************)
EXTENDS Naturals, Sequences, FiniteSets, SequencesExt

Traverse(h, cs)    == [k |-> "traversal", handle |-> h, cons |-> cs]
Super              == [k |-> "super"]
Constraint(cs)     == [k |-> "constraint", cons |-> cs]
Bind               == [k |-> "bind"]
Block(kind, stmts) == [k |-> kind, stmts |-> stmts]  \* seq, atomic, parallel, schedule
Loop(kind, body)   == [k |-> kind, stmts |-> body]   \* repeat, do_while, while_do,
                                                     \* foreach, replicate
Choice(kind, bs)   == [k |-> kind, bodies |-> bs]    \* select, if, match

Sequential == {"seq", "atomic"}
Parallel   == {"parallel", "schedule"}
Loops      == {"repeat", "do_while", "while_do", "foreach", "replicate"}
Branchings    == {"select", "if", "match"}

(* The nodes. *)
SwActionExec(h, cs) == [n |-> "exec", handle |-> h, solve_constraints |-> cs]
SwSeqBlock(ch)      == [n |-> "seq", children |-> ch]
SwParBlock(ch)      == [n |-> "par", children |-> ch]
SwLoop(kind, body)  == [n |-> kind, body |-> body]
SwChoice(kind, bs)  == [n |-> kind, bodies |-> bs]

(* A list is lowered from its first statement to its last one; pending are *)
(* the constraints that wait for a traversal.  A list inside of another    *)
(* one begins with none, and what is pending at its end is lost.           *)
RECURSIVE _lower_stmts_list(_)

(* The node of a statement, and what is pending after it. *)
_lower_stmt(st, pending) ==
    CASE st.k = "traversal"  -> [node |-> <<SwActionExec(st.handle, st.cons \o pending)>>,
                                 pending |-> << >>]
      [] st.k = "super"      -> [node |-> <<SwActionExec("__super__", << >>)>>,
                                 pending |-> pending]
      [] st.k = "constraint" -> [node |-> << >>, pending |-> pending \o st.cons]
      [] st.k = "bind"       -> [node |-> << >>, pending |-> pending]
      [] st.k \in Sequential -> [node |-> <<SwSeqBlock(_lower_stmts_list(st.stmts))>>,
                                 pending |-> pending]
      [] st.k \in Parallel   -> [node |-> <<SwParBlock(_lower_stmts_list(st.stmts))>>,
                                 pending |-> pending]
      [] st.k \in Loops      ->
            [node |-> <<SwLoop(st.k, SwSeqBlock(_lower_stmts_list(st.stmts)))>>,
             pending |-> pending]
      [] st.k \in Branchings    ->
            [node |-> <<SwChoice(st.k, [i \in DOMAIN st.bodies |->
                            SwSeqBlock(_lower_stmts_list(st.bodies[i]))])>>,
             pending |-> pending]

lower_next(acc, st) ==
    LET r == _lower_stmt(st, acc.pending)
    IN  [nodes |-> acc.nodes \o r.node, pending |-> r.pending]

_lower_stmts_list(stmts) ==
    FoldLeft(lower_next, [nodes |-> << >>, pending |-> << >>], stmts).nodes

(* ActivityLowerPass._lower_action *)
_lower_action(stmts) == SwSeqBlock(_lower_stmts_list(stmts))

(* Mutant: the children in reverse, one level. *)
emit_backwards(node) ==
    IF node.n \in {"seq", "par"}
    THEN FlattenSeq(Reverse([i \in DOMAIN node.children |->
                                 IF node.children[i].n = "exec"
                                 THEN <<node.children[i].handle>> ELSE << >>]))
    ELSE << >>

(* CEmitPass._emit_sched_node: the calls of the function in their order.   *)
(* The branches of a parallel block are called one after the other, those  *)
(* of a select too; loops, if and match print nothing.                     *)
RECURSIVE _emit_sched_node(_)
_emit_sched_node(node) ==
    CASE node.n \in {"seq", "par"} ->
            FlattenSeq([i \in DOMAIN node.children |-> _emit_sched_node(node.children[i])])
      [] node.n = "select" ->
            FlattenSeq([i \in DOMAIN node.bodies |-> _emit_sched_node(node.bodies[i])])
      [] node.n = "exec"   -> <<node.handle>>
      [] OTHER             -> << >>

_emit_scheduler(stmts) == _emit_sched_node(_lower_action(stmts))

-----------------------------------------------------------------------------
(* Reference.  The orders in which an activity may traverse its actions:   *)
(* the statements of a sequence follow each other, the branches of a       *)
(* parallel block are interleaved.                                         *)
RECURSIVE Interleavings(_, _), Orders(_)

Interleavings(s, t) ==
    IF s = << >> \/ t = << >> THEN {s \o t}
    ELSE {<<Head(s)>> \o r : r \in Interleavings(Tail(s), t)}
         \cup {<<Head(t)>> \o r : r \in Interleavings(s, Tail(t))}

OrdersOf(st) ==
    CASE st.k = "traversal"  -> {<<st.handle>>}
      [] st.k = "super"      -> {<<"__super__">>}
      [] st.k \in Parallel   ->
            FoldSeq(LAMBDA b, acc : UNION {Interleavings(o, p) : o \in Orders(<<b>>), p \in acc},
                    {<< >>}, st.stmts)
      [] st.k \in Sequential -> Orders(st.stmts)
      [] OTHER               -> {<< >>}

Orders(stmts) ==
    IF stmts = << >> THEN {<< >>}
    ELSE {o \o p : o \in OrdersOf(Head(stmts)), p \in Orders(Tail(stmts))}

RECURSIVE Lists(_)
(* The statement lists of an activity. *)
Lists(stmts) ==
    {stmts} \cup UNION {
        CASE st.k \in Sequential \cup Parallel \cup Loops -> Lists(st.stmts)
          [] st.k \in Branchings -> UNION {Lists(b) : b \in ToSet(st.bodies)}
          [] OTHER -> {}
        : st \in ToSet(stmts)}

Straight(stmts) ==
    \A l \in Lists(stmts) : \A st \in ToSet(l) : st.k \notin Loops \cup Branchings

RECURSIVE Execs(_)
Execs(node) ==
    CASE node.n = "exec" -> {node}
      [] node.n \in {"seq", "par"} -> UNION {Execs(c) : c \in ToSet(node.children)}
      [] node.n \in Loops   -> Execs(node.body)
      [] node.n \in Branchings -> UNION {Execs(b) : b \in ToSet(node.bodies)}

(* The traversal of a list that a constraint statement is for. *)
NextTraversal(l, i) == {j \in i + 1 .. Len(l) :
                            /\ l[j].k = "traversal"
                            /\ \A n \in i + 1 .. j - 1 : l[n].k # "traversal"}

-----------------------------------------------------------------------------
(* The function of an activity without loops and choices calls every       *)
(* action once, in an order that the activity allows.                      *)
CallsFollowActivity(stmts) ==
    Straight(stmts) => _emit_scheduler(stmts) \in Orders(stmts)

(* A constraint statement constrains the next traversal of its own list    *)
(* and no other one; every traversal keeps its inline constraints.         *)
(* Handles are taken to be different.                                      *)
ConstraintsReachTheirTraversal(stmts) ==
    \A l \in Lists(stmts), e \in Execs(_lower_action(stmts)) :
        \A j \in DOMAIN l : (l[j].k = "traversal" /\ l[j].handle = e.handle) =>
            ToSet(e.solve_constraints) =
                ToSet(l[j].cons) \cup UNION {ToSet(l[i].cons) :
                    i \in {n \in DOMAIN l : /\ l[n].k = "constraint"
                                            /\ j \in NextTraversal(l, n)}}
=============================================================================
