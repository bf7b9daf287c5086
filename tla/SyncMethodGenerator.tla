------------------------ MODULE SyncMethodGenerator -------------------------
(***************************************************************************)
(* sync_generator.py: the C function printed beside the coroutine of an    *)
(* asynchronous method that never awaits, so that it can be called         *)
(* directly.                                                               *)
(***************************************************************************)
EXTENDS StmtGenerator

(* _map_cmpop looks for the operator under the name of its class, which is *)
(* CmpOp for all of them, and falls back to "==".                          *)
_map_cmpop(op) == "=="

(* Parameters are not among the references it knows; neither are "and",    *)
(* "or" and conditional expressions.  They are printed as 0.               *)
RECURSIVE _gen_expr(_)
_gen_expr(e) ==
    CASE e.e = "const"   -> <<Lit(e.n)>>
      [] e.e = "local"   -> << <<"auto", e.v>> >>
      [] e.e = "field"   -> << <<"self", e.v>> >>
      [] e.e = "bin"     -> Paren(_gen_expr(e.l) \o <<Op(_get_dm_binop(e.op))>> \o _gen_expr(e.r))
      [] e.e = "unary"   -> Paren(<<Op(IF e.op = "not" THEN "!" ELSE e.op)>> \o _gen_expr(e.x))
      [] e.e = "compare" -> Paren(_gen_expr(e.l) \o <<Op(_map_cmpop(e.ops[1]))>>
                                                 \o _gen_expr(e.rs[1]))
      [] OTHER           -> <<Lit(0)>>

(* A for loop becomes a block that runs once; augmented assignments, break,*)
(* continue and match become a comment.                                    *)
RECURSIVE _gen_stmt(_)
_gen_stmt(st) ==
    LET gen(e)    == Text(_gen_expr(e))
        all(body) == [i \in DOMAIN body |-> _gen_stmt(body[i])]
    IN  CASE st.s \in {"assign", "ann"} -> Assign(gen(st.tgt), gen(st.e))
          [] st.s = "call"   -> Call(st.f, gen(st.e))
          [] st.s = "return" -> Return(gen(st.e))
          [] st.s = "if"     -> If(gen(st.e), all(st.body), all(st.orelse))
          [] st.s = "while"  -> While(gen(st.e), all(st.body))
          [] st.s = "for"    -> [s |-> "block", body |-> all(st.body)]
          [] OTHER           -> Nop

generate_sync(body) == [i \in DOMAIN body |-> _gen_stmt(body[i])]

(* The statements and expressions that are printed as what they are.       *)
SyncReliable(body) ==
    /\ ReliableBody(body)
    /\ \A st \in SubStmts(body) :
           st.s \in {"assign", "ann", "call", "return", "if", "while"}
    /\ \A e \in AllExprs(body) :
           /\ e.e \in {"const", "local", "field", "bin", "unary", "compare"}
           /\ e.e = "compare" => e.ops = <<"==">>
=============================================================================
