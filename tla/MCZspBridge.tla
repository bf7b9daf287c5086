----------------------------- MODULE MCZspBridge -----------------------------
(* Instances of ZspScenario and ZspBridge for TLC: small scenarios, every   *)
(* one of which is an initial state.  Those without imports run under the   *)
(* emitted main, the others under the bridge.                               *)
EXTENDS ZspBridge, FiniteSetsExt

CONSTANTS r, x, y, z, fn1, fn2, t1, t2, t3, t4, t5, t6, t7

Threads7 == {t1, t2, t3, t4, t5, t6, t7}
Nobody == {}
OneRoot == <<r>>
TwoRoots == <<r, y>>
CallsRun == {"run_until"}
NoDelay == {}
LongEnough == {20}

FailsInvoked == {z}

Wait(n) == [kind |-> "wait", time |-> n]
Invoke(a) == [kind |-> "invoke", target |-> a]
Par(bs) == [kind |-> "par", branches |-> bs, join |-> "all"]
Detach(bs) == [kind |-> "par", branches |-> bs, join |-> "none"]

UpTo2(S) == {<<>>} \cup {<<a>> : a \in S} \cup {<<a, b>> : a, b \in S}

(* r traverses x, y and z; x traverses y and z; y and z only wait.          *)
Bodies(ofR, ofX, ofY, ofZ) ==
    {[a \in {r, x, y, z} |->
        CASE a = r -> br [] a = x -> bx [] a = y -> by [] OTHER -> bz] :
     br \in ofR, bx \in ofX, by \in ofY, bz \in ofZ}

(* The threads a body creates when those it traverses create sub[a].        *)
Creates(body, sub) ==
    LET of(s) == CASE s.kind \in {"wait", "import"} -> 0
                   [] s.kind = "invoke" -> sub[s.target]
                   [] s.kind = "par"    ->
                        MapThenSumSet(LAMBDA k : 1 + sub[s.branches[k]],
                                      DOMAIN s.branches)
    IN  MapThenSumSet(LAMBDA i : of(body[i]), DOMAIN body)

Fits(p) ==
    LET none == [a \in {x, y, z} |-> 0]
        sub == [none EXCEPT ![x] = Creates(p[x], none)]
    IN  Creates(p[r], sub) + Len(Roots) <= Cardinality(Thread)

(* Every branch suspends before it ends: y waits, and so does x.            *)
JoiningBodies ==
    {p \in Bodies(
        UpTo2({Wait(1), Invoke(x), Par(<<y, y>>), Par(<<x, y>>), Par(<<y, x>>)}),
        UpTo2({Wait(1), Invoke(z), Par(<<y, y>>), Par(<<y>>)}) \ {<<>>},
        {<<Wait(0)>>, <<Wait(1)>>, <<Wait(2)>>, <<Wait(1), Wait(1)>>},
        {<<>>, <<Wait(1)>>}) : Fits(p)}

(* Branches may end while they are created.                                 *)
InstantBodies ==
    {p \in Bodies(UpTo2({Invoke(x), Par(<<y, y>>)}), {<<Par(<<y, y>>)>>},
                  {<<>>, <<Wait(1)>>}, {<<>>}) : Fits(p)}

(* The last statement of r, and no other, leaves its branches to themselves. *)
DetachedBodies ==
    {p \in Bodies({<<Detach(<<y>>)>>, <<Detach(<<y, y>>)>>, <<Detach(<<x, y>>)>>,
                   <<Wait(1), Detach(<<y, y>>)>>, <<Invoke(z), Detach(<<x, x>>)>>},
                  UpTo2({Wait(1), Invoke(z)}),
                  UpTo2({Wait(0), Wait(1), Wait(2)}),
                  {<<>>, <<Wait(1)>>}) : Fits(p)}

SoundBodies == JoiningBodies \cup DetachedBodies

-----------------------------------------------------------------------------
(* With imports. *)

Import(fn) == [kind |-> "import", fn |-> fn]

(* Every branch stops at an import before it ends; nobody waits for a time. *)
ImportingBodies ==
    {p \in Bodies(
        UpTo2({Import(fn1), Invoke(x), Par(<<y, y>>), Par(<<x, y>>)})
            \cup {<<Detach(<<y>>)>>, <<Import(fn1), Detach(<<x, y>>)>>},
        {<<Import(fn1)>>, <<Invoke(z), Import(fn1)>>, <<Par(<<y, y>>)>>},
        {<<Import(fn2)>>, <<Import(fn2), Invoke(z)>>},
        {<<Import(fn1)>>}) : Fits(p)}

AllBodies == SoundBodies \cup ImportingBodies
=============================================================================
