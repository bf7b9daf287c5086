------------------------------- MODULE RtlBits -------------------------------
(***************************************************************************)
(* passes/rtl/expr_lower.py: accesses to fields and their bits in the      *)
(* expressions of an RTL component.  W is the width of a C int, Wide that  *)
(* of the widest field.                                                    *)
(*                                                                         *)
(* An access has a place (a field named as an attribute or by its index,   *)
(* whole or a member of a bundle) and an operation on what it reads.  The  *)
(* memory has the registers, their next values, and the other members.     *)
(* What a C expression can yield is a set: a shift by the width or more    *)
(* yields anything.                                                        *)
(***************************************************************************)
EXTENDS Integers, Sequences, FiniteSetsExt

CONSTANTS W, Wide

BitAt(v, i) == (v \div (2 ^ i)) % 2
Sum0(S, op(_)) == MapThenSumSet(op, S)

(* A shift of a value of w bits; w is at least that of an int, because     *)
(* narrower members are promoted.                                          *)
Promoted(w) == IF w < W THEN W ELSE w
ShiftLeft(v, n, w)  == IF n < w THEN {(v * (2 ^ n)) % (2 ^ w)} ELSE 0 .. ((2 ^ w) - 1)
ShiftRight(v, n, w) == IF n < w THEN {v \div (2 ^ n)} ELSE 0 .. ((2 ^ w) - 1)
And(a, b) == Sum0(0 .. (Wide - 1), LAMBDA i : BitAt(a, i) * BitAt(b, i) * (2 ^ i))

-----------------------------------------------------------------------------
(* The member a place is: registered fields are read from _regs and        *)
(* written to _nxt, as a whole and as bundles.                             *)
_lower_attribute(place, d, write_ctx) ==
    <<IF place.name \in d.nxt THEN (IF write_ctx THEN "_nxt" ELSE "_regs") ELSE "self">>
        \o place.path

(* A constant field that is named by its index is a macro.                 *)
_lower_ref_field(place, d, write_ctx) ==
    IF ~write_ctx /\ place.name \in d.consts THEN <<"macro">> \o place.path
    ELSE _lower_attribute(place, d, write_ctx)

LowerPlace(place, d, write_ctx) ==
    IF place.form = "attribute" THEN _lower_attribute(place, d, write_ctx)
    ELSE _lower_ref_field(place, d, write_ctx)

(* What the members hold: constants are a macro and a member that          *)
(* Foo_init() sets to the same value, registered fields have a value and a *)
(* next one.                                                               *)
Members(d, now, next) ==
    [p \in {<<"macro", c>> : c \in d.consts} \cup {<<"self">> \o q : q \in DOMAIN now}
          \cup {<<"_regs">> \o q : q \in DOMAIN now} \cup {<<"_nxt">> \o q : q \in DOMAIN now} |->
        IF p[1] = "_nxt" THEN next[Tail(p)] ELSE now[Tail(p)]]

(* (1u << bits) - 1u *)
MaskOf(bits) == {(m + (2 ^ W) - 1) % (2 ^ W) : m \in ShiftLeft(1, bits, W)}

(* Mutant: a mask without the bit hi. *)
slice_without_msb(v, w, op) ==
    IF op.const THEN {(v \div (2 ^ op.lo)) % (2 ^ (op.hi - op.lo))}
    ELSE {And(s, m) : s \in ShiftRight(v, op.lo, w), m \in MaskOf(op.hi - op.lo)}

(* field[hi:lo]: the mask of constant bounds is computed by the generator, *)
(* that of others by C.                                                    *)
LowerSlice(v, w, op) ==
    IF op.const THEN {(v \div (2 ^ op.lo)) % (2 ^ ((op.hi - op.lo) + 1))}
    ELSE {And(s, m) : s \in ShiftRight(v, op.lo, w), m \in MaskOf((op.hi - op.lo) + 1)}

_lower_subscript(v, w, op) ==
    CASE op.kind = "slice"   -> LowerSlice(v, w, op)
      [] op.kind = "bit"     -> {BitAt(v, op.lo)}
      [] op.kind = "element" -> {v[op.lo]}

(* ((int32_t)(v << s) >> s) with s = 32 - bits, which wraps for more.      *)
AsSigned(u) == LET x == u % (2 ^ W) IN IF x >= 2 ^ (W - 1) THEN x - (2 ^ W) ELSE x
LowerSext(v, w, bits) ==
    LET s == (W - bits) % (2 ^ Wide)
    IN  IF s >= w THEN AsSigned(0) .. AsSigned((2 ^ (W - 1)) - 1)
        ELSE {AsSigned(u) \div (2 ^ s) : u \in ShiftLeft(v, s, w)}

LowerZext(v, op) ==
    IF op.const THEN {v % (2 ^ op.hi)} ELSE {And(v, m) : m \in MaskOf(op.hi)}

_lower_call(v, w, op) ==
    CASE op.kind = "sext" -> LowerSext(v, w, op.hi)
      [] op.kind = "zext" -> LowerZext(v, op)
      [] op.kind = "bool" -> {IF v = 0 THEN 0 ELSE 1}
      [] op.kind = "any"  -> {IF \E i \in op.of : BitAt(v, i) = 1 THEN 1 ELSE 0}

LowerAccess(acc, d, mem) ==
    LET v == mem[LowerPlace(acc.place, d, FALSE)]
        w == Promoted(acc.width)
    IN  IF acc.op.kind \in {"slice", "bit", "element"} THEN _lower_subscript(v, w, acc.op)
        ELSE _lower_call(v, w, acc.op)

-----------------------------------------------------------------------------
(* What the access means: the bits hi to lo of the value before the edge,  *)
(* the value of the low bits with their sign or without.                   *)
LowBits(v, n) == Sum0(0 .. (n - 1), LAMBDA i : BitAt(v, i) * (2 ^ i))

Meant(acc, now) ==
    LET v  == now[acc.place.path]
        op == acc.op
    IN  CASE op.kind = "slice" ->
                Sum0(op.lo .. op.hi, LAMBDA i : BitAt(v, i) * (2 ^ (i - op.lo)))
          [] op.kind = "bit"     -> BitAt(v, op.lo)
          [] op.kind = "element" -> v[op.lo]
          [] op.kind = "sext"    -> LowBits(v, op.hi) - BitAt(v, op.hi - 1) * (2 ^ op.hi)
          [] op.kind = "zext"    -> LowBits(v, op.hi)
          [] op.kind = "bool"    -> IF v # 0 THEN 1 ELSE 0
          [] op.kind = "any"     -> IF {BitAt(v, i) : i \in op.of} \cap {1} # {} THEN 1 ELSE 0

(* A mask computed by C has fewer bits than an int, a sign extension at    *)
(* most as many, and at least one.                                         *)
InRange(op) ==
    CASE op.kind = "slice" -> op.const \/ (op.hi - op.lo) + 1 < W
      [] op.kind = "zext"  -> op.const \/ op.hi < W
      [] op.kind = "sext"  -> op.hi \in 1 .. W
      [] OTHER -> TRUE

(* An access in the C text yields the bits it names of the value before    *)
(* the edge, whatever was already written to the next value, and nothing   *)
(* else: no shift leaves its defined range.                                *)
BitsFollowSource(acc, d, now, next) ==
    InRange(acc.op) => LowerAccess(acc, d, Members(d, now, next)) = {Meant(acc, now)}
=============================================================================
