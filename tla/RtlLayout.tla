------------------------------ MODULE RtlLayout -----------------------------
(***************************************************************************)
(* The C struct of an RTL component and the ctypes structure that Python   *)
(* lays over it (RtlCEmitPass._emit_header, _emit_ctypes).                 *)
(*                                                                         *)
(* A field is [name, t, bits, size, ref]: t is "int", "array", "ref",      *)
(* "component" or "unknown"; size is the length of an array; ref the name  *)
(* of a structure.  A design is [fields, nxt, counters, wires, behav,      *)
(* structs]: the fields in their order, the names of the registered ones   *)
(* and of the counters, the widths of the wires, whether there is a        *)
(* behavioural process, and the members of each structure.                 *)
(*                                                                         *)
(* A layout is a sequence of members [name, size, align], in bytes; the    *)
(* compiler and ctypes place a member at the next multiple of its          *)
(* alignment.                                                              *)
(***************************************************************************)
EXTENDS Naturals, Sequences, FiniteSets, SequencesExt, FiniteSetsExt

(* RtlTypeMapper.map_rtl_int_type; a width of 0 or less counts as 32.      *)
Width(b)     == IF b <= 0 THEN 32 ELSE b
IntBytes(b)  == Min({w \in {1, 2, 4, 8} : Width(b) <= 8 * w} \cup {8})

Member(name, size, align) == [name |-> name, size |-> size, align |-> align]
IntMember(name, b)        == Member(name, IntBytes(b), IntBytes(b))
Uint32(name)              == Member(name, 4, 4)

RoundUp(n, a) == ((n + a - 1) \div a) * a

Offsets(members) ==
    FoldLeft(LAMBDA acc, m :
                 [at  |-> Append(acc.at, <<m.name, RoundUp(acc.end, m.align), m.size>>),
                  end |-> RoundUp(acc.end, m.align) + m.size],
             [at |-> << >>, end |-> 0], members)

Align(members) == Max({members[i].align : i \in DOMAIN members} \cup {1})
SizeOf(members) == RoundUp(Offsets(members).end, Align(members))
StructMember(name, members) == Member(name, SizeOf(members), Align(members))

Flatten(seqs) == FlattenSeq(seqs)
Over(f(_), s) == FlattenSeq([i \in DOMAIN s |-> f(s[i])])

(* _emit_embedded_structs, and its counterpart in _emit_ctypes, which has  *)
(* no entry for a member of another type.                                  *)
CStruct(d, ref) ==
    Over(LAMBDA f : <<IF f.t = "int" THEN IntMember(f.name, f.bits) ELSE Uint32(f.name)>>,
         d.structs[ref])
PyStruct(d, ref) ==
    Over(LAMBDA f : IF f.t = "int" THEN <<IntMember(f.name, f.bits)>> ELSE << >>,
         d.structs[ref])

(* _type_align, _sorted_regs_fields: by alignment, then by name.  A field  *)
(* has its place in the order of the names in rank.                        *)
_type_align(f) == IF f.t = "int" THEN IntBytes(f.bits) ELSE IF f.t = "ref" THEN 4 ELSE 1

_sorted_regs_fields(d) ==
    SortSeq(SelectSeq(d.fields, LAMBDA f : f.name \in d.nxt),
            LAMBDA f, g : \/ _type_align(f) > _type_align(g)
                          \/ _type_align(f) = _type_align(g) /\ f.rank < g.rank)

(* _emit_regs_substruct, and its counterpart in _emit_ctypes. *)
CRegs(d) ==
    Over(LAMBDA f : CASE f.t = "int" -> <<IntMember(f.name, f.bits)>>
                      [] f.t = "ref" -> <<StructMember(f.name, CStruct(d, f.ref))>>
                      [] OTHER       -> <<Uint32(f.name)>>,
         _sorted_regs_fields(d))
PyRegs(d) ==
    Over(LAMBDA f : CASE f.t = "int" -> <<IntMember(f.name, f.bits)>>
                      [] f.t = "ref" -> <<StructMember(f.name, PyStruct(d, f.ref))>>
                      [] OTHER       -> << >>,
         _sorted_regs_fields(d))

Plain(d) == SelectSeq(d.fields, LAMBDA f : f.name \notin d.nxt \cup d.counters)

Array(f) == Member(f.name, f.size * IntBytes(f.bits), IntBytes(f.bits))

CField(d, f) ==
    CASE f.t = "int"   -> <<IntMember(f.name, f.bits)>>
      [] f.t = "array" -> <<Array(f)>>
      [] f.t = "ref"   -> <<StructMember(f.name, CStruct(d, f.ref))>>
      [] f.t = "component" -> <<StructMember(f.name, CStruct(d, f.ref))>>
      [] f.t = "unknown"   -> <<Uint32(f.name)>>
PyField(d, f) ==
    CASE f.t = "int"   -> <<IntMember(f.name, f.bits)>>
      [] f.t = "array" -> <<Array(f)>>
      [] f.t = "ref"   -> <<StructMember(f.name, PyStruct(d, f.ref))>>
      [] OTHER         -> << >>

Wires(d) == Over(LAMBDA w : <<IntMember(w.name, w.bits)>>, d.wires)

Shadows(d, regs) ==
    IF d.nxt = {} THEN << >>
    ELSE <<StructMember("_regs", regs), StructMember("_nxt", regs)>>

Behaviour(d) ==
    IF d.behav THEN <<Uint32("_co_pc"), Member("_co_tick", 8, 8), Member("_co_wake", 8, 8)>>
    ELSE << >>

(* _emit_header, _emit_ctypes *)
_emit_header(d) == Over(LAMBDA f : CField(d, f), Plain(d)) \o Wires(d)
                   \o Shadows(d, CRegs(d)) \o Behaviour(d)

(* Mutant: the wires are left out. *)
ctypes_without_wires(d) == Over(LAMBDA f : PyField(d, f), Plain(d))
                           \o Shadows(d, PyRegs(d)) \o Behaviour(d)

_emit_ctypes(d) == Over(LAMBDA f : PyField(d, f), Plain(d)) \o Wires(d)
                   \o Shadows(d, PyRegs(d)) \o Behaviour(d)

-----------------------------------------------------------------------------
(* The fields that both sides know: integers, arrays of them, and          *)
(* structures whose members are integers; registered fields are no arrays. *)
Known(d) ==
    \A i \in DOMAIN d.fields :
        LET f == d.fields[i]
        IN  /\ f.t \in {"int", "array", "ref"} \/ f.name \in d.counters
            /\ f.t = "array" => f.name \notin d.nxt
            /\ f.t = "ref" => \A j \in DOMAIN d.structs[f.ref] :
                                  d.structs[f.ref][j].t = "int"

(* Python and C find every member at the same place with the same size,    *)
(* and the state is as long for both.                                      *)
LayoutsAgree(d) ==
    Known(d) => /\ Offsets(_emit_header(d)) = Offsets(_emit_ctypes(d))
                /\ Offsets(CRegs(d)) = Offsets(PyRegs(d))
                /\ SizeOf(_emit_header(d)) = SizeOf(_emit_ctypes(d))

(* Sorting keeps padding out of the registers, as long as they are         *)
(* integers.                                                               *)
RegistersArePacked(d) ==
    (\A i \in DOMAIN d.fields : d.fields[i].name \in d.nxt => d.fields[i].t = "int")
        => Offsets(CRegs(d)).end = FoldLeft(LAMBDA n, m : n + m.size, 0, CRegs(d))
=============================================================================
