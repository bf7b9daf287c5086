------------------------------ MODULE TypeLower ------------------------------
(***************************************************************************)
(* passes/type_lower.py: the C type of each type of the data model, and    *)
(* the order in which the bodies of structures are printed.                *)
(*                                                                         *)
(* d.order are the names of the types in the context, d.types[n] is [kind, *)
(* fields]: kind is "struct", "component" or "enum", and a field is [k,    *)
(* of]: k is "int", "ref", "array" or "other", of the type it refers to or *)
(* the elements of the array.                                              *)
(***************************************************************************)
EXTENDS Sequences, FiniteSets, SequencesExt

HasFields(d, n) == d.types[n].kind \in {"struct", "component"}

(* The C types a body mentions: _map_type, _resolve_elem. *)
_map_type(d, f) ==
    CASE f.k = "ref"   -> {f.of}
      [] f.k = "array" -> {f.of}
      [] OTHER         -> {}

_struct_body(d, n) == UNION {_map_type(d, f) : f \in ToSet(d.types[n].fields)}
_enum_body(d, n)   == {}

_type_body(d, n) == IF HasFields(d, n) THEN _struct_body(d, n) ELSE _enum_body(d, n)

(* Only a field that refers to a type depends on it. *)
_deps(d, n) ==
    IF ~HasFields(d, n) THEN << >>
    ELSE LET refs == SelectSeq(d.types[n].fields,
                               LAMBDA f : f.k = "ref" /\ f.of \in DOMAIN d.types /\ f.of # n)
         IN  [i \in DOMAIN refs |-> refs[i].of]

RECURSIVE visit(_, _, _)
visit(d, n, acc) ==
    IF n \in acc.visited THEN acc
    ELSE LET deps == FoldLeft(LAMBDA a, dep : visit(d, dep, a),
                              [acc EXCEPT !.visited = @ \cup {n}], _deps(d, n))
         IN  [deps EXCEPT !.order = Append(@, n)]

_topological_sort(d) ==
    FoldLeft(LAMBDA a, n : visit(d, n, a), [visited |-> {}, order |-> << >>], d.order).order

(* The bodies in the order of c_type_bodies. *)
run(d) == _topological_sort(d)

RECURSIVE Holds(_, _, _)
Holds(d, n, seen) ==
    n \notin seen /\ \A m \in _struct_body(d, n) \cap DOMAIN d.types : Holds(d, m, seen \cup {n})

(* No type contains itself, and the elements of arrays are integers: the   *)
(* order does not know what an array is made of.                           *)
ReliableTypes(d) ==
    \A n \in DOMAIN d.types :
        /\ HasFields(d, n) => Holds(d, n, {})
        /\ \A f \in ToSet(d.types[n].fields) : f.k = "array" => f.of = "int"

(* Every type is printed once, and after the types its body contains, in   *)
(* whatever order they entered the context.                                *)
TypesInOrder(d) ==
    LET o == run(d)
    IN  ReliableTypes(d) =>
            /\ Len(o) = Cardinality(DOMAIN d.types) /\ ToSet(o) = DOMAIN d.types
            /\ \A i \in DOMAIN o :
                   _type_body(d, o[i]) \cap DOMAIN d.types \subseteq {o[j] : j \in 1 .. i - 1}
=============================================================================
