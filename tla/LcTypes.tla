------------------------------ MODULE LcTypes ------------------------------
(***************************************************************************)
(* The types of the leaf compiler (lc/src/type.c): a register to which     *)
(* types are added and never taken from.  A pointer to a type is the       *)
(* type's place in the register; 0 is NULL.                                *)
(***************************************************************************)
EXTENDS Integers, SequencesExt

PtrWidth == 16    (* IRID_PTR_WIDTH *)

(* type_alloc of a kind.  A field is [name, type].                         *)
Type(kind, name) ==
  [kind |-> kind, name |-> name, width |-> 0, base |-> 0, size |-> 0, fields |-> <<>>]

(* add_builtin_types.                                                      *)
Builtin == << [Type("INTEGER", "int") EXCEPT !.width = 16],
              [Type("INTEGER", "char") EXCEPT !.width = 8] >>

(* type_cmp: the kind and the name, which a pointer and an array have from *)
(* what they are made of.                                                  *)
SameType(t, u) == t.kind = u.kind /\ t.name = u.name

(* type_register_resolve: the first type of a name, or NULL.               *)
Resolve(types, name) == SelectInSeq(types, LAMBDA t : t.name = name)

RECURSIVE TypeSize(_, _)

(* type_size.                                                              *)
TypeSize(types, t) ==
  LET self == types[t]
  IN  CASE self.kind = "INTEGER" -> self.width \div 8
        [] self.kind = "POINTER" -> PtrWidth \div 8
        [] self.kind = "STRUCT"  ->
             FoldLeft(LAMBDA n, f : n + TypeSize(types, f.type), 0, self.fields)
        [] self.kind = "ARRAY"   -> TypeSize(types, self.base) * self.size

IsReference(types, t) == types[t].kind \in {"POINTER", "ARRAY"}

(* type_element_size.                                                      *)
ElementSize(types, t) ==
  TypeSize(types, IF IsReference(types, t) THEN types[t].base ELSE t)

(* type_struct_find_field: the place of the field, or 0.                   *)
FieldAt(types, t, name) == SelectInSeq(types[t].fields, LAMBDA f : f.name = name)

(* type_struct_field_offset of a field that is there.                      *)
FieldOffset(types, t, name) ==
  FoldLeft(LAMBDA n, f : n + TypeSize(types, f.type), 0,
           SubSeq(types[t].fields, 1, FieldAt(types, t, name) - 1))

(* The type at its place, or added at the end if it is not there.          *)
FoundOrAdded(types, at, type) ==
  IF at # 0 THEN [types |-> types, t |-> at]
  ELSE [types |-> Append(types, type), t |-> Len(types) + 1]

(* type_register_add_pointer: one for every base.                          *)
AddPointer(types, base) ==
  FoundOrAdded(types,
    SelectInSeq(types, LAMBDA t : t.kind = "POINTER" /\ t.base = base),
    [Type("POINTER", types[base].name) EXCEPT !.base = base])

(* type_register_add_array: one for every base that compares equal.        *)
AddArray(types, base, count) ==
  FoundOrAdded(types,
    SelectInSeq(types, LAMBDA t : t.kind = "ARRAY" /\ t.size = count
                                    /\ SameType(types[t.base], types[base])),
    [Type("ARRAY", types[base].name) EXCEPT !.base = base, !.size = count])

=============================================================================
