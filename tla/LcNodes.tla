------------------------------ MODULE LcNodes ------------------------------
(***************************************************************************)
(* The nodes of the tree the leaf compiler's parser builds (lc/src/lc.h,   *)
(* node.c).  A node is                                                     *)
(*   type    its type without NODE_; the two types of literals are types   *)
(*   name    of a label, variable, function, type or loop index; the text  *)
(*           of a string                                                   *)
(*   num     the value of an integer literal                               *)
(*   vtype   the parsed type of a variable, the return type of a function  *)
(*   fields  parameters of a function or fields of a type: [name, type]    *)
(*   attrs   attributes of a function, and "variadic"                      *)
(*   cast    the parsed type it is cast into, or NoType                    *)
(*   kids    its children                                                  *)
(***************************************************************************)
EXTENDS Sequences

NoType == [name |-> "", ptr |-> FALSE, count |-> 0]

(* node_alloc and node_add_child.                                          *)
Node(type, name, kids) ==
  [type |-> type, name |-> name, num |-> 0, vtype |-> NoType, fields |-> <<>>,
   attrs |-> {}, cast |-> NoType, kids |-> kids]

Label(name)      == Node("LABEL", name, <<>>)
Integer(num)     == [Node("LITERAL_INTEGER", "", <<>>) EXCEPT !.num = num]
VarDecl(ty, name) == [Node("VAR_DECL", name, <<>>) EXCEPT !.vtype = ty]

=============================================================================
