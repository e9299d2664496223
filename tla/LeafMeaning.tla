---------------------------- MODULE LeafMeaning ----------------------------
(***************************************************************************)
(* What a leaf program means, without registers, frames or bytes: the      *)
(* abstract specification of the compiler.  A store has a value for every  *)
(* place that was assigned to.  A place is <<frame, variable, field,       *)
(* index>>; frame 0 is that of the globals, and every call has one of its  *)
(* own.  A value is a number of 16 bits, or the place it points to.        *)
(*                                                                         *)
(* The state of a running program is a record e:                           *)
(*   defs      the definitions of functions, types and globals             *)
(*   vars      the parsed type of <<frame, variable>>                      *)
(*   store     the value of every place                                    *)
(*   frame, last   the frame of the function that runs, the last frame     *)
(*   returned, result   whether the function returned, and what            *)
(***************************************************************************)
EXTENDS Integers, SequencesExt, TLC

CONSTANT Text      (* the bytes of a string, by its name                   *)
CONSTANT AsmValue  (* the result an inline assembly leaves in r0           *)

Pow16 == 2 ^ 16

Number16(n)   == [n |-> n % Pow16, at |-> <<>>]
PointsTo(loc) == [n |-> 0, at |-> loc]

Place(frame, var, field, index) == <<frame, var, field, index>>
Shifted(loc, n) == [loc EXCEPT ![4] = @ + n]
TextFrame == -1

Yields(e, v) == [e |-> e, v |-> v]

(* The frame a variable belongs to, and its declared type.                 *)
FrameOf(e, name)    == IF <<e.frame, name>> \in DOMAIN e.vars THEN e.frame ELSE 0
DeclaredType(e, name) == e.vars[<<FrameOf(e, name), name>>]

DefinitionOf(e, type, name) ==
  e.defs[SelectInSeq(e.defs, LAMBDA d : d.type = type /\ d.name = name)]

FieldType(e, type, field) ==
  LET fields == DefinitionOf(e, "TYPE_DECL", type).fields
  IN  fields[SelectInSeq(fields, LAMBDA f : f.name = field)].type

(* What is read at a place: a byte of a text, an array as a pointer to its *)
(* first element, or the value stored there.                               *)
ReadAt(e, loc, type) ==
  CASE loc[1] = TextFrame -> Number16((Text[loc[2]] \o <<0>>)[loc[4] + 1])
    [] loc[1] # TextFrame /\ type.count > 0 -> PointsTo(loc)
    [] OTHER -> e.store[loc]

NoArray == [name |-> "", ptr |-> FALSE, count |-> 0]

(* A frame in which the parameters have these values.                      *)
Bound(e, frame, params, vals) ==
  FoldLeft(LAMBDA f, i :
             [f EXCEPT !.vars  = <<frame, params[i].name>> :> params[i].type @@ @,
                       !.store = Place(frame, params[i].name, "", 0) :> vals[i] @@ @],
           [e EXCEPT !.frame = frame, !.last = frame], [i \in 1 .. Len(params) |-> i])

RECURSIVE Meaning(_, _), Meanings(_, _, _), PlaceOf(_, _), CallOf(_, _)
RECURSIVE Run(_, _), RunAll(_, _), Looped(_, _, _)

(* The places an expression on the left of = stands for, and the type of   *)
(* what is there.  It may call functions, for an index.                    *)
PlaceOf(e, node) ==
  CASE node.type = "LABEL" ->
         [e |-> e, loc |-> Place(FrameOf(e, node.name), node.name, "", 0),
          type |-> DeclaredType(e, node.name)]
    [] node.type = "FIELD" ->
         LET var   == node.kids[1].name
             field == node.kids[2].name
             here  == Place(FrameOf(e, var), var, "", 0)
             to    == IF DeclaredType(e, var).ptr THEN e.store[here].at ELSE here
         IN  [e |-> e, loc |-> [to EXCEPT ![3] = field],
              type |-> FieldType(e, DeclaredType(e, var).name, field)]
    [] node.type = "INDEX" ->
         LET base  == Meaning(e, node.kids[1])
             index == Meaning(base.e, node.kids[2])
         IN  [e |-> index.e, loc |-> Shifted(base.v.at, index.v.n), type |-> NoArray]

(* The value of an expression.                                             *)
Meaning(e, node) ==
  CASE node.type = "LITERAL_INTEGER" -> Yields(e, Number16(node.num))
    [] node.type = "LITERAL_STRING"  ->
         Yields(e, PointsTo(Place(TextFrame, node.name, "", 0)))
    [] node.type = "ADDR" -> Yields(e, PointsTo(Place(FrameOf(e, node.name), node.name, "", 0)))
    [] node.type = "CALL" -> CallOf(e, node)
    [] node.type \in {"LABEL", "FIELD", "INDEX"} ->
         LET p == PlaceOf(e, node) IN Yields(p.e, ReadAt(p.e, p.loc, p.type))
    [] OTHER ->
         LET left  == Meaning(e, node.kids[1])
             right == Meaning(left.e, node.kids[2])
             x == left.v.n
             y == right.v.n
         IN  Yields(right.e, Number16(
               CASE node.type = "ADD" -> x + y
                 [] node.type = "SUB" -> x - y
                 [] node.type = "MUL" -> x * y
                 [] node.type = "CMPEQ"  -> IF x = y THEN 1 ELSE 0
                 [] node.type = "CMPNEQ" -> IF x = y THEN 0 ELSE 1))

(* The values of expressions from left to right, behind vals.              *)
Meanings(e, nodes, vals) ==
  LET v == Meaning(e, Head(nodes))
  IN  IF nodes = <<>> THEN Yields(e, vals) ELSE Meanings(v.e, Tail(nodes), Append(vals, v.v))

(* A call: the arguments, then the body in a frame of its own.             *)
CallOf(e, call) ==
  LET def == DefinitionOf(e, "FUNC_DEF", call.kids[1].name)
      args   == Meanings(e, Tail(call.kids), <<>>)
      end    == RunAll(Bound(args.e, args.e.last + 1, def.fields, args.v), def.kids)
  IN  IF call.kids[1].name = "__asm"
        THEN Yields([e EXCEPT !.result = Number16(AsmValue[call.kids[2].name])], Number16(0))
      ELSE Yields([end EXCEPT !.frame = e.frame, !.returned = FALSE, !.result = e.result],
                  end.result)

(* A loop: its index runs from the first value up to, and without, the     *)
(* end, which is computed anew every time.                                 *)
Looped(e, node, i) ==
  LET loc  == Place(e.frame, node.name, "", 0)
      here == [e EXCEPT !.store = loc :> Number16(i) @@ @]
      end  == Meaning(here, node.kids[2])
      body == RunAll(end.e, SubSeq(node.kids, 3, Len(node.kids)))
  IN  IF i >= end.v.n THEN end.e
      ELSE IF body.returned THEN body
      ELSE Looped(body, node, body.store[loc].n + 1)

(* One statement.                                                          *)
Run(e, node) ==
  CASE node.type = "VAR_DECL" ->
         [e EXCEPT !.vars = <<e.frame, node.name>> :> node.vtype @@ @]
    [] node.type = "ASSIGN" ->
         LET to   == PlaceOf(e, node.kids[1])
             from == Meaning(to.e, node.kids[2])
         IN  [from.e EXCEPT !.store = to.loc :> from.v @@ @]
    [] node.type = "RETURN" ->
         IF node.kids = <<>> THEN [e EXCEPT !.returned = TRUE]
         ELSE LET r == Meaning(e, node.kids[1])
              IN  [r.e EXCEPT !.returned = TRUE, !.result = r.v]
    [] node.type = "IF" ->
         LET cond == Meaning(e, node.kids[1])
         IN  IF cond.v.n = 1 THEN RunAll(cond.e, Tail(node.kids)) ELSE cond.e
    [] node.type = "LOOP" ->
         LET start == Meaning(e, node.kids[1])
             own   == [start.e EXCEPT !.vars = <<e.frame, node.name>> :>
                          [NoArray EXCEPT !.name = "int"] @@ @]
         IN  Looped(own, node, start.v.n)
    [] node.type = "CALL" -> CallOf(e, node).e

RunAll(e, nodes) ==
  IF nodes = <<>> \/ e.returned THEN e ELSE RunAll(Run(e, Head(nodes)), Tail(nodes))

(* The end of main, called with these arguments.                           *)
MeaningOf(file, args) ==
  LET globals == SelectSeq(file.kids, LAMBDA d : d.type = "VAR_DECL")
      main    == file.kids[SelectInSeq(file.kids, LAMBDA d : d.type = "FUNC_DEF"
                                                              /\ d.name = "main")]
      Declared(e, d) ==
        [e EXCEPT !.vars  = <<0, d.name>> :> d.vtype @@ @,
                  !.store = Place(0, d.name, "", 0) :> Number16(0) @@ @]
      empty   == [defs |-> file.kids, vars |-> <<>>, store |-> <<>>, frame |-> 1, last |-> 1,
                  returned |-> FALSE, result |-> Number16(0)]
  IN  RunAll(Bound(FoldLeft(Declared, empty, globals), 1, main.fields,
                   [i \in 1 .. Len(args) |-> Number16(args[i])]), main.kids)

=============================================================================
