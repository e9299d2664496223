------------------------------ MODULE LcValues ------------------------------
(***************************************************************************)
(* What a value of the compiler is worth when its code runs, and when its  *)
(* code is right.  The circumstances x are                                 *)
(*   e   what the emitter looks at (module LcCode)                         *)
(*   g   the addresses of the labels of data                               *)
(*   m   a memory, of which more may be in use                             *)
(*   bp  the frame pointer                                                 *)
(* Values are listed in a sequence vs as in module LcCode.                 *)
(***************************************************************************)
EXTENDS LcMachine

(* Where a local is from, before an offset into it.                        *)
Origin(x, v) == Wrap(x.bp - x.e.off[v.ref.at])

(* Where a local or a global is, and if it is somewhere.                   *)
Place(x, v) ==
  IF v.type = "GLOBAL" THEN x.g[GlobalLabel(x.e.c, v.ref)]
  ELSE IF v.deref THEN Wrap(GetMem(x.m, Origin(x, v)) + v.offset)
  ELSE Wrap(x.bp - (x.e.off[v.ref.at] - v.offset))

HasPlace(x, v) ==
  \/ v.type = "GLOBAL" /\ x.g[GlobalLabel(x.e.c, v.ref)] \in Word16
  \/ /\ v.type = "LOCAL" /\ ~v.ref.global
     /\ IF v.deref THEN /\ {x.e.off[v.ref.at], v.offset} \subseteq Word16
                        /\ InUse(x.m, Origin(x, v))
        ELSE x.e.off[v.ref.at] - v.offset \in Word16

(* Where an element is: w has what the parts are worth.                    *)
Element(x, vs, v, w) ==
  Wrap((IF v.deref THEN w[v.parts[1]] ELSE Place(x, vs[v.parts[1]]))
         + Wrap(w[v.parts[2]] * v.esize))

Worth(x, vs, v, w) ==
  CASE v.type = "IMMEDIATE" -> v.imm
    [] v.type \in {"LOCAL", "GLOBAL"} ->
         IF v.decay THEN Place(x, v) ELSE GetMem(x.m, Place(x, v))
    [] v.type = "STRING" -> x.g[<<"_S_", v.imm>>]
    [] v.type = "OP"     -> Wrap(Folded(v.op, w[v.parts[1]], w[v.parts[2]]))
    [] v.type = "ADDR"   -> Origin(x, v)
    [] v.type = "INDEX"  -> LET word == GetMem(x.m, Element(x, vs, v, w))
                            IN  IF v.esize = 1 THEN word % 256 ELSE word

(* What every value is worth.                                              *)
Meaning(x, vs) ==
  LET w[k \in 1 .. Len(vs)] == Worth(x, vs, vs[k], w)
  IN  w

(* Values come behind their parts.                                         *)
Ordered(vs) ==
  \A k \in 1 .. Len(vs) :
    vs[k].type \in {"OP", "INDEX"} =>
      vs[k].parts[1] \in 1 .. k - 1 /\ vs[k].parts[2] \in 1 .. k - 1

LeafTypes == {"IMMEDIATE", "LOCAL", "GLOBAL", "STRING", "ADDR"}

(* Numbers are words, and what is read is in use.                          *)
SoundAt(x, vs, v, w) ==
  /\ v.type \in LeafTypes \cup {"OP", "INDEX"}
  /\ v.type = "IMMEDIATE" => v.imm \in Word16
  /\ v.type \in {"LOCAL", "GLOBAL"} =>
       HasPlace(x, v) /\ (v.decay \/ InUse(x.m, Place(x, v)))
  /\ v.type = "STRING" => x.g[<<"_S_", v.imm>>] \in Word16
  /\ v.type = "ADDR" => x.e.off[v.ref.at] \in Word16
  /\ v.type = "OP" =>
       IF Folds(x.e, vs, v)
         THEN v.op \in {"ADD", "SUB", "MUL", "CMPEQ", "CMPNEQ"} /\ Constant(vs, v) \in Word16
         ELSE v.op \in {"ADD", "SUB", "MUL"}
  /\ v.type = "INDEX" =>
       /\ v.esize \in Word16 /\ InUse(x.m, Element(x, vs, v, w))
       /\ IF v.deref THEN vs[v.parts[1]].type \in LeafTypes ELSE HasPlace(x, vs[v.parts[1]])

Sound(x, vs) ==
  Ordered(vs) /\ \A k \in 1 .. Len(vs) : SoundAt(x, vs, vs[k], Meaning(x, vs))

(* The register is one the value can be computed in: r4 has the left side  *)
(* of an operation and loses it to the right side.                         *)
Computable(e, vs, v, reg) == reg # "r4" \/ v.type # "OP" \/ Folds(e, vs, v)

(* Where a store writes, n being the index: to a global, to a local, to an *)
(* element of an array, or to an element behind a pointer; and if that is  *)
(* somewhere.  A global is stored to at its start only.                    *)
Slot(x, b) == Wrap(x.bp - (x.e.off[b.ref.at] - b.offset))

Destination(x, b, kind, esize, n) ==
  IF b.ref.global THEN x.g[GlobalLabel(x.e.c, b.ref)]
  ELSE IF b.index = <<>> THEN Slot(x, b)
  ELSE IF kind = "ARRAY" THEN Wrap(Slot(x, b) + n * esize)
  ELSE Wrap(GetMem(x.m, Slot(x, b)) + n * esize)

Writable(x, b, kind, esize, n) ==
  /\ b.ref.at # 0
  /\ IF b.ref.global
       THEN b.index = <<>> /\ b.offset = 0 /\ x.g[GlobalLabel(x.e.c, b.ref)] \in Word16
       ELSE x.e.off[b.ref.at] - b.offset \in Word16
  /\ b.index # <<>> =>
       /\ kind \in {"ARRAY", "POINTER"} /\ esize \in Word16
       /\ kind = "POINTER" => InUse(x.m, Slot(x, b))
  /\ InUse(x.m, Destination(x, b, kind, esize, n))

=============================================================================
