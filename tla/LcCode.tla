------------------------------- MODULE LcCode -------------------------------
(***************************************************************************)
(* The code emit.c puts together for values, assignments, comparisons and  *)
(* calls, and around a function.                                           *)
(*                                                                         *)
(* An instruction is [op, dst, src, n, label]: its operands are registers, *)
(* an immediate when src is empty, or a label.  A label is an instruction, *)
(* too; the labels with an @ belong to the function they are in.           *)
(* "die" stands where the emitter reports an error or follows a pointer    *)
(* that is NULL: it writes no file then.                                   *)
(*                                                                         *)
(* What the emitter looks at is a record e:                                *)
(*   options  [fold, cmp]: f_fold_constants and f_cmp_literal              *)
(*   c        the state the compiler left                                  *)
(*   fn       the function                                                 *)
(*   off      the emit_offset of its locals, 0 before the block of a local *)
(*   size     its emit_locals_size                                         *)
(*                                                                         *)
(* A struct value points to the values it is made of.  Here the values in  *)
(* memory are a sequence vs, each of them behind those it points to, and   *)
(* its parts are their places; codes[k][reg] is the code that puts the     *)
(* k-th into a register.                                                   *)
(***************************************************************************)
EXTENDS Integers, Sequences

General == {"r0", "r1", "r2", "r3", "r4", "r5", "r6", "r7"}

Ins(op, dst, src) == [op |-> op, dst |-> dst, src |-> src, n |-> 0, label |-> <<>>]
Imm(op, dst, n)   == [op |-> op, dst |-> dst, src |-> "", n |-> n, label |-> <<>>]
To(op, dst, label) == [op |-> op, dst |-> dst, src |-> "", n |-> 0, label |-> label]

Die == <<Ins("die", "", "")>>

Push(reg) == Ins("push", reg, "")
Pop(reg)  == Ins("pop", reg, "")

Saved == <<"bp", "r4", "r5", "r6", "r7">>

(* emit_func_preamble.                                                     *)
Preamble == [i \in 1 .. 5 |-> Push(Saved[i])] \o <<Ins("mov", "bp", "sp")>>

(* Mutant of Epilogue: the registers come back in the order they went.     *)
EpilogueInOrder == <<Ins("mov", "sp", "bp")>> \o [i \in 1 .. 5 |-> Pop(Saved[i])]

(* emit_func_epilogue.                                                     *)
Epilogue == <<Ins("mov", "sp", "bp")>> \o [i \in 1 .. 5 |-> Pop(Saved[6 - i])]

(* register_name of R_R0 + i.                                              *)
Argument(i) == <<"r0", "r1", "r2", "r3", "r4", "r5", "r6", "r7">>[i + 1]

(* fold_constants: an int of C, which holds the operations on two 16-bit   *)
(* literals.                                                               *)
Folded(op, x, y) ==
  CASE op = "ADD"    -> x + y
    [] op = "SUB"    -> x - y
    [] op = "MUL"    -> x * y
    [] op = "CMPEQ"  -> IF x = y THEN 1 ELSE 0
    [] op = "CMPNEQ" -> IF x = y THEN 0 ELSE 1

(* The address of a local, some bytes into it.                             *)
Frame(reg, off, offset) == <<Ins("mov", reg, "bp"), Imm("sub", reg, off - offset)>>

GlobalLabel(c, ref) == <<"_G_", c.globals[ref.at].name>>

-----------------------------------------------------------------------------
(* store_value_addr_into_register.  The locals of a file have no block.    *)
AddrInto(e, reg, v) ==
  CASE v.type = "LOCAL" ->
         IF v.ref.global THEN Die
         ELSE IF v.deref
           THEN Frame("r4", e.off[v.ref.at], 0)
                  \o <<Ins("load", reg, "r4"), Imm("add", reg, v.offset)>>
         ELSE Frame(reg, e.off[v.ref.at], v.offset)
    [] v.type = "GLOBAL" -> <<To("mov", reg, GlobalLabel(e.c, v.ref))>>
    [] OTHER -> Die

(* The two sides of an operation, in reg and in r4.                        *)
Operation(op, reg) ==
  CASE op = "ADD" -> <<Ins("add", reg, "r4")>>
    [] op = "SUB" -> <<Ins("sub", reg, "r4")>>
    [] op = "MUL" -> <<Ins("mul", reg, "r4")>>
    [] OTHER      -> Die

Folds(e, vs, v) ==
  e.options.fold /\ \A i \in 1 .. 2 : vs[v.parts[i]].type = "IMMEDIATE"

(* What an operation on two literals is folded to.                         *)
Constant(vs, v) == Folded(v.op, vs[v.parts[1]].imm, vs[v.parts[2]].imm)

(* Mutant of EmitOp: the right side does not wait on the stack.            *)
EmitOpKept(e, reg, vs, v, codes) ==
  IF Folds(e, vs, v) THEN <<Imm("mov", reg, Constant(vs, v))>>
  ELSE codes[v.parts[2]][reg] \o <<Ins("mov", "r4", reg)>>
         \o codes[v.parts[1]][reg] \o Operation(v.op, reg)

(* emit_op: the right side waits on the stack for the left side.           *)
EmitOp(e, reg, vs, v, codes) ==
  IF Folds(e, vs, v) THEN <<Imm("mov", reg, Constant(vs, v))>>
  ELSE codes[v.parts[2]][reg] \o <<Push(reg)>>
         \o codes[v.parts[1]][reg] \o <<Pop("r4")>> \o Operation(v.op, reg)

(* What is indexed, in r4: a pointer, or an array where it is.             *)
BaseInto(e, vs, v, codes) ==
  IF v.deref THEN codes[v.parts[1]]["r4"] ELSE AddrInto(e, "r4", vs[v.parts[1]])

(* An element of one byte is cut out of the word.                          *)
CutByte(reg, v) == IF v.esize = 1 THEN <<Imm("and", reg, 255)>> ELSE <<>>

(* store_value_into_register of an index.                                  *)
EmitIndex(e, reg, vs, v, codes) ==
  codes[v.parts[2]]["r6"] \o <<Imm("mul", "r6", v.esize)>> \o BaseInto(e, vs, v, codes)
    \o <<Ins("add", "r4", "r6"), Ins("load", reg, "r4")>> \o CutByte(reg, v)

(* store_value_into_register.                                              *)
ValueInto(e, reg, vs, v, codes) ==
  CASE v.type = "IMMEDIATE" -> <<Imm("mov", reg, v.imm)>>
    [] v.type \in {"LOCAL", "GLOBAL"} ->
         AddrInto(e, "r4", v) \o <<Ins(IF v.decay THEN "mov" ELSE "load", reg, "r4")>>
    [] v.type = "STRING" -> <<To("mov", reg, <<"_S_", v.imm>>)>>
    [] v.type = "OP"     -> EmitOp(e, reg, vs, v, codes)
    [] v.type = "ADDR"   -> Frame(reg, e.off[v.ref.at], 0)
    [] v.type = "INDEX"  -> EmitIndex(e, reg, vs, v, codes)
    [] OTHER -> Die

(* The code of every value, in every register.                             *)
Codes(e, vs) ==
  LET codes[k \in 1 .. Len(vs)] ==
        [reg \in General |-> ValueInto(e, reg, vs, vs[k], codes)]
  IN  codes

-----------------------------------------------------------------------------
(* The ways of store_register_into_local: to a label, to a place in the    *)
(* frame, to an element of an array there, and through a pointer there.    *)
Write(result, scratch) == <<Ins("store", result, scratch)>>

IntoGlobal(result, scratch, label) == <<To("mov", scratch, label)>> \o Write(result, scratch)

IntoFrame(result, scratch, at) == Frame(scratch, at, 0) \o Write(result, scratch)

(* The index is in the scratch register.                                   *)
IntoArray(result, scratch, at, esize) ==
  << Imm("mul", scratch, esize), Ins("add", scratch, "bp"), Imm("sub", scratch, at) >>
    \o Write(result, scratch)

(* The index is in the result register, and the result on the stack.       *)
IntoPointer(result, scratch, at, esize) ==
  <<Imm("mul", result, esize)>> \o Frame(scratch, at, 0)
    \o <<Ins("load", scratch, scratch), Ins("add", scratch, result), Pop(result)>>
    \o Write(result, scratch)

(* store_register_into_local: an index into an array is computed in the    *)
(* scratch register, one into a pointer in the result register; codes has  *)
(* its code, if there is an index.  kind and esize are of the local's type *)
(* and of its elements.                                                    *)
RegisterInto(e, result, scratch, b, kind, esize, codes) ==
  LET at == e.off[b.ref.at] - b.offset
  IN  CASE b.ref.at = 0 -> Die
        [] b.ref.at # 0 /\ b.ref.global ->
             IntoGlobal(result, scratch, GlobalLabel(e.c, b.ref))
        [] OTHER ->
             CASE b.index = <<>> -> IntoFrame(result, scratch, at)
               [] b.index # <<>> /\ kind = "ARRAY" ->
                    codes[scratch] \o IntoArray(result, scratch, at, esize)
               [] b.index # <<>> /\ kind = "POINTER" ->
                    <<Push(result)>> \o codes[result]
                      \o IntoPointer(result, scratch, at, esize)
               [] OTHER -> Die

(* emit_store: the values of a store are what is stored and the index.     *)
EmitStore(e, b, kind, esize, codes, at) ==
  codes[at[1]]["r5"]
    \o RegisterInto(e, "r5", "r4", b, kind, esize,
                    IF b.index = <<>> THEN <<>> ELSE codes[at[2]])

(* emit_cmp of the values at two places.                                   *)
EmitCmp(e, vs, codes, left, right) ==
  codes[left]["r5"]
    \o (IF e.options.cmp /\ vs[right].type = "IMMEDIATE"
          THEN <<Imm("cmp", "r5", vs[right].imm)>>
          ELSE codes[right]["r6"] \o <<Ins("cmp", "r5", "r6")>>)

(* emit_call before the call: the values at these places go to the first   *)
(* registers, one after the other.                                         *)
PassAll(codes, args) ==
  LET passed[n \in 0 .. Len(args)] ==
        IF n = 0 THEN <<>> ELSE passed[n - 1] \o codes[args[n]][Argument(n - 1)]
  IN  passed[Len(args)]

(* emit_jmp.                                                               *)
EmitJump(kind, label) ==
  CASE kind = "ALWAYS" -> <<To("jmp", "", label)>>
    [] kind = "EQ"     -> <<To("jeq", "", label)>>
    [] kind = "NEQ"    -> <<Ins("cfs", "", ""), To("jeq", "", label)>>

=============================================================================
