------------------------------- MODULE LcEmit -------------------------------
(***************************************************************************)
(* The back of the leaf compiler (lc/src/emit.c): the blocks of a file     *)
(* become assembly, each with the code of module LcCode.                   *)
(***************************************************************************)
EXTENDS LcCompiler, LcCode

RECURSIVE InMemory(_, _)

(* Values in memory, behind vs: [vs, at], at being where they are.  What a *)
(* value points to comes before it.                                        *)
InMemory(vs, values) ==
  FoldLeft(LAMBDA r, v :
             LET parts == InMemory(r.vs, v.parts)
             IN  [vs |-> Append(parts.vs, [v EXCEPT !.parts = parts.at]),
                  at |-> Append(r.at, Len(parts.vs) + 1)],
           [vs |-> vs, at |-> <<>>], values)

(* The kind and the element size of the type of what a block stores into.  *)
Target(e, b) == e.fn.locals[b.ref.at].type

KindOf(e, b) == e.c.types[Target(e, b)].kind

SizeOf(e, b) == ElementSize(e.c.types, Target(e, b))

(* Mutant of Within: a label is one of the whole file.                     *)
WithinFile(e, label) == label

(* A label with an @ is one of the function it is in.                      *)
Within(e, label) == <<e.fn.label>> \o label

LocalSize(e, ref) == TypeSize(e.c.types, e.fn.locals[ref.at].type)

(* Mutant of Room: none is made.                                           *)
NoRoom(e, ref) == <<>>

(* emit_local, what it emits.                                              *)
Room(e, ref) == <<Imm("sub", "sp", LocalSize(e, ref))>>

(* The instructions of a block, in emit_func.                              *)
EmitBlock(e, b) ==
  LET values == InMemory(<<>>, b.vals \o b.index)
      codes  == Codes(e, values.vs)
      at     == values.at
  IN  CASE b.type = "PREAMBLE"     -> Preamble
        [] b.type = "EPILOGUE"     -> Epilogue
        [] b.type = "LOCAL"        -> Room(e, b.ref)
        [] b.type = "STORE"        -> EmitStore(e, b, KindOf(e, b), SizeOf(e, b), codes, at)
        [] b.type = "CALL"         -> PassAll(codes, at) \o <<To("call", "", <<b.name>>)>>
        [] b.type = "ASM"          -> <<[Ins("asm", "", "") EXCEPT !.src = b.name]>>
        [] b.type = "LABEL"        -> <<To("label", "", Within(e, b.label))>>
        [] b.type = "JMP"          -> EmitJump(b.name, Within(e, b.label))
        [] b.type = "STORE_RETURN" -> codes[at[1]]["r0"]
        [] b.type = "STORE_RESULT" -> RegisterInto(e, "r0", "r4", b, "", 0, <<>>)
        [] b.type = "STORE_ARG"    -> RegisterInto(e, Argument(b.arg), "r4", b, "", 0, <<>>)
        [] b.type = "CMP"          -> EmitCmp(e, values.vs, codes, at[1], at[2])
        [] OTHER                   -> Die

(* emit_local, what it does to the function and the local.                 *)
Placed(e, b) ==
  IF b.type # "LOCAL" THEN e
  ELSE LET size == e.size + LocalSize(e, b.ref)
       IN  [e EXCEPT !.size = size, !.off[b.ref.at] = size]

(* emit_func: the code of a function, and where its locals are.            *)
EmitFunc(c, fn, options) ==
  LET first == [options |-> options, c |-> c, fn |-> fn, size |-> 0,
                off |-> [i \in 1 .. Len(fn.locals) |-> 0]]
      Emit(r, b) == [e |-> Placed(r.e, b), code |-> r.code \o EmitBlock(r.e, b)]
      done == FoldLeft(Emit, [e |-> first, code |-> <<>>], fn.blocks)
  IN  [off |-> done.e.off,
       code |-> (IF fn.exported THEN <<To("export", "", <<fn.label>>)>> ELSE <<>>)
                  \o <<To("label", "", <<fn.label>>)>> \o done.code \o <<Ins("ret", "", "")>>]

(* emitter_emit: the functions, the globals from the last to the first     *)
(* (add_global_blocks), and the strings.  The data is a sequence of        *)
(* [label, size, string].                                                  *)
Emitted(c, options) ==
  LET funcs == [i \in 1 .. Len(c.units) |-> EmitFunc(c, c.units[i], options)]
      GlobalOf(g) == [label |-> <<"_G_", g.name>>, size |-> TypeSize(c.types, g.type),
                      string |-> ""]
      StringOf(i) == [label |-> <<"_S_", i>>, size |-> 0, string |-> c.strings[i]]
  IN  [code |-> FlattenSeq([i \in 1 .. Len(funcs) |-> funcs[i].code]),
       data |-> Reverse([i \in 1 .. Len(c.globals) |-> GlobalOf(c.globals[i])])
                  \o [i \in 1 .. Len(c.strings) |-> StringOf(i)],
       off  |-> [i \in 1 .. Len(funcs) |-> funcs[i].off]]

=============================================================================
