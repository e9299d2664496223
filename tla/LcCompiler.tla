----------------------------- MODULE LcCompiler -----------------------------
(***************************************************************************)
(* The middle of the leaf compiler (lc/src/compiler.c, comp-*.c, block.c): *)
(* a tree of nodes becomes a flat list of blocks for every function.       *)
(*                                                                         *)
(* Its state is a record c:                                                *)
(*   ok       no error was reported: ce and ceh end the compiler           *)
(*   types    the type register                                            *)
(*   funcs    signatures [name, params, variadic, rtype]                   *)
(*   globals  [name, type]                                                 *)
(*   strings  the string blocks; the id of a string is its place           *)
(*   units    the compiled functions                                       *)
(*   fn       the function being compiled: its blocks, and its locals      *)
(*            [name, type], to which a struct local * is a reference by    *)
(*            their place                                                  *)
(* Warnings, places in the source and what only they use are left out, and *)
(* so is cast_type: resolve_value_type overwrites it with the type of the  *)
(* value itself, and nothing else reads it.                                *)
(***************************************************************************)
EXTENDS LcTypes

MaxArg == 4    (* MAX_ARG *)

(* What struct local * points to; place 0 is NULL.                         *)
Local(at)  == [global |-> FALSE, at |-> at]
Global(at) == [global |-> TRUE, at |-> at]
NoRef      == Local(0)

(* struct value: parts are the operands of an operation, or what is        *)
(* indexed and the index.                                                  *)
Value(type) ==
  [type |-> type, imm |-> 0, ref |-> NoRef, offset |-> 0, field |-> 0, deref |-> FALSE,
   esize |-> 0, decay |-> FALSE, op |-> "", parts |-> <<>>]

Immediate(n)  == [Value("IMMEDIATE") EXCEPT !.imm = n]
ReadLocal(at) == [Value("LOCAL") EXCEPT !.ref = Local(at)]
Op(op, left, right) == [Value("OP") EXCEPT !.op = op, !.parts = <<left, right>>]

(* block_alloc: vals are the value stored, the arguments of a call or the  *)
(* two sides of a comparison; index has a value or is empty.               *)
Block(type) ==
  [type |-> type, ref |-> NoRef, vals |-> <<>>, offset |-> 0, index |-> <<>>,
   name |-> "", label |-> <<>>, arg |-> 0]

NoFunction ==
  [label |-> "", exported |-> FALSE, blocks |-> <<>>, locals |-> <<>>, rtype |-> 0,
   labels |-> 0]

(* block_add_child.                                                        *)
AddBlock(c, block) == [c EXCEPT !.fn.blocks = Append(@, block)]

(* The value of a block that was added before, known later.                *)
SetValue(c, at, i, v) == [c EXCEPT !.fn.blocks[at].vals[i] = v]

(* ce, ceh and die.                                                        *)
Fails(c) == [c EXCEPT !.ok = FALSE]

(* Steps that also return a value v.                                       *)
Result(c, v)   == [c |-> c, v |-> v]
Refused(c)     == Result(Fails(c), 0)
With(r, F(_, _)) == IF r.c.ok THEN F(r.c, r.v) ELSE r
Into(r, F(_, _)) == IF r.c.ok THEN F(r.c, r.v) ELSE r.c

Named(seq, name) == SelectInSeq(seq, LAMBDA x : x.name = name)

(* find_local, then find_global.                                           *)
FindVariable(c, name) ==
  LET local == Named(c.fn.locals, name)
  IN  IF local # 0 THEN Local(local) ELSE Global(Named(c.globals, name))

Found(ref) == ref.at # 0

TypeOf(c, ref) == (IF ref.global THEN c.globals ELSE c.fn.locals)[ref.at].type

(* alloc_local: its place is the last one.                                 *)
AllocLocal(c, name, type) ==
  [c EXCEPT !.fn.locals = Append(@, [name |-> name, type |-> type])]

LastLocal(c) == Len(c.fn.locals)

(* add_pointer on the state.                                               *)
PointerTo(c, base) ==
  LET r == AddPointer(c.types, base) IN Result([c EXCEPT !.types = r.types], r.t)

(* make_real_type.                                                         *)
MakeRealType(c, parsed) ==
  LET base    == Resolve(c.types, parsed.name)
      Counted(d, t) ==
        IF parsed.count = 0 THEN Result(d, t)
        ELSE LET r == AddArray(d.types, t, parsed.count)
             IN  Result([d EXCEPT !.types = r.types], r.t)
  IN  IF base = 0 THEN Refused(c)
      ELSE With(IF parsed.ptr THEN PointerTo(c, base) ELSE Result(c, base), Counted)

(* resolve_value_type, with an array that decays into a pointer.           *)
RECURSIVE ResolveType(_, _)
ResolveType(c, v) ==
  LET Self ==
        CASE v.type = "IMMEDIATE" -> Result(c, Resolve(c.types, "int"))
          [] v.type = "STRING"    -> PointerTo(c, Resolve(c.types, "char"))
          [] v.type \in {"GLOBAL", "LOCAL"} ->
               Result(c, IF v.field # 0 THEN v.field ELSE TypeOf(c, v.ref))
          [] v.type = "ADDR"      -> PointerTo(c, TypeOf(c, v.ref))
          [] v.type = "INDEX"     ->
               With(ResolveType(c, v.parts[1]), LAMBDA d, t :
                 IF IsReference(d.types, t) THEN Result(d, d.types[t].base)
                 ELSE Refused(d))
          [] v.type = "OP"        -> ResolveType(c, v.parts[1])
      Decayed(d, t) ==
        IF v.decay /\ d.types[t].kind = "ARRAY" THEN PointerTo(d, d.types[t].base)
        ELSE Result(d, t)
  IN  With(Self, Decayed)

-----------------------------------------------------------------------------
(* decay_arrays_to_pointers for the i-th argument, while all is well.      *)
DecayAt(r, i, sig) ==
  LET Decayed(d, t) ==
        LET arg   == d.types[t]
            param == d.types[sig.params[i]]
        IN  /\ arg.kind = "ARRAY" /\ param.kind = "POINTER"
            /\ SameType(d.types[arg.base], d.types[param.base])
  IN  IF ~r.c.ok THEN r
      ELSE With(ResolveType(r.c, r.v[i]), LAMBDA d, t :
             Result(d, [r.v EXCEPT ![i].decay = @ \/ Decayed(d, t)]))

(* The type of the i-th argument, in validate_call_args.                   *)
TypeMatches(r, i, sig) ==
  IF ~r.c.ok THEN r
  ELSE With(ResolveType(r.c, r.v[i]), LAMBDA d, t :
         IF SameType(d.types[sig.params[i]], d.types[t]) THEN Result(d, r.v) ELSE Refused(d))

Upto(n) == [i \in 1 .. n |-> i]

Decays(r, sig) ==
  FoldLeft(LAMBDA s, i : DecayAt(s, i, sig), r, Upto(Min({Len(r.v), Len(sig.params)})))

(* validate_call_args.                                                     *)
ValidArguments(r, sig) ==
  IF \/ ~r.c.ok
     \/ Len(r.v) < Len(sig.params)
     \/ Len(r.v) > Len(sig.params) /\ ~sig.variadic
  THEN Refused(r.c)
  ELSE FoldLeft(LAMBDA s, i : TypeMatches(s, i, sig), r, Upto(Len(sig.params)))

Passed(r, sig) == IF r.c.ok THEN ValidArguments(Decays(r, sig), sig) ELSE r

RECURSIVE Convert(_, _), ConvertAll(_, _)

(* A value, and one more behind values.                                    *)
Single(r)         == Result(r.c, <<r.v>>)
Behind(values, r) == Result(r.c, Append(values, r.v))

(* Nodes converted one after the other, with their values behind r's.      *)
ConvertAll(r, nodes) ==
  IF nodes = <<>> \/ ~r.c.ok THEN r
  ELSE ConvertAll(Behind(r.v, Convert(r.c, Head(nodes))), Tail(nodes))

(* The arguments of a call: the one too many ends the compiler.            *)
Arguments(c, nodes) ==
  IF Len(nodes) > MaxArg THEN Refused(c) ELSE ConvertAll(Result(c, <<>>), nodes)

(* compile_asm_call.                                                       *)
CompileAsm(c, call) ==
  IF Len(call.kids) > 1 /\ call.kids[2].type = "LITERAL_STRING"
    THEN AddBlock(c, [Block("ASM") EXCEPT !.name = call.kids[2].name])
    ELSE Fails(c)

(* compile_call: the blocks of the arguments come before the call.         *)
CompileCall(c, call) ==
  LET name == call.kids[1].name
      at   == Named(c.funcs, name)
      sig  == c.funcs[at]
  IN  CASE call.kids[1].type # "LABEL" -> Fails(c)
        [] name = "__asm" -> CompileAsm(c, call)
        [] OTHER ->
             IF at = 0 THEN Fails(c)
             ELSE Into(Passed(Arguments(c, Tail(call.kids)), sig), LAMBDA d, args :
                    AddBlock(d, [Block("CALL") EXCEPT !.name = name, !.vals = args]))

(* convert_call_node_into_value: the result goes to a local of its own,    *)
(* with a name that is no symbol.                                          *)
ConvertCall(c, node) ==
  LET at  == Named(c.funcs, node.kids[1].name)
      own == AllocLocal(c, "%", c.funcs[at].rtype)
      ToLocal(d, local) ==
        IF ~d.ok THEN Refused(d)
        ELSE Result(AddBlock(d, [Block("STORE_RESULT") EXCEPT !.ref = Local(local)]),
                    ReadLocal(local))
  IN  IF \/ node.kids[1].type # "LABEL"
         \/ at = 0
         \/ c.funcs[at].rtype = 0 THEN Refused(c)
      ELSE ToLocal(CompileCall(own, node), LastLocal(own))

(* convert_field_into_value.  The value is a VALUE_LOCAL even if the       *)
(* variable is a global.                                                   *)
ConvertField(c, node) ==
  LET var   == node.kids[1]
      name  == node.kids[2].name
      ref   == FindVariable(c, var.name)
      type  == c.types[TypeOf(c, ref)]
      deref == type.kind = "POINTER"
      of    == IF deref THEN type.base ELSE TypeOf(c, ref)
  IN  CASE var.type # "LABEL" \/ ~Found(ref)  -> Refused(c)
        [] OTHER ->
             IF c.types[of].kind # "STRUCT" \/ FieldAt(c.types, of, name) = 0 THEN Refused(c)
             ELSE Result(c, [Value("LOCAL") EXCEPT
                    !.ref = ref, !.deref = deref,
                    !.offset = FieldOffset(c.types, of, name),
                    !.field = c.types[of].fields[FieldAt(c.types, of, name)].type])

(* An index, in convert_node_into_value.                                   *)
ConvertIndex(c, node) ==
  LET Based(d, var) ==
        With(ResolveType(d, var), LAMBDA e, t :
          IF ~IsReference(e.types, t) THEN Refused(e)
          ELSE Result(e, [Value("INDEX") EXCEPT
                 !.esize = TypeSize(e.types, e.types[t].base),
                 !.deref = e.types[t].kind = "POINTER",
                 !.parts = <<var>>]))
  IN  With(ConvertAll(Single(With(Convert(c, node.kids[1]), Based)), <<node.kids[2]>>),
        LAMBDA d, v : Result(d, [v[1] EXCEPT !.parts = Append(@, v[2])]))

(* convert_literal_into_value: a string gets the next number.              *)
ConvertLiteral(c, node) ==
  IF node.type = "LITERAL_INTEGER" THEN Result(c, Immediate(node.num))
  ELSE Result([c EXCEPT !.strings = Append(@, node.name)],
              [Value("STRING") EXCEPT !.imm = Len(c.strings) + 1])

(* convert_node_into_value, before the cast; division and remainder are    *)
(* not among the operations it knows.                                      *)
ConvertBare(c, node) ==
  LET ref == FindVariable(c, node.name)
  IN  CASE node.type \in {"LITERAL_INTEGER", "LITERAL_STRING"} -> ConvertLiteral(c, node)
        [] node.type = "LABEL" ->
             IF Found(ref)
               THEN Result(c, [Value(IF ref.global THEN "GLOBAL" ELSE "LOCAL")
                                 EXCEPT !.ref = ref])
               ELSE Refused(c)
        [] node.type = "CALL"  -> ConvertCall(c, node)
        [] node.type = "FIELD" -> ConvertField(c, node)
        [] node.type = "ADDR"  ->
             IF Found(ref) /\ ~ref.global
               THEN Result(c, [Value("ADDR") EXCEPT !.ref = ref]) ELSE Refused(c)
        [] node.type = "INDEX" -> ConvertIndex(c, node)
        [] node.type \in {"ADD", "SUB", "MUL", "CMPEQ", "CMPNEQ"} ->
             With(ConvertAll(Result(c, <<>>), node.kids), LAMBDA d, v :
               Result(d, Op(node.type, v[1], v[2])))
        [] OTHER -> Refused(c)

(* convert_node_into_value.                                                *)
Convert(c, node) ==
  LET Casted(d, v) ==
        IF node.cast.name = "" THEN Result(d, v)
        ELSE With(MakeRealType(d, node.cast), LAMBDA e, t : Result(e, v))
  IN  With(ConvertBare(c, node), Casted)

-----------------------------------------------------------------------------
(* compile_var_decl.                                                       *)
CompileVarDecl(c, decl) ==
  IF Named(c.fn.locals, decl.name) # 0 THEN Fails(c)
  ELSE Into(MakeRealType(c, decl.vtype), LAMBDA d, t : AllocLocal(d, decl.name, t))

(* resolve_field, with get_underlying_type.                                *)
ResolveField(c, node, store) ==
  LET ref  == FindVariable(c, node.kids[1].name)
      of   == IF IsReference(c.types, TypeOf(c, ref)) THEN c.types[TypeOf(c, ref)].base
              ELSE TypeOf(c, ref)
      name == node.kids[2].name
  IN  IF node.kids[1].type # "LABEL" \/ ~Found(ref) THEN Refused(c)
      ELSE IF c.types[of].kind # "STRUCT" \/ FieldAt(c.types, of, name) = 0 THEN Refused(c)
      ELSE Result(c, [store EXCEPT !.ref = ref, !.offset = FieldOffset(c.types, of, name)])

(* assign_var and resolve_index: what is assigned to.  Anything else       *)
(* leaves the store without a variable.                                    *)
RECURSIVE AssignVar(_, _, _)
AssignVar(c, node, store) ==
  LET ref == FindVariable(c, node.name)
  IN  CASE node.type = "LABEL" ->
             IF Found(ref) THEN Result(c, [store EXCEPT !.ref = ref]) ELSE Refused(c)
        [] node.type = "FIELD" -> ResolveField(c, node, store)
        [] node.type = "INDEX" ->
             IF node.kids[1].type \notin {"LABEL", "FIELD"} THEN Refused(c)
             ELSE With(ConvertAll(Single(AssignVar(c, node.kids[1], store)),
                                  <<node.kids[2]>>),
                    LAMBDA d, v : Result(d, [v[1] EXCEPT !.index = <<v[2]>>]))
        [] OTHER -> Result(c, store)

(* compile_assign: the store is added when its value is known.             *)
CompileAssign(c, node) ==
  Into(ConvertAll(Single(AssignVar(c, node.kids[1], Block("STORE"))), <<node.kids[2]>>),
    LAMBDA d, v : AddBlock(d, [v[1] EXCEPT !.vals = <<v[2]>>]))

(* The label of the end of a function.                                     *)
ExitLabel == <<"E">>

Jump(kind, label) == [Block("JMP") EXCEPT !.name = kind, !.label = label]
LabelBlock(label) == [Block("LABEL") EXCEPT !.label = label]

(* compile_return.                                                         *)
CompileReturn(c, node) ==
  IF (c.fn.rtype # 0) # (node.kids # <<>>) THEN Fails(c)
  ELSE IF node.kids = <<>> THEN AddBlock(c, Jump("ALWAYS", ExitLabel))
  ELSE Into(Convert(c, node.kids[1]), LAMBDA d, v :
         AddBlock(AddBlock(d, [Block("STORE_RETURN") EXCEPT !.vals = <<v>>]),
                  Jump("ALWAYS", ExitLabel)))

RECURSIVE PlaceNode(_, _), PlaceAll(_, _)
PlaceAll(c, nodes) ==
  IF nodes = <<>> THEN c ELSE PlaceAll(PlaceNode(c, Head(nodes)), Tail(nodes))

(* compile_if: both labels are numbered before the body is compiled.       *)
CompileIf(c, node) ==
  LET cmp == node.kids[1]
      yes == <<"L", c.fn.labels>>
      no  == <<"L", c.fn.labels + 1>>
      Compared(d, sides) ==
        FoldLeft(AddBlock, d,
          << [Block("CMP") EXCEPT !.vals = sides],
             Jump(IF cmp.type = "CMPEQ" THEN "EQ" ELSE "NEQ", yes),
             Jump("ALWAYS", no), LabelBlock(yes) >>)
  IN  IF cmp.type \notin {"CMPEQ", "CMPNEQ"} THEN Fails(c)
      ELSE AddBlock(PlaceAll(
             Into(ConvertAll(Result([c EXCEPT !.fn.labels = @ + 2], <<>>), cmp.kids), Compared),
             Tail(node.kids)), LabelBlock(no))

(* Mutant of LoopStart: the loop begins before the index is set.           *)
LoopStartAgain(c, index, start) ==
  Into(Convert(AddBlock(c, LabelBlock(<<"L", c.fn.labels>>)), start), LAMBDA d, v :
    AddBlock([d EXCEPT !.fn.labels = @ + 1],
             [Block("STORE") EXCEPT !.ref = Local(index), !.vals = <<v>>]))

(* loop_start: the store of the first index is in its place before its     *)
(* value is converted.                                                     *)
LoopStart(c, index, start) ==
  LET at == Len(c.fn.blocks) + 1
      stored == AddBlock(c, [Block("STORE") EXCEPT !.ref = Local(index),
                                                   !.vals = <<Value("NULL")>>])
  IN  Into(Convert(stored, start), LAMBDA d, v :
        AddBlock([SetValue(d, at, 1, v) EXCEPT !.fn.labels = @ + 1],
                 LabelBlock(<<"L", d.fn.labels>>)))

(* loop_end: the comparison, too, is in its place before the end value is  *)
(* converted.                                                              *)
LoopEnd(c, index, loop, end) ==
  LET at == Len(c.fn.blocks) + 2
      inc == Op("ADD", ReadLocal(index), Immediate(1))
      compared ==
        FoldLeft(AddBlock, c,
          << [Block("STORE") EXCEPT !.ref = Local(index), !.vals = <<inc>>],
             [Block("CMP") EXCEPT !.vals = <<ReadLocal(index), Value("NULL")>>] >>)
  IN  IF ~c.ok THEN c
      ELSE Into(Convert(compared, end), LAMBDA d, v :
        FoldLeft(AddBlock, [SetValue(d, at, 2, v) EXCEPT !.fn.labels = @ + 1],
          << Jump("EQ", <<"E", d.fn.labels>>), Jump("ALWAYS", loop),
             LabelBlock(<<"E", d.fn.labels>>) >>))

(* The body of a loop that started, and its end.                           *)
LoopBody(started, index, node) ==
  LoopEnd(PlaceAll(started, SubSeq(node.kids, 3, Len(node.kids))),
          index, <<"L", started.fn.labels - 1>>, node.kids[2])

(* compile_loop: its index is a new local, whatever its name.              *)
CompileLoop(c, node) ==
  LET own == AllocLocal(c, node.name, Resolve(c.types, "int"))
  IN  LoopBody(LoopStart(own, LastLocal(own), node.kids[1]), LastLocal(own), node)

(* place_node.                                                             *)
PlaceNode(c, node) ==
  IF ~c.ok THEN c
  ELSE CASE node.type = "VAR_DECL" -> CompileVarDecl(c, node)
         [] node.type = "ASSIGN"   -> CompileAssign(c, node)
         [] node.type = "CALL"     -> CompileCall(c, node)
         [] node.type = "RETURN"   -> CompileReturn(c, node)
         [] node.type = "IF"       -> CompileIf(c, node)
         [] node.type = "LOOP"     -> CompileLoop(c, node)
         [] OTHER                  -> Fails(c)

-----------------------------------------------------------------------------
(* compile_func_decl.                                                      *)
CompileFuncDecl(c, decl) ==
  LET AddParam(r, p) ==
        With(r, LAMBDA d, params :
        With(MakeRealType(d, p.type), LAMBDA e, t : Result(e, Append(params, t))))
      returned == IF decl.vtype.name = "" THEN Result(c, 0) ELSE MakeRealType(c, decl.vtype)
      Declared(d, rtype) ==
        Into(FoldLeft(AddParam, Result(d, <<>>), decl.fields), LAMBDA e, params :
          [e EXCEPT !.funcs = Append(@,
             [name |-> decl.name, params |-> params, rtype |-> rtype,
              variadic |-> "variadic" \in decl.attrs])])
  IN  IF Named(c.funcs, decl.name) # 0 THEN Fails(c) ELSE Into(returned, Declared)

(* compile_type_decl: the type is in the register before its fields are.   *)
CompileTypeDecl(c, decl) ==
  LET self == Len(c.types) + 1
      AddField(d, f) ==
        IF ~d.ok THEN d
        ELSE Into(MakeRealType(d, f.type), LAMBDA e, t :
               [e EXCEPT !.types[self].fields = Append(@, [name |-> f.name, type |-> t])])
  IN  IF Resolve(c.types, decl.name) # 0 THEN Fails(c)
      ELSE FoldLeft(AddField, [c EXCEPT !.types = Append(@, Type("STRUCT", decl.name))],
                    decl.fields)

(* compile_global.                                                         *)
CompileGlobal(c, decl) ==
  IF Named(c.globals, decl.name) # 0 THEN Fails(c)
  ELSE Into(MakeRealType(c, decl.vtype), LAMBDA d, t :
         [d EXCEPT !.globals = Append(@, [name |-> decl.name, type |-> t])])

(* func_store_arguments.                                                   *)
StoreArguments(c, def) ==
  LET sig == c.funcs[Named(c.funcs, def.name)]
      Store(d, i) ==
        AddBlock(AllocLocal(d, def.fields[i].name, sig.params[i]),
                 [Block("STORE_ARG") EXCEPT !.ref = Local(LastLocal(d) + 1), !.arg = i - 1])
  IN  FoldLeft(Store, c, [i \in 1 .. Len(sig.params) |-> i])

(* add_local_blocks: each is inserted behind the first block, so the last  *)
(* local comes first.  Without a first block there is nothing to insert    *)
(* behind: the compiler crashes.                                           *)
AddLocalBlocks(c) ==
  LET n == Len(c.fn.locals)
      Space == [i \in 1 .. n |-> [Block("LOCAL") EXCEPT !.ref = Local(n + 1 - i)]]
      b == c.fn.blocks
  IN  IF n = 0 THEN c
      ELSE IF b = <<>> THEN Fails(c)
      ELSE [c EXCEPT !.fn.blocks = <<Head(b)>> \o Space \o Tail(b)]

(* compile_func.                                                           *)
CompileFunc(c, def) ==
  LET naked == "naked" \in def.attrs
      Frame(d, type) == IF naked THEN d ELSE AddBlock(d, Block(type))
      Begun(d, rtype) ==
        StoreArguments(
          Frame([d EXCEPT !.fn = [NoFunction EXCEPT !.label = def.name,
                                    !.exported = "local" \notin def.attrs, !.rtype = rtype]],
                "PREAMBLE"), def)
      returned  == IF def.vtype.name = "" THEN Result(c, 0) ELSE MakeRealType(c, def.vtype)
      Placed(d) == IF d.ok THEN AddLocalBlocks(d) ELSE d
      Ended(d)  == Frame(AddBlock(d, LabelBlock(ExitLabel)), "EPILOGUE")
      Done(d)   == IF d.ok THEN [d EXCEPT !.units = Append(@, Ended(d).fn)] ELSE d
  IN  Done(Placed(PlaceAll(Into(returned, Begun), def.kids)))

RECURSIVE Define(_, _)
Define(c, nodes) ==
  IF nodes = <<>> \/ ~c.ok THEN c
  ELSE Define(IF Head(nodes).type = "FUNC_DEF" THEN CompileFunc(c, Head(nodes)) ELSE c,
              Tail(nodes))

(* The compiler before the first declaration.                              *)
EmptyState ==
  [ok |-> TRUE, types |-> Builtin, funcs |-> <<>>, globals |-> <<>>, strings |-> <<>>,
   units |-> <<>>, fn |-> NoFunction]

(* compiler_compile: declarations first, then the functions.               *)
Compiled(file) ==
  LET Declare(c, node) ==
        CASE c.ok /\ node.type = "FUNC_DECL" -> CompileFuncDecl(c, node)
          [] c.ok /\ node.type = "TYPE_DECL" -> CompileTypeDecl(c, node)
          [] c.ok /\ node.type = "VAR_DECL"  -> CompileGlobal(c, node)
          [] OTHER -> c
  IN  Define(FoldLeft(Declare, EmptyState, file.kids), file.kids)

=============================================================================
