--------------------------------- MODULE Lc ---------------------------------
(***************************************************************************)
(* The leaf compiler from the text to the machine (lc/src/main.c).  The    *)
(* compiler is a batch program: an initial state is one run of it on a     *)
(* file, with what every pass left.  Then what was emitted runs, one       *)
(* instruction after the other.  LeafMeaning says what should come of it.  *)
(***************************************************************************)
EXTENDS LcNodes, LcEmit, LcMachine, LeafText

CONSTANTS
  Outcomes,    (* what OutcomeOf says of each program that is compiled     *)
  Arguments16, (* what main is called with                                 *)
  Text,        (* the bytes of the strings in the programs                 *)
  AsmValue     (* what the inline assembly in them leaves in r0            *)

VARIABLES
  phase,     (* what became of the file: "refused", "emitted" or "running" *)
  program,   (* the program, until it runs                                 *)
  tree,      (* what the parser left, until then, and so on                *)
  compiled,  (* the compiler's state                                       *)
  asm,       (* the assembly                                               *)
  expected   (* what the program means: the words main leaves              *)

passes == <<program, tree, compiled, asm>>
vars   == <<phase, passes, expected, machine>>

Parser(tokens) == INSTANCE LcParser
Leaf == INSTANCE LeafMeaning

NoProgram == [file |-> Label(""), options |-> [fold |-> FALSE, cmp |-> FALSE]]
NoTree    == [ok |-> FALSE, sel |-> 1, node |-> Label("")]
NoState   == Fails(EmptyState)
NoAsm     == [code |-> <<>>, data |-> <<>>, off |-> <<>>]
NoMeaning == [end |-> 0, result |-> 0, words |-> {}]

-----------------------------------------------------------------------------
(* The bytes of the data, one item behind the other.                       *)
BytesOf(item) ==
  IF item.label[1] = "_G_" THEN [i \in 1 .. item.size |-> 0] ELSE Text[item.string] \o <<0>>

BytesOfAll(data) == FlattenSeq([i \in DOMAIN data |-> BytesOf(data[i])])

DataAddress(data, label) ==
  LET at == SelectInSeq(data, LAMBDA d : d.label = label)
  IN  DataStart + Len(BytesOfAll(SubSeq(data, 1, at - 1)))

Addresses(data) ==
  [label \in {data[i].label : i \in DOMAIN data} |-> DataAddress(data, label)]

(* The assembler and the linker: labels become addresses, the line of an   *)
(* inline assembly is one instruction here.                                *)
Linked(a, i) ==
  CASE i.op = "asm" -> Imm("mov", "r0", AsmValue[i.src])
    [] i.op \in {"jmp", "jeq", "call"} ->
         [Ins(i.op, "", "") EXCEPT !.n = NumberOf(a.code, i.label)]
    [] OTHER -> Assembled(i, Addresses(a.data))

LinkedCode(a) ==
  LET real == SelectSeq(a.code, IsReal)
  IN  [i \in DOMAIN real |-> Linked(a, real[i])]

(* The assembler takes what was emitted: no "die" ended it, and there is   *)
(* no immediate above the last address (parse_int).                        *)
Assembles(a) == \A i \in DOMAIN a.code : a.code[i].op # "die" /\ a.code[i].n <= MaxWord

(* The frame pointer main has.                                             *)
MainBp == StackTop - 2 - 2 * Len(Saved)

(* Where a place of main's frame or a global is.                           *)
AddressOf(c, a, loc) ==
  LET main  == SelectInSeq(c.units, LAMBDA u : u.label = "main")
      fn    == c.units[main]
      local == SelectInSeq(fn.locals, LAMBDA l : l.name = loc[2])
      field == IF loc[3] = "" THEN 0 ELSE FieldOffset(c.types, fn.locals[local].type, loc[3])
  IN  IF loc[1] = 0 THEN DataAddress(a.data, <<"_G_", loc[2]>>)
      ELSE MainBp - a.off[main][local] + field + 2 * loc[4]

(* The words that main's variables and the globals have at the end, which  *)
(* is e.                                                                   *)
Expectation(e, c, a) ==
  LET IsWord(v) == v.at = <<>> \/ v.at[1] # Leaf!TextFrame
      WordOf(v) == IF v.at = <<>> THEN v.n ELSE AddressOf(c, a, v.at)
      kept == {loc \in DOMAIN e.store : loc[1] \in {0, 1} /\ IsWord(e.store[loc])}
  IN  [end    |-> NumberOf(a.code, <<"main">> \o ExitLabel),
       result |-> e.result.n,
       words  |-> {[at |-> AddressOf(c, a, loc), word |-> WordOf(e.store[loc])] : loc \in kept}]

(* Something of the caller's in every register, and in its frame.          *)
Sentinel(r) ==
  CASE r = "r0" -> Arguments16[1] [] r = "r1" -> Arguments16[2]
    [] r = "sp" -> StackTop - 2   [] r = "bp" -> StackTop + CallerSize
    [] OTHER    -> 1000 + SelectInSeq(Saved, LAMBDA s : s = r)

CallerByte == 85

CallerRegs == [r \in Registers |-> Sentinel(r)]

(* The memory when main is called: the return address, the caller's frame, *)
(* the data.                                                               *)
LoadedMem(data) ==
  LET bytes == BytesOfAll(data)
  IN  [n \in StackTop - 2 .. StackTop + CallerSize - 1
              \cup DataStart .. DataStart + Len(bytes) - 1 |->
         IF n >= DataStart THEN bytes[n - DataStart + 1]
         ELSE IF n < StackTop THEN 0 ELSE CallerByte]

(* main of lc: a file goes through the passes of the compiler, unless one  *)
(* of them ends it.  This is what they leave, with the program in memory   *)
(* and main to be called if all went well.                                 *)
Left(p, t, c, a) ==
  LET left == [program |-> p, tree |-> t, compiled |-> c, asm |-> a,
               phase |-> "refused", code |-> <<>>, pc |-> 0, mem |-> <<>>,
               expected |-> NoMeaning]
  IN  IF ~c.ok \/ ~Assembles(a) THEN left
      ELSE [left EXCEPT !.phase = "emitted", !.code = LinkedCode(a),
                        !.pc = NumberOf(a.code, <<"main">>), !.mem = LoadedMem(a.data),
                        !.expected = Expectation(Leaf!MeaningOf(p.file, Arguments16), c, a)]

OutcomeOfCompiled(p, t, c) == Left(p, t, c, IF c.ok THEN Emitted(c, p.options) ELSE NoAsm)

OutcomeOfParsed(p, t) == OutcomeOfCompiled(p, t, IF t.ok THEN Compiled(t.node) ELSE NoState)

OutcomeOf(p) == OutcomeOfParsed(p, Parser(Written(p.file))!Parsed)

ASSUME LcAssumption == \A o \in Outcomes : o = OutcomeOf(o.program)

Init ==
  /\ \E o \in Outcomes :
       /\ program = o.program /\ tree = o.tree /\ compiled = o.compiled /\ asm = o.asm
       /\ phase = o.phase /\ expected = o.expected
       /\ code = o.code /\ pc = o.pc /\ mem = o.mem
  /\ regs = CallerRegs /\ cf = FALSE
  /\ calls = <<Entry(StackTop - 2, 0, CallerRegs)>>

(* _entry has set up the stack and calls main (sys/entry.lf).  The caller  *)
(* here also passes arguments, and keeps something in every register and   *)
(* in its frame, as a function of a program may; it ends when main is back.*)
Begin ==
  /\ phase = "emitted" /\ phase' = "running"
  /\ program' = NoProgram /\ tree' = NoTree
  /\ compiled' = NoState /\ asm' = NoAsm
  /\ UNCHANGED <<expected, machine>>

Run ==
  /\ phase = "running" /\ Execute
  /\ UNCHANGED <<phase, passes, expected>>

Next == Begin \/ Run

Spec == Init /\ [][Next]_vars /\ WF_vars(Next)

-----------------------------------------------------------------------------
(* The parser reads back what was written: the tree of a sentence of the   *)
(* grammar is the tree the sentence was made of (parser.c).                *)
ParseInverts == phase # "running" => tree.ok /\ tree.node = program.file

(* Every label is there once, and every jump, call and address of data     *)
(* goes to one that is there; jumps stay in their function (emit_jmp,      *)
(* compile_if, compile_loop).                                              *)
JumpsLand ==
  phase = "emitted" =>
    LET Labels == {i \in DOMAIN asm.code : asm.code[i].op = "label"}
        There  == {asm.code[i].label : i \in Labels}
        Data   == {asm.data[i].label : i \in DOMAIN asm.data}
    IN  /\ Cardinality(There) = Cardinality(Labels)
        /\ Cardinality(Data) = Len(asm.data)
        /\ \A i \in DOMAIN asm.code \ Labels :
             LET label == asm.code[i].label
             IN  label # <<>> => label \in (IF IsData(label) THEN Data ELSE There)

(* When main is over, every variable of it and every global has the value  *)
(* the program gives it, and r0 the value it returns (emit.c, comp-*.c).   *)
MeaningKept ==
  phase = "running" /\ pc = expected.end /\ Len(calls) = 1 =>
    /\ regs["r0"] = expected.result
    /\ \A w \in expected.words : InUse(mem, w.at) /\ GetMem(mem, w.at) = w.word

(* A function that returns leaves the stack pointer, the frame pointer and *)
(* the registers of its caller as they were, goes back to where it was     *)
(* called from, and no function touches what main's caller has on the      *)
(* stack (emit_func_preamble, emit_func_epilogue).                         *)
FrameKept ==
  /\ Running /\ code[pc].op = "ret" =>
       LET entry == Last(calls)
       IN  /\ calls # <<>>
           /\ regs["sp"] = entry.sp /\ GetMem(mem, entry.sp) = entry.to
           /\ \A r \in Kept : regs[r] = entry.kept[r]
  /\ \A a \in DOMAIN mem : a \in StackTop .. StackTop + CallerSize - 1 => mem[a] = CallerByte

(* No instruction reads or writes below the stack pointer, where an        *)
(* interrupt would change it, or outside of the data and the stack: what a *)
(* function uses it has made room for (emit_local, store_register_into_    *)
(* local, store_value_addr_into_register).                                 *)
NoStrayAccess ==
  Running =>
    LET i == code[pc]
    IN  /\ i.op \in {"load", "store"} => InUse(mem, regs[i.src])
        /\ i.op \in {"pop", "ret"} => InUse(mem, regs["sp"])

(* Every program is accepted and comes back to the caller: loops end.      *)
Returns == <>(phase = "running" /\ pc = 0)

=============================================================================
