----------------------------- MODULE LcMachine -----------------------------
(***************************************************************************)
(* The machine that runs what the compiler emits: the instructions of      *)
(* emul/src/cpu.cc that emit.c uses, on words, with the code kept apart    *)
(* from the memory (module Cpu has the instruction set byte by byte).  An  *)
(* address of code is the number of an instruction; 0 is the caller of     *)
(* main.                                                                   *)
(*                                                                         *)
(* Between any two instructions an interrupt may come, and its handler     *)
(* pushes what it likes: nothing below the stack pointer keeps its value.  *)
(* The memory therefore has no bytes there: its stack part begins at sp,   *)
(* and what sp moves over is Junk.                                         *)
(***************************************************************************)
EXTENDS LcCode, FiniteSets, SequencesExt

CONSTANTS
  StackTop,    (* sp when main is called                                   *)
  CallerSize,  (* bytes of the caller's own frame above it                 *)
  DataStart    (* address of the first global or string                    *)

ASSUME MachineAssumption ==
  /\ {StackTop, CallerSize, DataStart} \subseteq Nat
  /\ StackTop + CallerSize < DataStart /\ DataStart < 65536

VARIABLES
  code,    (* the linked instructions                                      *)
  pc,      (* the instruction to run                                       *)
  regs,    (* the registers                                                *)
  cf,      (* the condition flag                                           *)
  mem,     (* the bytes that are in use                                    *)
  calls    (* history: what every running function got, the caller's first *)

machine == <<code, pc, regs, cf, mem, calls>>

MaxWord   == 65535
Word16    == 0 .. MaxWord
Registers == General \cup {"sp", "bp"}
Junk      == 238
Kept    == {"r4", "r5", "r6", "r7", "bp"}    (* what a function must keep  *)

Wrap(n) == n % 65536

(* How the assembler encodes an immediate: what is below 256, and so every *)
(* negative number, becomes a byte (ins_dest_and_any).                     *)
Encoded(n) == IF n < 256 THEN n % 256 ELSE Wrap(n)

IsData(label) == label # <<>> /\ label[1] \in {"_G_", "_S_"}

(* An instruction as the assembler encodes it; labels of data have their   *)
(* addresses.                                                              *)
Assembled(i, address) ==
  IF IsData(i.label) THEN Imm(i.op, i.dst, address[i.label])
  ELSE [i EXCEPT !.n = Encoded(@)]

-----------------------------------------------------------------------------
(* Memory m: bytes that are there to be read or written.                   *)
InUse(m, addr) == {addr, Wrap(addr + 1)} \subseteq DOMAIN m

GetMem(m, addr) == m[addr] + 256 * m[Wrap(addr + 1)]

PutMem(m, addr, n) == [m EXCEPT ![addr] = n % 256, ![Wrap(addr + 1)] = n \div 256]

InStack(addr) == addr < DataStart

(* The memory when the stack pointer is n.                                 *)
WithSp(m, n) ==
  [a \in {d \in DOMAIN m : ~InStack(d) \/ d >= n} \cup n .. StackTop + CallerSize - 1 |->
     IF a \in DOMAIN m THEN m[a] ELSE Junk]

(***************************************************************************)
(* What an instruction does to the state s of the machine, its registers,  *)
(* flag and memory.                                                        *)
(***************************************************************************)
Changed(s, rs, m) == [regs |-> rs, cf |-> s.cf, mem |-> m]

Flagged(s, c) == [regs |-> s.regs, cf |-> c, mem |-> s.mem]

(* Mutant of SetReg: a register holds any number.                          *)
SetRegWide(s, reg, n) ==
  Changed(s, [s.regs EXCEPT ![reg] = n], IF reg = "sp" THEN WithSp(s.mem, n) ELSE s.mem)

SetReg(s, reg, n) ==
  Changed(s, [s.regs EXCEPT ![reg] = Wrap(n)],
       IF reg = "sp" THEN WithSp(s.mem, Wrap(n)) ELSE s.mem)

(* The second operand: a register, or an immediate.                        *)
Operand(s, i) == IF i.src = "" THEN i.n ELSE s.regs[i.src]

BitAnd8(n) == n % 256    (* and with 0xff, the only mask there is          *)

Computed(s, i) ==
  LET x == s.regs[i.dst]
      y == Operand(s, i)
  IN  SetReg(s, i.dst, CASE i.op = "add" -> x + y
                         [] i.op = "sub" -> x - y
                         [] i.op = "mul" -> x * y
                         [] i.op = "and" -> BitAnd8(x))

Stored(s, i) == Changed(s, s.regs, PutMem(s.mem, s.regs[i.src], s.regs[i.dst]))

Pushed(s, n) ==
  LET sp == Wrap(s.regs["sp"] - 2)
  IN  Changed(s, [s.regs EXCEPT !["sp"] = sp], PutMem(WithSp(s.mem, sp), sp, n))

(* sp moves before the register is written.                                *)
Popped(s, reg) ==
  LET sp == Wrap(s.regs["sp"] + 2)
  IN  Changed(s, [s.regs EXCEPT !["sp"] = sp, ![reg] = GetMem(s.mem, s.regs["sp"])],
           WithSp(s.mem, sp))

(* What an instruction reads, writes or pops must be there.                *)
Allowed(s, i) ==
  /\ i.op \in {"load", "store"} => InUse(s.mem, s.regs[i.src])
  /\ i.op = "pop" => InUse(s.mem, s.regs["sp"])

(* The state after an instruction that goes on with the next one.          *)
After(s, i) ==
  CASE i.op = "mov"   -> SetReg(s, i.dst, Operand(s, i))
    [] i.op \in {"add", "sub", "mul", "and"} -> Computed(s, i)
    [] i.op = "load"  -> SetReg(s, i.dst, GetMem(s.mem, s.regs[i.src]))
    [] i.op = "store" -> Stored(s, i)
    [] i.op = "push"  -> Pushed(s, s.regs[i.dst])
    [] i.op = "pop"   -> Popped(s, i.dst)
    [] i.op = "cmp"   -> Flagged(s, s.regs[i.dst] = Operand(s, i))
    [] i.op = "cfs"   -> Flagged(s, ~s.cf)

-----------------------------------------------------------------------------
Here == [regs |-> regs, cf |-> cf, mem |-> mem]

Becomes(s) == regs' = s.regs /\ cf' = s.cf /\ mem' = s.mem

Step == pc' = pc + 1

(* An instruction that goes on with the next one.                          *)
Straight(i) ==
  /\ Allowed(Here, i) /\ Becomes(After(Here, i))
  /\ Step /\ UNCHANGED <<code, calls>>

Mov(i) == i.op = "mov" /\ Straight(i)

Compute(i) == i.op \in {"add", "sub", "mul", "and"} /\ Straight(i)

Load(i) == i.op = "load" /\ Straight(i)

Store(i) == i.op = "store" /\ Straight(i)

PushReg(i) == i.op = "push" /\ Straight(i)

PopReg(i) == i.op = "pop" /\ Straight(i)

Compare(i) == i.op = "cmp" /\ Straight(i)

Cfs(i) == i.op = "cfs" /\ Straight(i)

Jumps(i) ==
  /\ i.op \in {"jmp", "jeq"}
  /\ pc' = IF i.op = "jmp" \/ cf THEN i.n ELSE pc + 1
  /\ UNCHANGED <<code, regs, cf, mem, calls>>

(* What a function gets: where to return to, and what it has to keep.      *)
Entry(sp, to, rs) == [sp |-> sp, to |-> to, kept |-> [r \in Kept |-> rs[r]]]

Call(i) ==
  /\ i.op = "call"
  /\ Becomes(Pushed(Here, pc + 1))
  /\ calls' = Append(calls, Entry(Wrap(regs["sp"] - 2), pc + 1, regs))
  /\ pc' = i.n
  /\ UNCHANGED code

Ret(i) ==
  /\ i.op = "ret" /\ InUse(mem, regs["sp"])
  /\ pc' = GetMem(mem, regs["sp"])
  /\ Becomes(SetReg(Here, "sp", regs["sp"] + 2))
  /\ calls' = Front(calls)
  /\ UNCHANGED code

Running == pc \in DOMAIN code

(* What the assembler turns into code, and the number of the instruction   *)
(* behind a label.                                                         *)
IsReal(i) == i.op \notin {"label", "export"}
NumberOf(asm, label) ==
  LET at == SelectInSeq(asm, LAMBDA i : i.op = "label" /\ i.label = label)
  IN  1 + Len(SelectSeq(SubSeq(asm, 1, at), IsReal))

Execute ==
  /\ Running
  /\ LET i == code[pc]
     IN  \/ Mov(i) \/ Compute(i) \/ Load(i) \/ Store(i) \/ PushReg(i) \/ PopReg(i)
         \/ Compare(i) \/ Cfs(i) \/ Jumps(i) \/ Call(i) \/ Ret(i)

-----------------------------------------------------------------------------
(* A memory of bytes, and the bytes of the stack those from sp on.         *)
IsMemory(m) == DOMAIN m \subseteq Word16 /\ m \in [DOMAIN m -> 0 .. 255]

StackFrom(m, sp) == {a \in DOMAIN m : InStack(a)} = sp .. StackTop + CallerSize - 1

IsState(s) ==
  /\ s = [regs |-> s.regs, cf |-> s.cf, mem |-> s.mem]
  /\ s.regs \in [Registers -> Word16] /\ s.cf \in BOOLEAN
  /\ IsMemory(s.mem) /\ StackFrom(s.mem, s.regs["sp"])

(* An instruction names registers where it needs them.                     *)
IsInstruction(i) ==
  /\ i.n \in Word16
  /\ i.op \in {"load", "store"} => {i.dst, i.src} \subseteq Registers
  /\ i.op \in {"mov", "add", "sub", "mul", "and", "cmp"} =>
       i.dst \in Registers /\ i.src \in Registers \cup {""}
  /\ i.op = "push" => i.dst \in Registers
  /\ i.op = "pop" => i.dst \in Registers \ {"sp"}

(* Instructions, whose numbers are addresses.                              *)
CodeFits(c) == \A n \in DOMAIN c : n \in Nat /\ n + 1 \in Word16 /\ IsInstruction(c[n])

(* Types: registers and memory hold words and bytes, the memory of the     *)
(* stack begins where sp is, and what is run is an instruction             *)
(* (emul/src/cpu.cc).                                                      *)
TypeOK ==
  /\ IsState(Here)
  /\ pc \in Word16
  /\ Running => IsInstruction(code[pc])

=============================================================================
