--------------------------------- MODULE Cpu ---------------------------------
(***************************************************************************)
(* The instructions of the irid CPU (emul/src/cpu.cc, memory.cc) and the   *)
(* program's stack under them: registers as the bytes of struct irid_reg,  *)
(* so that half registers and words overlap as they do there, 2^16 bytes   *)
(* of memory, and an interrupt that may come before any instruction and    *)
(* whose handler works on the stack of the program.                        *)
(*                                                                         *)
(* The program is arbitrary: each step executes any instruction of Code.   *)
(* An instruction is a record [op, dst, src]; dst is a register, or None,  *)
(* and src an operand [form, val]: "reg" with a register, "imm8" with a    *)
(* byte, "imm16" with a word, "none".  A form of an operation is one       *)
(* opcode of arch.h (add, add8, add16).                                    *)
(***************************************************************************)
EXTENDS Integers, Sequences

CONSTANTS
  B,            (* values of a byte; 256 in the code                       *)
  InstrLen,     (* bytes of an instruction; 4 in the code                  *)
  IntBits,      (* bits of an int on the host; 32                          *)
  Code,         (* the instructions programs are made of                   *)
  Boot,         (* register files a program has set up for itself          *)
  Garbage,      (* what m_reg_cache, never initialised, may begin with     *)
  Handlers,     (* addresses of interrupt handlers; 0 is for none          *)
  MaxSteps      (* bound: instructions executed                            *)

W    == B * B
Byte == 0 .. B - 1
Word == 0 .. W - 1

(* Register IDs (arch.h).                                                  *)
IP   == 112
SP   == 113
BP   == 114
None == 255
Words  == 0 .. 7 \cup {IP, SP, BP}
Halves == 16 .. 19 \cup 32 .. 35
Id     == Words \cup Halves

(* Mutant of Half: the last half register is taken for a word.             *)
HalfBelowLast(id) == 16 <= id /\ id < 35

(* is_half_register.                                                       *)
Half(id) == 16 <= id /\ id <= 35

(* regptr: the byte of struct irid_reg where the register begins.          *)
Offset(id) ==
  CASE id = IP -> 16
    [] id = SP -> 18
    [] id = BP -> 20
    [] id < 16 -> 2 * id
    [] 16 <= id /\ id < 32 -> 2 * (id - 16)
    [] 32 <= id /\ id < 112 -> 2 * (id - 32) + 1

RegFile == [0 .. 21 -> Byte]

Operand == [form : {"reg"}, val : Id] \cup [form : {"imm8"}, val : Byte]
             \cup [form : {"imm16"}, val : Word] \cup [form : {"none"}, val : {0}]

ASSUME CpuAssumption ==
  /\ B \in Nat /\ B > 2 /\ InstrLen \in Nat /\ IntBits \in Nat \ {0}
  /\ MaxSteps \in Nat
  /\ Boot \subseteq RegFile /\ Garbage \subseteq RegFile /\ Handlers \subseteq Word \ {0}
  /\ Code \subseteq [op : STRING, dst : Id \cup {None}, src : Operand]
  /\ \A i \in Code : /\ (i.dst = None <=> i.op \in {"push", "cfs", "jmp", "jeq", "call",
                                                    "ret", "sti", "dsi", "rti"})
                     /\ i.op \in {"shr", "shl"} => i.src.form \in {"reg", "imm8"}

VARIABLES
  regs,         (* m_reg but its flags, byte by byte                       *)
  cf,           (* the compare flag                                        *)
  mem,          (* the memory                                              *)
  cache,        (* m_reg_cache: [regs, cf]                                 *)
  interrupts,   (* m_interrupts                                            *)
  inInterrupt,  (* m_in_interrupt                                          *)
  phase,        (* "run"; "fault": the emulator reports one and ends;      *)
                (* "wild": it accesses the byte behind the memory          *)
  steps,        (* instructions executed                                   *)
  stack,        (* history: what the program has on the stack, see below   *)
  saved         (* history: the stack of the interrupted program           *)

machine == <<regs, cf, mem, cache, interrupts, inInterrupt>>
vars    == <<machine, phase, steps, stack, saved>>

(***************************************************************************)
(* History of a stack: base, the sp where its use began; bytes, those      *)
(* pushed since and not popped, the k-th at address base - k; calls, the   *)
(* returns that are to come, [depth, to]: the address to return to is on   *)
(* top when there are depth bytes.                                         *)
(***************************************************************************)
NewStack(sp) == [base |-> sp, bytes |-> <<>>, calls |-> {}]

(* The stack without its last n bytes; new, where sp is then, if it has    *)
(* not got so many.                                                        *)
Shrunk(s, n, sp) ==
  IF n > Len(s.bytes) THEN NewStack(sp)
  ELSE [s EXCEPT !.bytes = SubSeq(@, 1, Len(@) - n),
                 !.calls = {c \in @ : c.depth <= Len(s.bytes) - n}]

(* The stack after a write to these addresses, with sp as it is then: if   *)
(* it was written over, nothing is claimed of it any more.                 *)
Written(s, addrs, sp) ==
  IF \E a \in addrs : s.base - Len(s.bytes) <= a /\ a < s.base
    THEN NewStack(sp) ELSE s

-----------------------------------------------------------------------------
Low(n)  == n % B
High(n) == (n \div B) % B

GetWord(rs, id) == rs[Offset(id)] + B * rs[Offset(id) + 1]

(* r_load and r_store.                                                     *)
RLoad(rs, id) == IF Half(id) THEN rs[Offset(id)] ELSE GetWord(rs, id)

RStore(rs, id, n) ==
  IF Half(id) THEN [rs EXCEPT ![Offset(id)] = Low(n)]
  ELSE [rs EXCEPT ![Offset(id)] = Low(n), ![Offset(id) + 1] = High(n)]

Sp == GetWord(regs, SP)
Ip == GetWord(regs, IP)

Value(src) == IF src.form = "reg" THEN RLoad(regs, src.val) ELSE src.val

(* Mutant of Next4: the address is kept in more than a word.               *)
NextWide(n) == n + InstrLen

(* ip += 4.                                                                *)
Next4(n) == (n + InstrLen) % W
Stepped(rs) == RStore(rs, IP, Next4(GetWord(rs, IP)))

(* read16 and write16: checkaddr looks at the first of the two bytes only. *)
Behind(addr) == addr = W - 1
Read16(addr) == mem[addr] + B * mem[addr + 1]
Write16(addr, n) == [mem EXCEPT ![addr] = Low(n), ![addr + 1] = High(n)]

(* The memory after a byte (write8) or a word was written.                 *)
Stored(addr, n, width) ==
  IF width = 1 THEN [mem EXCEPT ![addr] = Low(n)] ELSE Write16(addr, n)

(* The 16-bit operand in the instruction itself is read with read16, too.  *)
OperandAt(i) ==
  (Ip + IF i.op \in {"push", "jmp", "jeq", "call"} THEN 1 ELSE 2) % W

Fetched(i) == ~(i.src.form = "imm16" /\ Behind(OperandAt(i)))

Init ==
  /\ regs \in Boot /\ cf = 0 /\ mem = [a \in Word |-> 0]
  /\ cache \in [regs : Garbage, cf : {0, 1}]
  /\ interrupts \in BOOLEAN /\ inInterrupt = FALSE
  /\ phase = "run" /\ steps = 0
  /\ stack = NewStack(GetWord(regs, SP)) /\ saved = NewStack(0)

(* Instruction i is fetched and executed.                                  *)
Execute(i, op) ==
  /\ phase = "run" /\ steps < MaxSteps
  /\ i.op = op /\ Fetched(i)
  /\ steps' = steps + 1

End(how) == phase' = how /\ UNCHANGED <<machine, stack, saved>>

Control == <<cache, interrupts, inInterrupt>>

(* The registers become rs, by an instruction with this destination.       *)
SetRegs(rs, dst) ==
  /\ regs'  = rs
  /\ stack' = IF dst = SP THEN NewStack(GetWord(rs, SP)) ELSE stack
  /\ UNCHANGED <<mem, Control, phase, saved>>

-----------------------------------------------------------------------------
Width(src) ==
  IF src.form = "imm8" \/ (src.form = "reg" /\ Half(src.val)) THEN 1 ELSE 2

(* Mutant of Top: the word is put where sp was.                            *)
TopBefore(width) == Sp

(* Where a push writes.                                                    *)
Top(width) == (Sp - width) % W

(* The machine after n was pushed.                                         *)
PushedMachine(n, width, ip) ==
  LET at == Top(width)
  IN  /\ regs' = RStore(RStore(regs, SP, Sp - width), IP, ip)
      /\ mem'  = Stored(at, n, width)
      /\ saved' = Written(saved, at .. at + width - 1, GetWord(cache.regs, SP))
      /\ UNCHANGED <<cf, Control, phase>>

(* The stack with n on top.                                                *)
Grown(n, width) ==
  [stack EXCEPT !.bytes = @ \o (IF width = 1 THEN <<Low(n)>> ELSE <<High(n), Low(n)>>)]

(* push, push8 and push16 refuse only an sp of 0.                          *)
Push(i) ==
  /\ Execute(i, "push")
  /\ LET width == Width(i.src)
     IN  IF Sp = 0 THEN End("fault")
         ELSE IF width = 2 /\ Behind(Top(2)) THEN End("wild")
         ELSE /\ PushedMachine(Value(i.src), width, Next4(Ip))
              /\ stack' = Grown(Value(i.src), width)

(* pop: sp moves before the register is written.                           *)
Pop(i) ==
  /\ Execute(i, "pop")
  /\ LET width == IF Half(i.dst) THEN 1 ELSE 2
         sp    == (Sp + width) % W
     IN  IF width = 2 /\ Behind(Sp) THEN End("wild")
         ELSE /\ regs' = Stepped(RStore(RStore(regs, SP, sp), i.dst,
                                   IF width = 1 THEN mem[Sp] ELSE Read16(Sp)))
              /\ stack' = IF i.dst = SP THEN NewStack(GetWord(regs', SP))
                          ELSE Shrunk(stack, width, sp)
              /\ UNCHANGED <<cf, mem, Control, phase, saved>>

(* Mutant of ReturnAddress: the call itself.                               *)
ReturnToCall == Ip

ReturnAddress == Next4(Ip)

(* call and callr; callr takes a word from wherever the register begins,   *)
(* after the push.                                                         *)
Call(i) ==
  /\ Execute(i, "call")
  /\ LET to == IF i.src.form = "reg" THEN GetWord(RStore(regs, SP, Sp - 2), i.src.val)
               ELSE i.src.val
     IN  IF Sp = 0 THEN End("fault")
         ELSE IF Behind(Top(2)) THEN End("wild")
         ELSE /\ PushedMachine(ReturnAddress, 2, to)
              /\ stack' = [Grown(ReturnAddress, 2) EXCEPT !.calls =
                             @ \cup {[depth |-> Len(stack.bytes) + 2, to |-> Next4(Ip)]}]

Ret(i) ==
  /\ Execute(i, "ret")
  /\ LET sp == (Sp + 2) % W
     IN  IF Behind(Sp) THEN End("wild")
         ELSE /\ regs'  = RStore(RStore(regs, IP, Read16(Sp)), SP, sp)
              /\ stack' = Shrunk(stack, 2, sp)
              /\ UNCHANGED <<cf, mem, Control, phase, saved>>

-----------------------------------------------------------------------------
(* An address in a register; a half register is refused.                   *)
BadPointer(i) == i.src.form = "reg" /\ Half(i.src.val)

(* mov, mov8, mov16 and null.                                              *)
Mov(i) ==
  /\ Execute(i, "mov")
  /\ SetRegs(Stepped(RStore(regs, i.dst, Value(i.src))), i.dst)
  /\ UNCHANGED cf

(* load and load16.                                                        *)
Load(i) ==
  /\ Execute(i, "load")
  /\ LET addr == Value(i.src)
     IN  IF BadPointer(i) THEN End("fault")
         ELSE IF Half(i.dst)
           THEN /\ SetRegs(Stepped(RStore(regs, i.dst, mem[addr])), i.dst)
                /\ UNCHANGED cf
         ELSE IF Behind(addr) THEN End("wild")
         ELSE /\ SetRegs(Stepped(RStore(regs, i.dst, Read16(addr))), i.dst)
              /\ UNCHANGED cf

(* store and store16; the register that is stored is dst.                  *)
Store(i) ==
  /\ Execute(i, "store")
  /\ LET addr  == Value(i.src)
         width == IF Half(i.dst) THEN 1 ELSE 2
     IN  IF BadPointer(i) THEN End("fault")
         ELSE IF width = 2 /\ Behind(addr) THEN End("wild")
         ELSE /\ mem'   = Stored(addr, RLoad(regs, i.dst), width)
              /\ regs'  = Stepped(regs)
              /\ stack' = Written(stack, addr .. addr + width - 1, Sp)
              /\ saved' = Written(saved, addr .. addr + width - 1, GetWord(cache.regs, SP))
              /\ UNCHANGED <<cf, Control, phase>>

(* cmp, cmg and cml: the forms with a byte compare the low byte of a       *)
(* register for the order, and all of it for equality.                     *)
Holds(i) ==
  LET left  == RLoad(regs, i.dst)
      order == IF i.src.form = "imm8" THEN Low(left) ELSE left
  IN  CASE i.op = "cmp" -> left  = Value(i.src)
        [] i.op = "cmg" -> order > Value(i.src)
        [] i.op = "cml" -> order < Value(i.src)

Compare(i) ==
  /\ \E op \in {"cmp", "cmg", "cml"} : Execute(i, op)
  /\ cf' = IF Holds(i) THEN 1 ELSE 0
  /\ SetRegs(Stepped(regs), None)

Cfs(i) ==
  /\ Execute(i, "cfs")
  /\ cf' = 1 - cf
  /\ SetRegs(Stepped(regs), None)

(* jmp, jnz and jeq.                                                       *)
Taken(i) ==
  CASE i.op = "jmp" -> TRUE
    [] i.op = "jnz" -> RLoad(regs, i.dst) # 0
    [] i.op = "jeq" -> cf = 1

Jump(i) ==
  /\ \E op \in {"jmp", "jnz", "jeq"} : Execute(i, op)
  /\ SetRegs(RStore(regs, IP, IF Taken(i) THEN i.src.val ELSE Next4(Ip)), None)
  /\ UNCHANGED cf

Bit(n, k) == (n \div 2 ^ k) % 2

(* A shift by n bits, n a byte; from the width of an int on, the C++ shift *)
(* is undefined, and hosts shift by n modulo that width or give 0.         *)
Shifts(n) == IF n < IntBits THEN {n} ELSE {n % IntBits, IntBits}

(* What an operation on x and y may give, as the word r_store takes.       *)
Computes(op, x, y, z) ==
  CASE op = "add" -> z = (x + y) % W
    [] op = "sub" -> z = (x - y) % W
    [] op = "mul" -> z = (x * y) % W
    [] op = "and" -> \A k \in 0 .. B : Bit(z, k) = Bit(x, k) * Bit(y, k)
    [] op = "or"  -> \A k \in 0 .. B : (Bit(z, k) = 0 <=> Bit(x, k) = 0 /\ Bit(y, k) = 0)
    [] op = "not" -> z = W - 1 - x
    [] op = "shr" -> \E n \in Shifts(y) : z = x \div 2 ^ n
    [] op = "shl" -> \E n \in Shifts(y) : z = (x * 2 ^ n) % W

(* The count of a shift is the first byte of a register, whatever its      *)
(* width.                                                                  *)
Right(i) ==
  IF i.op \in {"shr", "shl"} /\ i.src.form = "reg" THEN regs[Offset(i.src.val)]
  ELSE Value(i.src)

Arithmetic(i) ==
  /\ \E op \in {"add", "sub", "mul", "and", "or", "not", "shr", "shl"} : Execute(i, op)
  /\ \E z \in Word :
       /\ Computes(i.op, RLoad(regs, i.dst), Right(i), z)
       /\ SetRegs(Stepped(RStore(regs, i.dst, z)), i.dst)
  /\ UNCHANGED cf

-----------------------------------------------------------------------------
SetInterrupts(i) ==
  /\ Execute(i, "sti") \/ Execute(i, "dsi")
  /\ interrupts' = (i.op = "sti")
  /\ regs' = Stepped(regs)
  /\ UNCHANGED <<cf, mem, cache, inInterrupt, phase, stack, saved>>

(* rti gives back what was cached, the stack pointer with the rest.        *)
Rti(i) ==
  /\ Execute(i, "rti")
  /\ inInterrupt' = FALSE
  /\ regs' = cache.regs /\ cf' = cache.cf
  /\ stack' = IF inInterrupt THEN saved ELSE NewStack(GetWord(cache.regs, SP))
  /\ UNCHANGED <<mem, cache, interrupts, phase, saved>>

(* Mutant of Cached: ip is the handler's already.                          *)
CachedLate(addr) == [regs |-> RStore(regs, IP, addr), cf |-> cf]

(* What issue_interrupt saves before it goes to the handler.               *)
Cached(addr) == [regs |-> regs, cf |-> cf]

(* issue_interrupt, before an instruction: the handler goes on at the      *)
(* stack pointer it finds.  One device is armed (of two that are ready at  *)
(* once, the second would interrupt the handler of the first: CpuControl). *)
Interrupt(addr) ==
  /\ phase = "run" /\ interrupts /\ ~inInterrupt
  /\ inInterrupt' = TRUE
  /\ cache' = Cached(addr)
  /\ regs'  = RStore(regs, IP, addr)
  /\ saved' = stack
  /\ stack' = NewStack(Sp)
  /\ UNCHANGED <<cf, mem, interrupts, phase, steps>>

(* The operand of an instruction at the end of the memory.                 *)
WildFetch(i) ==
  /\ phase = "run" /\ ~Fetched(i)
  /\ End("wild") /\ UNCHANGED steps

Halted ==
  /\ phase # "run" \/ steps = MaxSteps
  /\ UNCHANGED vars

Instruction(i) ==
  \/ Push(i) \/ Pop(i) \/ Call(i) \/ Ret(i) \/ Mov(i) \/ Load(i) \/ Store(i)
  \/ Compare(i) \/ Cfs(i) \/ Jump(i) \/ Arithmetic(i) \/ SetInterrupts(i) \/ Rti(i)
  \/ WildFetch(i)

Next ==
  \/ \E i \in Code : Instruction(i)
  \/ \E h \in Handlers : Interrupt(h)
  \/ Halted

Spec == Init /\ [][Next]_vars

-----------------------------------------------------------------------------
Stack == [base : Word, bytes : Seq(Byte), calls : SUBSET [depth : Nat, to : Word]]

(* Every register keeps its bytes, and every byte its bits.                *)
TypeOK ==
  /\ regs \in RegFile /\ cf \in {0, 1} /\ mem \in [Word -> Byte]
  /\ cache \in [regs : RegFile, cf : {0, 1}]
  /\ interrupts \in BOOLEAN /\ inInterrupt \in BOOLEAN
  /\ phase \in {"run", "fault", "wild"} /\ steps \in 0 .. MaxSteps
  /\ stack \in Stack /\ saved \in Stack

(* Memory m holds stack s, with the stack pointer at its top.              *)
Keeps(m, s, sp) ==
  /\ sp = s.base - Len(s.bytes)
  /\ \A k \in 1 .. Len(s.bytes) : m[s.base - k] = s.bytes[k]
  /\ \A c \in s.calls :
       /\ c.depth \in 2 .. Len(s.bytes)
       /\ s.bytes[c.depth] = Low(c.to) /\ s.bytes[c.depth - 1] = High(c.to)

(* What was pushed and not popped is in memory, from sp up, and no return  *)
(* address among it has changed: pushes do not touch it (sp never wraps    *)
(* below 0 without a fault), and neither does an interrupt, although its   *)
(* handler pushes, calls and pops on the same stack, as long as it pops no *)
(* more than it pushed and neither the program nor the handler stores      *)
(* there.                                                                  *)
StackIntact ==
  /\ Keeps(mem, stack, Sp)
  /\ inInterrupt => Keeps(mem, saved, GetWord(cache.regs, SP))

(* ret goes on behind the call ("push the current address so the CPU can   *)
(* return from the called subroutine", doc/arch) whenever all that was     *)
(* pushed since is popped, also when interrupts came in between.           *)
ReturnsToCaller ==
  [][\A i \in Code, c \in stack.calls :
       Ret(i) /\ c.depth = Len(stack.bytes) => GetWord(regs', IP) = c.to]_vars

(* The bytes of a register.                                                *)
Bytes(id) == IF id \in Halves THEN {Offset(id)} ELSE {Offset(id), Offset(id) + 1}

(* "Half registers ... are actually part of the general registers"         *)
(* (doc/arch): an instruction with a destination changes its bytes, those  *)
(* of ip and, if it pops, of sp, and of no other register: not the other   *)
(* half, not the next register.                                            *)
NoSpill ==
  [][\A i \in Code :
       Mov(i) \/ Load(i) \/ Pop(i) \/ Arithmetic(i) =>
         \A o \in 0 .. 21 \ (Bytes(i.dst) \cup Bytes(IP)
                                 \cup IF i.op = "pop" THEN Bytes(SP) ELSE {}) :
           regs'[o] = regs[o]]_vars

(* What a program has in its registers, as InterruptPromise sees it.       *)
Rest     == 0 .. 21 \ {Offset(IP), Offset(IP) + 1}
Seen(rs, c) == [ip |-> GetWord(rs, IP), gp |-> [bytes |-> [o \in Rest |-> rs[o]], cf |-> c]]

Promise == INSTANCE InterruptPromise WITH
  Addr  <- Word, Contents <- [bytes : [Rest -> Byte], cf : {0, 1}],
  Reset <- Seen([o \in 0 .. 21 |-> 0], 0),
  reg   <- Seen(regs, cf),
  saved <- IF inInterrupt THEN {Seen(cache.regs, cache.cf)} ELSE {}

(* An interrupt takes the CPU from a program that accepts them and is no   *)
(* handler, no instruction of the handler touches what was saved of the    *)
(* program, and rti gives back all of it, the flag too (issue_interrupt,   *)
(* rti).                                                                   *)
KeepsPromise == [][Promise!Next]_(Promise!vars)

=============================================================================
