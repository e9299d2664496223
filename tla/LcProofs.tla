------------------------------ MODULE LcProofs ------------------------------
(***************************************************************************)
(* Theorems about the machine and about the code the compiler emits for    *)
(* values, comparisons, assignments, calls and functions: for every state  *)
(* of the machine, every value and every layout of the memory.             *)
(***************************************************************************)
EXTENDS LcValues, SequenceTheorems, LeastNumber, TLAPS

(* Words and bytes are numbers.                                            *)
LEMMA WordIs == \A x : x \in Word16 <=> x \in Int /\ 0 <= x /\ x <= 65535
<1>1. PICK k \in Int : k = MaxWord /\ k = 65535
  BY DEF MaxWord
<1>2. Word16 = 0 .. k
  BY <1>1 DEF Word16
<1>3. \A n \in Int : \A x : x \in 0 .. n <=> x \in Int /\ 0 <= x /\ x <= n
  OBVIOUS
<1>4. \A x : x \in Word16 <=> x \in Int /\ 0 <= x /\ x <= k
  BY <1>2, <1>3, Zenon
<1> QED
  BY <1>1, <1>4, SMT

LEMMA WordsAreNumbers == Word16 \subseteq Nat /\ Word16 \subseteq Int
<1>1. \A x \in Word16 : x \in Int /\ 0 <= x
  BY WordIs
<1> QED
  BY <1>1

LEMMA NothingLess == \A n \in Word16 : n - 0 = n
<1>1. \A n \in Int : n - 0 = n
  OBVIOUS
<1> QED
  BY <1>1, WordsAreNumbers

LEMMA ByteIs == \A x : x \in 0 .. 255 <=> x \in Int /\ 0 <= x /\ x <= 255
OBVIOUS

LEMMA WrapIsWord ==
  ASSUME NEW n \in Int
  PROVE  Wrap(n) \in Word16
<1>1. Wrap(n) \in Int /\ 0 <= Wrap(n) /\ Wrap(n) <= 65535
  BY DEF Wrap
<1> QED
  BY <1>1, WordIs

LEMMA WrapOfWord ==
  ASSUME NEW n \in Word16
  PROVE  n \in Nat /\ Wrap(n) = n
<1>1. n \in Int /\ 0 <= n /\ n <= 65535
  BY WordIs
<1> QED
  BY <1>1 DEF Wrap

(* A word of the memory is a word.                                         *)
LEMMA GetMemIsWord ==
  ASSUME NEW m, IsMemory(m), NEW a, InUse(m, a)
  PROVE  GetMem(m, a) \in Word16
<1>1. m[a] \in 0 .. 255 /\ m[Wrap(a + 1)] \in 0 .. 255
  BY DEF IsMemory, InUse
<1>2. PICK lo \in Int, hi \in Int : lo = m[a] /\ hi = m[Wrap(a + 1)]
  BY <1>1, ByteIs
<1>3. 0 <= lo /\ lo <= 255 /\ 0 <= hi /\ hi <= 255
  BY <1>1, <1>2, ByteIs
<1>4. lo + 256 * hi \in Int /\ 0 <= lo + 256 * hi /\ lo + 256 * hi <= 65535
  BY <1>3
<1> QED
  BY <1>2, <1>4, WordIs DEF GetMem

(* A write changes no address that is in use.                              *)
LEMMA PutMemIs ==
  ASSUME NEW m, IsMemory(m), NEW a, NEW n \in Word16
  PROVE  /\ IsMemory(PutMem(m, a, n)) /\ DOMAIN PutMem(m, a, n) = DOMAIN m
         /\ \A d \in DOMAIN m :
              PutMem(m, a, n)[d] = IF d = Wrap(a + 1) THEN n \div 256
                                   ELSE IF d = a THEN n % 256 ELSE m[d]
<1>1. n % 256 \in 0 .. 255 /\ n \div 256 \in 0 .. 255
  <2>1. n \in Int /\ 0 <= n /\ n <= 65535
    BY WordIs
  <2> QED
    BY <2>1
<1>2. m \in [DOMAIN m -> 0 .. 255]
  BY DEF IsMemory
<1> DEFINE b == Wrap(a + 1)
           lo == n % 256
           hi == n \div 256
           p == [m EXCEPT ![a] = lo, ![b] = hi]
<1>3. PutMem(m, a, n) = p
  BY DEF PutMem
<1> HIDE DEF b, lo, hi
<1>4. /\ DOMAIN p = DOMAIN m
      /\ \A d \in DOMAIN m : p[d] = IF d = b THEN hi ELSE IF d = a THEN lo ELSE m[d]
  BY <1>2
<1>5. lo \in 0 .. 255 /\ hi \in 0 .. 255
  BY <1>1 DEF lo, hi
<1>6. p \in [DOMAIN m -> 0 .. 255]
  BY <1>2, <1>5
<1> QED
  BY <1>3, <1>4, <1>6 DEF IsMemory, b, lo, hi

(* Moving the stack pointer.                                               *)
LEMMA WithSpIs ==
  ASSUME NEW m, IsMemory(m), NEW old, StackFrom(m, old), NEW n \in Word16
  PROVE  /\ IsMemory(WithSp(m, n)) /\ StackFrom(WithSp(m, n), n)
         /\ DOMAIN WithSp(m, n) = {d \in DOMAIN m : ~InStack(d) \/ d >= n}
                                   \cup n .. StackTop + CallerSize - 1
         /\ \A d \in DOMAIN WithSp(m, n) :
              WithSp(m, n)[d] = IF d \in DOMAIN m THEN m[d] ELSE Junk
<1> DEFINE top == StackTop + CallerSize - 1
           D == {d \in DOMAIN m : ~InStack(d) \/ d >= n} \cup n .. top
           w == WithSp(m, n)
<1>1. top \in Int /\ top < DataStart /\ DataStart \in Nat /\ top < 65535
  BY MachineAssumption
<1>2. m \in [DOMAIN m -> 0 .. 255] /\ DOMAIN m \subseteq Word16
  BY DEF IsMemory
<1>3. w = [a \in D |-> IF a \in DOMAIN m THEN m[a] ELSE Junk]
  BY DEF WithSp
<1>0. n \in Int /\ 0 <= n
  BY WordIs
<1>4. D \subseteq Word16
  <2>1. n .. top \subseteq Word16
    BY <1>0, <1>1, WordIs
  <2> QED
    BY <1>2, <2>1
<1>5. Junk \in 0 .. 255
  BY DEF Junk
<1>6. w \in [D -> 0 .. 255]
  BY <1>2, <1>3, <1>5
<1>7. {a \in D : InStack(a)} = n .. top
  <2>1. \A d \in DOMAIN m : d \in Int /\ 0 <= d
    BY <1>2, WordIs
  <2>2. ASSUME NEW d \in D, InStack(d) PROVE d \in n .. top
    <3>1. CASE d \in n .. top
      BY <3>1
    <3>2. CASE d \in DOMAIN m /\ d >= n
      <4>1. d \in old .. top
        BY <2>2, <3>2 DEF StackFrom
      <4> QED
        BY <1>0, <1>1, <2>1, <3>2, <4>1
    <3> QED
      BY <2>2, <3>1, <3>2
  <2>3. ASSUME NEW d \in n .. top PROVE d \in D /\ InStack(d)
    BY <1>0, <1>1 DEF InStack
  <2> QED
    BY <2>2, <2>3
<1> QED
  BY <1>3, <1>4, <1>6, <1>7 DEF IsMemory, StackFrom

(* What the parts of a state are, and what an update of them gives.        *)
LEMMA StateIs ==
  ASSUME NEW s, IsState(s)
  PROVE  /\ s.regs \in [Registers -> Word16] /\ s.cf \in BOOLEAN
         /\ IsMemory(s.mem) /\ StackFrom(s.mem, s.regs["sp"])
         /\ "sp" \in Registers /\ "bp" \in Registers /\ s.regs["sp"] \in Word16
BY DEF IsState, Registers

LEMMA StatesEqual ==
  ASSUME NEW s, NEW t, IsState(s), IsState(t), s.regs = t.regs, s.cf = t.cf, s.mem = t.mem
  PROVE  s = t
BY DEF IsState

LEMMA ChangedIs ==
  ASSUME NEW s, IsState(s), NEW rs \in [Registers -> Word16],
         NEW m, IsMemory(m), StackFrom(m, rs["sp"])
  PROVE  /\ IsState(Changed(s, rs, m))
         /\ Changed(s, rs, m).regs = rs /\ Changed(s, rs, m).cf = s.cf /\ Changed(s, rs, m).mem = m
<1>1. s.cf \in BOOLEAN
  BY StateIs
<1> QED
  BY <1>1 DEF IsState, Changed

LEMMA FlaggedIs ==
  ASSUME NEW s, IsState(s), NEW c \in BOOLEAN
  PROVE  /\ IsState(Flagged(s, c))
         /\ Flagged(s, c).regs = s.regs /\ Flagged(s, c).cf = c
         /\ Flagged(s, c).mem = s.mem
BY DEF IsState, Flagged

(* A register is set.                                                      *)
LEMMA SetRegIs ==
  ASSUME NEW s, IsState(s), NEW reg \in Registers, NEW n \in Int
  PROVE  /\ IsState(SetReg(s, reg, n))
         /\ SetReg(s, reg, n).regs = [s.regs EXCEPT ![reg] = Wrap(n)]
         /\ SetReg(s, reg, n).cf = s.cf
         /\ SetReg(s, reg, n).mem = IF reg = "sp" THEN WithSp(s.mem, Wrap(n)) ELSE s.mem
<1> DEFINE rs == [s.regs EXCEPT ![reg] = Wrap(n)]
           m  == IF reg = "sp" THEN WithSp(s.mem, Wrap(n)) ELSE s.mem
<1>2. /\ s.regs \in [Registers -> Word16] /\ s.cf \in BOOLEAN
      /\ IsMemory(s.mem) /\ StackFrom(s.mem, s.regs["sp"]) /\ "sp" \in Registers
  BY StateIs
<1>3. Wrap(n) \in Word16
  BY WrapIsWord
<1>4. rs \in [Registers -> Word16]
  BY <1>2, <1>3
<1>5. IsMemory(m) /\ StackFrom(m, rs["sp"])
  <2>1. CASE reg = "sp"
    <3>1. rs["sp"] = Wrap(n) /\ m = WithSp(s.mem, Wrap(n))
      BY <1>2, <2>1
    <3> HIDE DEF rs, m
    <3> QED
      BY <1>2, <1>3, <3>1, WithSpIs
  <2>2. CASE reg # "sp"
    <3>1. rs["sp"] = s.regs["sp"] /\ m = s.mem
      BY <1>2, <2>2
    <3> QED
      BY <1>2, <3>1
  <2> QED
    BY <2>1, <2>2
<1> HIDE DEF rs, m
<1>6. SetReg(s, reg, n) = Changed(s, rs, m)
  BY DEF SetReg, rs, m
<1>7. IsState(Changed(s, rs, m)) /\ Changed(s, rs, m).regs = rs
      /\ Changed(s, rs, m).cf = s.cf /\ Changed(s, rs, m).mem = m
  BY <1>4, <1>5, ChangedIs
<1> QED
  BY <1>6, <1>7 DEF rs, m

(* A write, a push and a pop.                                              *)
LEMMA StoredIs ==
  ASSUME NEW s, IsState(s), NEW i, i.src \in Registers, i.dst \in Registers
  PROVE  /\ IsState(Stored(s, i))
         /\ Stored(s, i).regs = s.regs /\ Stored(s, i).cf = s.cf
         /\ Stored(s, i).mem = PutMem(s.mem, s.regs[i.src], s.regs[i.dst])
<1> DEFINE a == s.regs[i.src]
           n == s.regs[i.dst]
           m == PutMem(s.mem, a, n)
<1>1. s.regs \in [Registers -> Word16] /\ IsMemory(s.mem) /\ StackFrom(s.mem, s.regs["sp"])
  BY StateIs
<1>2. n \in Word16
  BY <1>1
<1> HIDE DEF a, n
<1>3. IsMemory(m) /\ DOMAIN m = DOMAIN s.mem
  BY <1>1, <1>2, PutMemIs
<1> HIDE DEF m
<1>4. StackFrom(m, s.regs["sp"])
  BY <1>1, <1>3 DEF StackFrom
<1>5. Stored(s, i) = Changed(s, s.regs, m)
  BY DEF Stored, a, n, m
<1> QED
  BY <1>1, <1>3, <1>4, <1>5, ChangedIs DEF a, n, m

LEMMA PushedIs ==
  ASSUME NEW s, IsState(s), NEW n \in Word16, NEW sp, sp = Wrap(s.regs["sp"] - 2)
  PROVE  /\ IsState(Pushed(s, n)) /\ sp \in Word16
         /\ Pushed(s, n).regs = [s.regs EXCEPT !["sp"] = sp]
         /\ Pushed(s, n).cf = s.cf
         /\ Pushed(s, n).mem = PutMem(WithSp(s.mem, sp), sp, n)
<1>1. /\ s.regs \in [Registers -> Word16] /\ IsMemory(s.mem)
      /\ StackFrom(s.mem, s.regs["sp"]) /\ "sp" \in Registers /\ s.regs["sp"] \in Word16
  BY StateIs
<1>2. sp \in Word16
  <2>1. s.regs["sp"] - 2 \in Int
    BY <1>1, WordIs
  <2> QED
    BY <2>1, WrapIsWord
<1> DEFINE rs == [s.regs EXCEPT !["sp"] = sp]
           w  == WithSp(s.mem, sp)
           m  == PutMem(w, sp, n)
<1>3. rs \in [Registers -> Word16] /\ rs["sp"] = sp
  BY <1>1, <1>2
<1>4. IsMemory(w) /\ StackFrom(w, sp)
  BY <1>1, <1>2, WithSpIs
<1> HIDE DEF w
<1>5. IsMemory(m) /\ DOMAIN m = DOMAIN w
  BY <1>4, PutMemIs
<1> HIDE DEF m, rs
<1>6. StackFrom(m, rs["sp"])
  BY <1>3, <1>4, <1>5 DEF StackFrom
<1>7. Pushed(s, n) = Changed(s, rs, m)
  BY DEF Pushed, rs, m, w
<1> QED
  BY <1>2, <1>3, <1>5, <1>6, <1>7, ChangedIs DEF rs, m, w

LEMMA PoppedIs ==
  ASSUME NEW s, IsState(s), NEW reg \in Registers \ {"sp"}, InUse(s.mem, s.regs["sp"]),
         NEW sp, sp = Wrap(s.regs["sp"] + 2)
  PROVE  /\ IsState(Popped(s, reg)) /\ sp \in Word16
         /\ Popped(s, reg).regs =
              [s.regs EXCEPT !["sp"] = sp, ![reg] = GetMem(s.mem, s.regs["sp"])]
         /\ Popped(s, reg).cf = s.cf
         /\ Popped(s, reg).mem = WithSp(s.mem, sp)
<1>1. /\ s.regs \in [Registers -> Word16] /\ IsMemory(s.mem)
      /\ StackFrom(s.mem, s.regs["sp"]) /\ "sp" \in Registers /\ s.regs["sp"] \in Word16
  BY StateIs
<1>2. sp \in Word16
  <2>1. s.regs["sp"] + 2 \in Int
    BY <1>1, WordIs
  <2> QED
    BY <2>1, WrapIsWord
<1> DEFINE n  == GetMem(s.mem, s.regs["sp"])
           rs == [s.regs EXCEPT !["sp"] = sp, ![reg] = n]
           m  == WithSp(s.mem, sp)
<1>3. n \in Word16
  BY <1>1, GetMemIsWord
<1> HIDE DEF n
<1>4. rs \in [Registers -> Word16] /\ rs["sp"] = sp
  BY <1>1, <1>2, <1>3
<1>5. IsMemory(m) /\ StackFrom(m, sp)
  BY <1>1, <1>2, WithSpIs
<1>6. Popped(s, reg) = Changed(s, rs, m)
  BY DEF Popped, rs, m, n
<1> HIDE DEF m, rs
<1>7. IsState(Changed(s, rs, m)) /\ Changed(s, rs, m).regs = rs
      /\ Changed(s, rs, m).cf = s.cf /\ Changed(s, rs, m).mem = m
  BY <1>4, <1>5, ChangedIs
<1> QED
  BY <1>2, <1>6, <1>7 DEF rs, m, n

(* The instructions that go on with the next one.                          *)
StraightOps ==
  {"mov", "add", "sub", "mul", "and", "load", "store", "push", "pop", "cmp", "cfs"}

LEMMA OperandIs ==
  ASSUME NEW s, IsState(s), NEW i, i.n \in Word16, i.src \in Registers \cup {""}
  PROVE  Operand(s, i) \in Word16
<1>1. s.regs \in [Registers -> Word16]
  BY StateIs
<1> QED
  BY <1>1 DEF Operand

(* Such an instruction leads from state to state.                          *)
LEMMA AfterIs ==
  ASSUME NEW s, IsState(s), NEW i, IsInstruction(i), i.op \in StraightOps, Allowed(s, i)
  PROVE  IsState(After(s, i))
<1>1. s.regs \in [Registers -> Word16] /\ s.cf \in BOOLEAN /\ IsMemory(s.mem)
  BY StateIs
<1>2. CASE i.op = "mov"
  <2>1. i.dst \in Registers /\ Operand(s, i) \in Int
    <3>1. i.dst \in Registers /\ i.src \in Registers \cup {""} /\ i.n \in Word16
      BY <1>2 DEF IsInstruction
    <3>2. Operand(s, i) \in Word16
      BY <3>1, OperandIs
    <3> QED
      BY <3>1, <3>2, WordsAreNumbers
  <2> QED
    BY <1>2, <2>1, SetRegIs DEF After
<1>3. CASE i.op \in {"add", "sub", "mul", "and"}
  <2> DEFINE x == s.regs[i.dst]
             y == Operand(s, i)
             n == CASE i.op = "add" -> x + y [] i.op = "sub" -> x - y
                    [] i.op = "mul" -> x * y [] i.op = "and" -> BitAnd8(x)
  <2>1. i.dst \in Registers /\ y \in Int /\ x \in Int
    <3>1. i.dst \in Registers /\ i.src \in Registers \cup {""} /\ i.n \in Word16
      BY <1>3 DEF IsInstruction
    <3>2. y \in Word16
      BY <3>1, OperandIs
    <3>3. x \in Word16
      BY <1>1, <3>1
    <3> QED
      BY <3>1, <3>2, <3>3, WordsAreNumbers
  <2> HIDE DEF x, y
  <2>2. x + y \in Int /\ x - y \in Int /\ x * y \in Int /\ BitAnd8(x) \in Int
    BY <2>1 DEF BitAnd8
  <2>3. n \in Int
    BY <1>3, <2>2
  <2>4. After(s, i) = SetReg(s, i.dst, n)
    BY <1>3 DEF After, Computed, x, y
  <2> HIDE DEF n
  <2>5. IsState(SetReg(s, i.dst, n))
    BY <2>1, <2>3, SetRegIs
  <2> QED
    BY <2>4, <2>5
<1>4. CASE i.op = "load"
  <2>1. i.dst \in Registers /\ i.src \in Registers /\ InUse(s.mem, s.regs[i.src])
    BY <1>4 DEF IsInstruction, Allowed
  <2>2. GetMem(s.mem, s.regs[i.src]) \in Int
    BY <1>1, <2>1, GetMemIsWord, WordIs
  <2> QED
    BY <1>4, <2>1, <2>2, SetRegIs DEF After
<1>5. CASE i.op = "store"
  BY <1>5, StoredIs DEF IsInstruction, After
<1>6. CASE i.op = "push"
  <2>1. s.regs[i.dst] \in Word16
    BY <1>1, <1>6 DEF IsInstruction
  <2> QED
    BY <1>6, <2>1, PushedIs DEF After
<1>7. CASE i.op = "pop"
  BY <1>7, PoppedIs DEF IsInstruction, Allowed, After
<1>8. CASE i.op = "cmp"
  BY <1>8, FlaggedIs DEF After
<1>9. CASE i.op = "cfs"
  BY <1>1, <1>9, FlaggedIs DEF After
<1> QED
  BY <1>2, <1>3, <1>4, <1>5, <1>6, <1>7, <1>8, <1>9 DEF StraightOps

-----------------------------------------------------------------------------
(* The machine, whatever code that fits is loaded.                         *)
Loaded == CodeFits(code) /\ IsState(Here) /\ pc \in Word16

LEMMA HereIs ==
  /\ Here.regs = regs /\ Here.cf = cf /\ Here.mem = mem
  /\ \A s : Becomes(s) /\ IsState(s) => IsState(Here)'
<1>1. ASSUME NEW s, Becomes(s), IsState(s) PROVE IsState(Here)'
  <2>1. s = [regs |-> s.regs, cf |-> s.cf, mem |-> s.mem]
    BY <1>1 DEF IsState
  <2>2. Here' = s
    BY <1>1, <2>1 DEF Here, Becomes
  <2> QED
    BY <1>1, <2>2
<1> QED
  BY <1>1 DEF Here

(* One instruction.                                                        *)
LEMMA ExecuteKeeps ==
  ASSUME Loaded, Execute
  PROVE  Loaded'
<1> DEFINE i == code[pc]
<1>1. pc \in DOMAIN code /\ IsInstruction(i) /\ pc \in Nat /\ pc + 1 \in Word16
  BY DEF Execute, Running, Loaded, CodeFits
<1>2. IsState(Here) /\ CodeFits(code) /\ pc \in Word16
  BY DEF Loaded
<1>3. /\ Here.regs \in [Registers -> Word16] /\ "sp" \in Registers /\ IsMemory(mem)
      /\ Here.regs = regs /\ Here.mem = mem /\ regs["sp"] \in Word16
  BY <1>2, StateIs, HereIs
<1>4. code' = code
  BY DEF Execute, Mov, Compute, Load, Store, PushReg, PopReg, Compare, Cfs, Jumps, Call, Ret,
         Straight
<1>5. IsState(Here)' /\ pc' \in Word16
  <2>1. CASE Mov(i) \/ Compute(i) \/ Load(i) \/ Store(i) \/ PushReg(i) \/ PopReg(i)
             \/ Compare(i) \/ Cfs(i)
    <3>1. i.op \in StraightOps /\ Straight(i)
      BY <2>1 DEF Mov, Compute, Load, Store, PushReg, PopReg, Compare, Cfs, StraightOps
    <3>2. IsState(After(Here, i)) /\ Becomes(After(Here, i)) /\ pc' = pc + 1
      BY <1>1, <1>2, <3>1, AfterIs DEF Straight, Step
    <3> QED
      BY <1>1, <3>2, HereIs
  <2>2. CASE Jumps(i)
    <3>1. Becomes(Here) /\ pc' \in {i.n, pc + 1}
      BY <2>2 DEF Jumps, Becomes, Here
    <3>2. i.n \in Word16
      BY <1>1 DEF IsInstruction
    <3> QED
      BY <1>1, <1>2, <3>1, <3>2, HereIs
  <2>3. CASE Call(i)
    <3>1. Becomes(Pushed(Here, pc + 1)) /\ pc' = i.n
      BY <2>3 DEF Call
    <3>2. IsState(Pushed(Here, pc + 1))
      BY <1>1, <1>2, PushedIs
    <3>3. i.n \in Word16
      BY <1>1 DEF IsInstruction
    <3> QED
      BY <3>1, <3>2, <3>3, HereIs
  <2>4. CASE Ret(i)
    <3>1. Becomes(SetReg(Here, "sp", regs["sp"] + 2)) /\ pc' = GetMem(mem, regs["sp"])
          /\ InUse(mem, regs["sp"])
      BY <2>4 DEF Ret
    <3>2. regs["sp"] + 2 \in Int
      <4>1. regs["sp"] \in Int
        BY <1>3, WordsAreNumbers
      <4> QED
        BY <4>1
    <3>3. IsState(SetReg(Here, "sp", regs["sp"] + 2))
      BY <1>2, <1>3, <3>2, SetRegIs
    <3>4. pc' \in Word16
      BY <1>3, <3>1, GetMemIsWord
    <3> QED
      BY <3>1, <3>3, <3>4, HereIs
  <2> QED
    BY <2>1, <2>2, <2>3, <2>4 DEF Execute
<1>6. CodeFits(code)'
  BY <1>2, <1>4 DEF CodeFits, IsInstruction
<1> QED
  BY <1>5, <1>6 DEF Loaded

(* Whatever is loaded, the registers hold words, the memory bytes, and the *)
(* memory of the stack begins where sp is (emul/src/cpu.cc).               *)
THEOREM MachineTyped == Loaded /\ [][Execute]_machine => []TypeOK
<1>1. Loaded /\ [Execute]_machine => Loaded'
  <2>1. CASE Execute
    BY <2>1, ExecuteKeeps
  <2>2. CASE UNCHANGED machine
    BY <2>2 DEF machine, Loaded, Here, CodeFits, IsInstruction
  <2> QED
    BY <2>1, <2>2
<1>2. Loaded => TypeOK
  BY DEF Loaded, CodeFits, TypeOK, Running
<1> QED
  BY <1>1, <1>2, PTL

-----------------------------------------------------------------------------
(* Code: any sequence.                                                     *)
IsCode(c) == \E S : c \in Seq(S)

LEMMA BothIs ==
  ASSUME NEW c, IsCode(c), NEW d, IsCode(d)
  PROVE  /\ IsCode(c \o d) /\ Len(c) \in Nat /\ Len(d) \in Nat
         /\ Len(c \o d) = Len(c) + Len(d)
         /\ \A n \in 1 .. Len(c) : (c \o d)[n] = c[n]
         /\ \A n \in 1 .. Len(d) : (c \o d)[Len(c) + n] = d[n]
<1>1. PICK S, T : c \in Seq(S) /\ d \in Seq(T)
  BY DEF IsCode
<1> DEFINE U == S \cup T
<1>2. c \in Seq(U) /\ d \in Seq(U)
  <2>1. S \subseteq U /\ T \subseteq U
    OBVIOUS
  <2> HIDE DEF U
  <2> QED
    BY <1>1, <2>1, LenProperties
<1> HIDE DEF U
<1>3. /\ c \o d \in Seq(U) /\ Len(c \o d) = Len(c) + Len(d)
      /\ \A i \in 1 .. Len(c) + Len(d) : (c \o d)[i] = IF i <= Len(c) THEN c[i] ELSE d[i - Len(c)]
  BY <1>2, ConcatProperties
<1>4. Len(c) \in Nat /\ Len(d) \in Nat
  BY <1>2, LenProperties
<1>5. ASSUME NEW n \in 1 .. Len(d) PROVE (c \o d)[Len(c) + n] = d[n]
  BY <1>3, <1>4
<1> QED
  BY <1>3, <1>4, <1>5 DEF IsCode

(* Code of one, two and three instructions.                                *)
LEMMA FewIs ==
  ASSUME NEW a, NEW b, NEW c
  PROVE  /\ IsCode(<<>>) /\ IsCode(<<a>>) /\ IsCode(<<a, b>>) /\ IsCode(<<a, b, c>>)
         /\ Len(<<>>) = 0 /\ Len(<<a>>) = 1 /\ <<a>>[1] = a
         /\ <<a>> \o <<b>> = <<a, b>> /\ <<a, b>> \o <<c>> = <<a, b, c>>
<1> DEFINE S == {a, b, c}
<1>1. <<>> \in Seq(S) /\ <<a>> \in Seq(S) /\ <<a, b>> \in Seq(S) /\ <<a, b, c>> \in Seq(S)
  OBVIOUS
<1>2. <<a>> \o <<b>> = <<a, b>>
  <2> DEFINE x == <<a>>
             y == <<b>>
             z == <<a, b>>
  <2>1. /\ x \in Seq(S) /\ Len(x) = 1 /\ x[1] = a /\ y \in Seq(S) /\ Len(y) = 1 /\ y[1] = b
        /\ z \in Seq(S) /\ Len(z) = 2 /\ z[1] = a /\ z[2] = b
    OBVIOUS
  <2> HIDE DEF x, y, z, S
  <2>2. /\ x \o y \in Seq(S) /\ Len(x \o y) = 2
        /\ (x \o y)[1] = a /\ (x \o y)[2] = b
    BY <2>1, ConcatProperties
  <2>3. \A i \in 1 .. 2 : i = 1 \/ i = 2
    OBVIOUS
  <2>4. x \o y = z
    BY <2>1, <2>2, <2>3, SeqEqual
  <2> QED
    BY <2>4 DEF x, y, z
<1>3. <<a, b>> \o <<c>> = <<a, b, c>>
  <2> DEFINE x == <<a, b>>
             y == <<c>>
             z == <<a, b, c>>
  <2>1. /\ x \in Seq(S) /\ Len(x) = 2 /\ x[1] = a /\ x[2] = b
        /\ y \in Seq(S) /\ Len(y) = 1 /\ y[1] = c
        /\ z \in Seq(S) /\ Len(z) = 3 /\ z[1] = a /\ z[2] = b /\ z[3] = c
    OBVIOUS
  <2> HIDE DEF x, y, z, S
  <2>2. /\ x \o y \in Seq(S) /\ Len(x \o y) = 3
        /\ (x \o y)[1] = a /\ (x \o y)[2] = b /\ (x \o y)[3] = c
    <3>1. /\ x \o y \in Seq(S) /\ Len(x \o y) = Len(x) + Len(y)
          /\ \A i \in 1 .. Len(x) + Len(y) :
               (x \o y)[i] = IF i <= Len(x) THEN x[i] ELSE y[i - Len(x)]
      BY <2>1, ConcatProperties
    <3>2. Len(x) + Len(y) = 3 /\ 3 - Len(x) = 1
      BY <2>1
    <3>3. 1 \in 1 .. 3 /\ 2 \in 1 .. 3 /\ 3 \in 1 .. 3 /\ ~(3 <= 2)
      OBVIOUS
    <3> QED
      BY <2>1, <3>1, <3>2, <3>3
  <2>3. \A i \in 1 .. 3 : i = 1 \/ i = 2 \/ i = 3
    OBVIOUS
  <2>4. x \o y = z
    BY <2>1, <2>2, <2>3, SeqEqual
  <2> QED
    BY <2>4 DEF x, y, z
<1> QED
  BY <1>1, <1>2, <1>3 DEF IsCode

(* An instruction, with the addresses g of the data, leads from s to t;    *)
(* and so does code, one instruction after the other.                      *)
Executes(g, i, s, t) ==
  LET j == Assembled(i, g)
  IN  j.op \in StraightOps /\ IsInstruction(j) /\ Allowed(s, j) /\ t = After(s, j)

Does(g, c, s, t) ==
  \E f : /\ f[0] = s /\ f[Len(c)] = t
         /\ \A n \in 1 .. Len(c) : Executes(g, c[n], f[n - 1], f[n])

LEMMA DoesNothing ==
  ASSUME NEW g, NEW s
  PROVE  Does(g, <<>>, s, s)
<1> DEFINE f == [n \in {0} |-> s]
<1>1. f[0] = s /\ Len(<<>>) = 0
  OBVIOUS
<1> HIDE DEF f
<1> QED
  BY <1>1 DEF Does

LEMMA DoesOne ==
  ASSUME NEW g, NEW i, NEW s, NEW t, Executes(g, i, s, t)
  PROVE  Does(g, <<i>>, s, t)
<1> DEFINE f == [n \in {0, 1} |-> IF n = 0 THEN s ELSE t]
           c == <<i>>
<1>1. f[0] = s /\ f[1] = t /\ Len(c) = 1 /\ c[1] = i
  OBVIOUS
<1> HIDE DEF f, c
<1>2. \A n \in 1 .. Len(c) : n = 1 /\ n - 1 = 0
  BY <1>1
<1>3. \A n \in 1 .. Len(c) : Executes(g, c[n], f[n - 1], f[n])
  BY <1>1, <1>2
<1>4. Does(g, c, s, t)
  BY <1>1, <1>3 DEF Does
<1> QED
  BY <1>4 DEF c

LEMMA DoesBoth ==
  ASSUME NEW g, NEW c, IsCode(c), NEW d, IsCode(d),
         NEW s, NEW t, NEW u, Does(g, c, s, t), Does(g, d, t, u)
  PROVE  Does(g, c \o d, s, u)
<1>1. /\ Len(c) \in Nat /\ Len(d) \in Nat /\ Len(c \o d) = Len(c) + Len(d)
      /\ \A n \in 1 .. Len(c) : (c \o d)[n] = c[n]
      /\ \A n \in 1 .. Len(d) : (c \o d)[Len(c) + n] = d[n]
  BY BothIs
<1>2. PICK f : /\ f[0] = s /\ f[Len(c)] = t
               /\ \A n \in 1 .. Len(c) : Executes(g, c[n], f[n - 1], f[n])
  BY DEF Does
<1>3. PICK h : /\ h[0] = t /\ h[Len(d)] = u
               /\ \A n \in 1 .. Len(d) : Executes(g, d[n], h[n - 1], h[n])
  BY DEF Does
<1> DEFINE k == Len(c)
           l == Len(d)
           e == c \o d
           j == [n \in 0 .. k + l |-> IF n <= k THEN f[n] ELSE h[n - k]]
<1> HIDE DEF k, l, e
<1>4. k \in Nat /\ l \in Nat /\ Len(e) = k + l
  BY <1>1 DEF k, l, e
<1>5. j[0] = s
  BY <1>2, <1>4
<1>6. j[k + l] = u
  <2>1. CASE l = 0
    BY <1>2, <1>3, <1>4, <2>1 DEF k, l
  <2>2. CASE l # 0
    BY <1>3, <1>4, <2>2 DEF l
  <2> QED
    BY <2>1, <2>2
<1>7. ASSUME NEW n \in 1 .. k + l PROVE Executes(g, e[n], j[n - 1], j[n])
  <2>1. CASE n <= k
    <3>1. n \in 1 .. k /\ j[n] = f[n] /\ j[n - 1] = f[n - 1]
      BY <1>4, <2>1
    <3>2. e[n] = c[n]
      BY <1>1, <3>1 DEF k, e
    <3> HIDE DEF j
    <3> QED
      BY <1>2, <3>1, <3>2 DEF k
  <2>2. CASE n > k
    <3> DEFINE x == n - k
    <3>1. x \in 1 .. l /\ n = k + x /\ j[n] = h[x]
      BY <1>4, <2>2
    <3>2. j[n - 1] = h[x - 1]
      <4>1. CASE x = 1
        <5>1. n - 1 = k /\ n - 1 \in 0 .. k + l /\ n - 1 <= k /\ x - 1 = 0
          BY <1>4, <3>1, <4>1
        <5>2. j[n - 1] = f[k] /\ h[x - 1] = h[0]
          BY <5>1
        <5> QED
          BY <1>2, <1>3, <5>2 DEF k
      <4>2. CASE x # 1
        BY <1>4, <3>1, <4>2
      <4> QED
        BY <4>1, <4>2
    <3> HIDE DEF x, j
    <3>3. e[n] = d[x]
      BY <1>1, <3>1 DEF k, l, e
    <3> QED
      BY <1>3, <3>1, <3>2, <3>3 DEF l
  <2> QED
    BY <1>4, <2>1, <2>2
<1> HIDE DEF j
<1>8. Does(g, e, s, u)
  BY <1>4, <1>5, <1>6, <1>7 DEF Does
<1> QED
  BY <1>8 DEF e

(* The state t is s but for the registers R.                               *)
Keeps(s, t, R) ==
  /\ IsState(t) /\ t.cf = s.cf /\ t.mem = s.mem
  /\ \A r \in Registers \ R : t.regs[r] = s.regs[r]

(* The code puts n into a register and touches none but R.                 *)
Gets(g, c, s, reg, n, R) ==
  \E t : Does(g, c, s, t) /\ Keeps(s, t, R) /\ t.regs[reg] = n

LEMMA GetsMore ==
  ASSUME NEW g, NEW c, NEW s, NEW reg, NEW n, NEW R, NEW Q, R \subseteq Q,
         Gets(g, c, s, reg, n, R)
  PROVE  Gets(g, c, s, reg, n, Q)
BY DEF Gets, Keeps

LEMMA KeepsMore ==
  ASSUME NEW s, NEW t, NEW u, NEW R, NEW Q, NEW P,
         Keeps(s, t, R), Keeps(t, u, Q), R \subseteq P, Q \subseteq P
  PROVE  Keeps(s, u, P)
<1>1. ASSUME NEW r \in Registers \ P PROVE u.regs[r] = s.regs[r]
  <2>1. r \in Registers \ R /\ r \in Registers \ Q
    OBVIOUS
  <2> QED
    BY <2>1 DEF Keeps
<1> QED
  BY <1>1 DEF Keeps

(* Code after code.                                                        *)
LEMMA GetsThen ==
  ASSUME NEW g, NEW c, IsCode(c), NEW d, IsCode(d), NEW s, NEW t, NEW reg, NEW n,
         NEW R, NEW Q, NEW P, R \subseteq P, Q \subseteq P,
         Does(g, c, s, t), Keeps(s, t, R), Gets(g, d, t, reg, n, Q)
  PROVE  Gets(g, c \o d, s, reg, n, P)
<1>1. PICK u : Does(g, d, t, u) /\ Keeps(t, u, Q) /\ u.regs[reg] = n
  BY DEF Gets
<1>2. Does(g, c \o d, s, u)
  BY <1>1, DoesBoth
<1>3. Keeps(s, u, P)
  BY <1>1, KeepsMore
<1> QED
  BY <1>1, <1>2, <1>3 DEF Gets

-----------------------------------------------------------------------------
(* The registers but sp, which the emitted code computes with.             *)
Plain == Registers \ {"sp"}

LEMMA RegistersAre ==
  /\ General \subseteq Plain /\ "bp" \in Plain /\ Plain \subseteq Registers
  /\ "" \notin Registers /\ "r4" \in General /\ "r5" \in General /\ "r6" \in General
  /\ "sp" \notin Plain /\ "sp" \in Registers /\ "bp" \notin General
BY DEF General, Plain, Registers

(* How instructions are assembled.                                         *)
LEMMA EncodedIs ==
  ASSUME NEW n \in Word16
  PROVE  Encoded(n) = n
<1>1. n \in Int /\ 0 <= n /\ n <= 65535
  BY WordIs
<1>2. Wrap(n) = n
  BY WrapOfWord
<1> QED
  BY <1>1, <1>2 DEF Encoded

Is(j, op, dst, src, n) == j.op = op /\ j.dst = dst /\ j.src = src /\ j.n = n

LEMMA InsIs ==
  ASSUME NEW g, NEW op, NEW dst, NEW src
  PROVE  Is(Assembled(Ins(op, dst, src), g), op, dst, src, 0) /\ 0 \in Word16
<1>1. 0 \in Word16 /\ ~IsData(<<>>)
  BY WordIs DEF IsData
<1>2. Encoded(0) = 0
  BY <1>1, EncodedIs
<1>3. Assembled(Ins(op, dst, src), g) = [Ins(op, dst, src) EXCEPT !.n = Encoded(0)]
  BY <1>1 DEF Assembled, Ins
<1> QED
  BY <1>1, <1>2, <1>3 DEF Ins, Is

LEMMA ImmIs ==
  ASSUME NEW g, NEW op, NEW dst, NEW n \in Word16
  PROVE  Is(Assembled(Imm(op, dst, n), g), op, dst, "", n)
<1>1. ~IsData(<<>>) /\ Encoded(n) = n
  BY EncodedIs DEF IsData
<1>2. Assembled(Imm(op, dst, n), g) = [Imm(op, dst, n) EXCEPT !.n = Encoded(n)]
  BY <1>1 DEF Assembled, Imm
<1> QED
  BY <1>1, <1>2 DEF Imm, Is

LEMMA LabelIs ==
  ASSUME NEW g, NEW op, NEW dst, NEW label, IsData(label)
  PROVE  Is(Assembled(To(op, dst, label), g), op, dst, "", g[label])
BY DEF Assembled, To, Imm, Is

(* An instruction that sets a register to n.                               *)
LEMMA SetsIs ==
  ASSUME NEW g, NEW i, NEW s, IsState(s), NEW reg \in Plain, NEW n \in Int,
         Executes(g, i, s, SetReg(s, reg, n))
  PROVE  /\ Gets(g, <<i>>, s, reg, Wrap(n), {reg}) /\ IsCode(<<i>>)
<1> DEFINE t == SetReg(s, reg, n)
           rs == [s.regs EXCEPT ![reg] = Wrap(n)]
<1>1. reg \in Registers /\ reg # "sp" /\ s.regs \in [Registers -> Word16]
  BY StateIs DEF Plain
<1>2. IsState(t) /\ t.regs = rs /\ t.cf = s.cf /\ t.mem = s.mem
  BY <1>1, SetRegIs
<1>3. rs[reg] = Wrap(n) /\ \A r \in Registers \ {reg} : rs[r] = s.regs[r]
  BY <1>1
<1> HIDE DEF t, rs
<1>4. Keeps(s, t, {reg}) /\ t.regs[reg] = Wrap(n)
  BY <1>2, <1>3 DEF Keeps
<1>5. Does(g, <<i>>, s, t)
  BY DoesOne DEF t
<1> QED
  BY <1>4, <1>5, FewIs DEF Gets

(* What the first half of the instruction set computes.                    *)
Calc(op, x, y) ==
  CASE op = "mov" -> y [] op = "add" -> x + y [] op = "sub" -> x - y [] op = "mul" -> x * y

(* The instructions with a number, with a label, and with a register.      *)
LEMMA NumberIs ==
  ASSUME NEW g, NEW s, IsState(s), NEW reg \in Plain, NEW n \in Word16,
         NEW op \in {"mov", "add", "sub", "mul"}
  PROVE  /\ Gets(g, <<Imm(op, reg, n)>>, s, reg, Wrap(Calc(op, s.regs[reg], n)), {reg})
         /\ IsCode(<<Imm(op, reg, n)>>)
<1> DEFINE j == Assembled(Imm(op, reg, n), g)
           x == s.regs[reg]
           z == Calc(op, x, n)
<1>1. j.op = op /\ j.dst = reg /\ j.src = "" /\ j.n = n
  <2>1. Is(j, op, reg, "", n)
    BY ImmIs
  <2> QED
    BY <2>1 DEF Is
<1>2. reg \in Registers /\ x \in Int /\ n \in Int
  <2>1. reg \in Registers /\ x \in Word16
    BY StateIs DEF Plain
  <2> QED
    BY <2>1, WordsAreNumbers
<1> HIDE DEF j
<1>3. IsInstruction(j) /\ Allowed(s, j) /\ j.op \in StraightOps
  BY <1>1, <1>2 DEF IsInstruction, Allowed, StraightOps
<1>4. z \in Int
  BY <1>2 DEF Calc
<1>5. After(s, j) = SetReg(s, reg, z)
  BY <1>1 DEF After, Computed, Calc, Operand
<1> HIDE DEF z
<1>6. Executes(g, Imm(op, reg, n), s, SetReg(s, reg, z))
  BY <1>3, <1>5 DEF Executes, j
<1>7. Gets(g, <<Imm(op, reg, n)>>, s, reg, Wrap(z), {reg}) /\ IsCode(<<Imm(op, reg, n)>>)
  BY <1>4, <1>6, SetsIs
<1> QED
  BY <1>7 DEF z

LEMMA LabelLoaded ==
  ASSUME NEW g, NEW s, IsState(s), NEW reg \in Plain, NEW label, IsData(label),
         g[label] \in Word16
  PROVE  /\ Gets(g, <<To("mov", reg, label)>>, s, reg, g[label], {reg})
         /\ IsCode(<<To("mov", reg, label)>>)
<1> DEFINE j == Assembled(To("mov", reg, label), g)
           n == g[label]
<1>1. j.op = "mov" /\ j.dst = reg /\ j.src = "" /\ j.n = n
  <2>1. Is(j, "mov", reg, "", n)
    BY LabelIs
  <2> QED
    BY <2>1 DEF Is
<1>2. reg \in Registers /\ n \in Int /\ Wrap(n) = n
  BY WordsAreNumbers, WrapOfWord DEF Plain
<1> HIDE DEF j, n
<1>3. IsInstruction(j) /\ Allowed(s, j) /\ j.op \in StraightOps
  BY <1>1, <1>2 DEF IsInstruction, Allowed, StraightOps, n
<1>4. After(s, j) = SetReg(s, reg, n)
  BY <1>1 DEF After, Operand
<1>5. Executes(g, To("mov", reg, label), s, SetReg(s, reg, n))
  BY <1>3, <1>4 DEF Executes, j
<1>6. Gets(g, <<To("mov", reg, label)>>, s, reg, Wrap(n), {reg})
      /\ IsCode(<<To("mov", reg, label)>>)
  BY <1>2, <1>5, SetsIs
<1> QED
  BY <1>2, <1>6 DEF n

LEMMA RegisterIs ==
  ASSUME NEW g, NEW s, IsState(s), NEW reg \in Plain, NEW src \in Registers,
         NEW op \in {"mov", "add", "sub", "mul"}
  PROVE  /\ Gets(g, <<Ins(op, reg, src)>>, s, reg,
                 Wrap(Calc(op, s.regs[reg], s.regs[src])), {reg})
         /\ IsCode(<<Ins(op, reg, src)>>)
<1> DEFINE j == Assembled(Ins(op, reg, src), g)
           x == s.regs[reg]
           y == s.regs[src]
           z == Calc(op, x, y)
<1>1. j.op = op /\ j.dst = reg /\ j.src = src /\ j.n = 0 /\ 0 \in Word16
  BY InsIs DEF Is
<1>2. reg \in Registers /\ x \in Int /\ y \in Int /\ src # ""
  <2>1. reg \in Registers /\ x \in Word16 /\ y \in Word16
    BY StateIs DEF Plain
  <2> QED
    BY <2>1, WordsAreNumbers, RegistersAre
<1> HIDE DEF j
<1>3. IsInstruction(j) /\ Allowed(s, j) /\ j.op \in StraightOps
  BY <1>1, <1>2 DEF IsInstruction, Allowed, StraightOps
<1>4. z \in Int
  <2> HIDE DEF x, y
  <2>1. \A p, q \in Int : p + q \in Int /\ p - q \in Int /\ p * q \in Int
    OBVIOUS
  <2> QED
    BY <1>2, <2>1 DEF Calc
<1>5. After(s, j) = SetReg(s, reg, z)
  BY <1>1, <1>2 DEF After, Computed, Calc, Operand
<1> HIDE DEF z
<1>6. Executes(g, Ins(op, reg, src), s, SetReg(s, reg, z))
  BY <1>3, <1>5 DEF Executes, j
<1>7. Gets(g, <<Ins(op, reg, src)>>, s, reg, Wrap(z), {reg}) /\ IsCode(<<Ins(op, reg, src)>>)
  BY <1>4, <1>6, SetsIs
<1> QED
  BY <1>7 DEF z

(* A register moved, a word loaded, a byte cut out.                        *)
LEMMA MovedIs ==
  ASSUME NEW g, NEW s, IsState(s), NEW reg \in Plain, NEW src \in Registers
  PROVE  /\ Gets(g, <<Ins("mov", reg, src)>>, s, reg, s.regs[src], {reg})
         /\ IsCode(<<Ins("mov", reg, src)>>)
<1> DEFINE z == Calc("mov", s.regs[reg], s.regs[src])
<1>1. Gets(g, <<Ins("mov", reg, src)>>, s, reg, Wrap(z), {reg})
      /\ IsCode(<<Ins("mov", reg, src)>>)
  BY RegisterIs
<1>2. z = s.regs[src] /\ s.regs[src] \in Word16
  BY StateIs DEF Calc
<1>3. Wrap(z) = s.regs[src]
  BY <1>2, WrapOfWord
<1> QED
  BY <1>1, <1>3

LEMMA LoadedIs ==
  ASSUME NEW g, NEW s, IsState(s), NEW reg \in Plain, NEW src \in Registers,
         InUse(s.mem, s.regs[src])
  PROVE  /\ Gets(g, <<Ins("load", reg, src)>>, s, reg, GetMem(s.mem, s.regs[src]), {reg})
         /\ IsCode(<<Ins("load", reg, src)>>)
<1> DEFINE j == Assembled(Ins("load", reg, src), g)
           n == GetMem(s.mem, s.regs[src])
<1>1. j.op = "load" /\ j.dst = reg /\ j.src = src /\ j.n = 0 /\ 0 \in Word16
  BY InsIs DEF Is
<1>2. reg \in Registers /\ n \in Word16
  BY StateIs, GetMemIsWord DEF Plain
<1>3. n \in Int /\ Wrap(n) = n
  BY <1>2, WordsAreNumbers, WrapOfWord
<1> HIDE DEF j
<1>4. IsInstruction(j) /\ Allowed(s, j) /\ j.op \in StraightOps
  BY <1>1, <1>2 DEF IsInstruction, Allowed, StraightOps
<1>5. After(s, j) = SetReg(s, reg, n)
  BY <1>1 DEF After
<1> HIDE DEF n
<1>6. Executes(g, Ins("load", reg, src), s, SetReg(s, reg, n))
  BY <1>4, <1>5 DEF Executes, j
<1>7. Gets(g, <<Ins("load", reg, src)>>, s, reg, Wrap(n), {reg})
      /\ IsCode(<<Ins("load", reg, src)>>)
  BY <1>3, <1>6, SetsIs
<1> QED
  BY <1>3, <1>7 DEF n

LEMMA ByteCut ==
  ASSUME NEW g, NEW s, IsState(s), NEW reg \in Plain
  PROVE  /\ Gets(g, <<Imm("and", reg, 255)>>, s, reg, s.regs[reg] % 256, {reg})
         /\ IsCode(<<Imm("and", reg, 255)>>)
<1> DEFINE j == Assembled(Imm("and", reg, 255), g)
           x == s.regs[reg]
           n == x % 256
<1>0. 255 \in Word16
  BY WordIs
<1>1. j.op = "and" /\ j.dst = reg /\ j.src = "" /\ j.n = 255
  <2>1. Is(j, "and", reg, "", 255)
    BY <1>0, ImmIs
  <2> QED
    BY <2>1 DEF Is
<1>2. reg \in Registers /\ x \in Int
  <2>1. reg \in Registers /\ x \in Word16
    BY StateIs DEF Plain
  <2> QED
    BY <2>1, WordsAreNumbers
<1>3. n \in Word16
  <2>1. n \in Int /\ 0 <= n /\ n <= 65535
    BY <1>2
  <2> QED
    BY <2>1, WordIs
<1>4. n \in Int /\ Wrap(n) = n
  BY <1>3, WordsAreNumbers, WrapOfWord
<1> HIDE DEF j
<1>5. IsInstruction(j) /\ Allowed(s, j) /\ j.op \in StraightOps
  BY <1>0, <1>1, <1>2 DEF IsInstruction, Allowed, StraightOps
<1>6. After(s, j) = SetReg(s, reg, n)
  BY <1>1 DEF After, Computed, BitAnd8
<1> HIDE DEF n
<1>7. Executes(g, Imm("and", reg, 255), s, SetReg(s, reg, n))
  BY <1>5, <1>6 DEF Executes, j
<1>8. Gets(g, <<Imm("and", reg, 255)>>, s, reg, Wrap(n), {reg})
      /\ IsCode(<<Imm("and", reg, 255)>>)
  BY <1>4, <1>7, SetsIs
<1> QED
  BY <1>4, <1>8 DEF n

-----------------------------------------------------------------------------
(* The code of every value, and what it is worth, are defined by recursion *)
(* on its place in the list.                                               *)
LEMMA SameParts ==
  ASSUME NEW e, NEW reg, NEW x, NEW vs, NEW v, NEW f, NEW h,
         v.type \in {"OP", "INDEX"} =>
           f[v.parts[1]] = h[v.parts[1]] /\ f[v.parts[2]] = h[v.parts[2]]
  PROVE  /\ ValueInto(e, reg, vs, v, f) = ValueInto(e, reg, vs, v, h)
         /\ Worth(x, vs, v, f) = Worth(x, vs, v, h)
<1>1. CASE v.type = "OP"
  BY <1>1 DEF ValueInto, EmitOp, Worth
<1>2. CASE v.type = "INDEX"
  <2>1. Element(x, vs, v, f) = Element(x, vs, v, h)
    BY <1>2 DEF Element
  <2>2. EmitIndex(e, reg, vs, v, f) = EmitIndex(e, reg, vs, v, h)
    BY <1>2 DEF EmitIndex, BaseInto
  <2> QED
    BY <1>2, <2>1, <2>2 DEF ValueInto, Worth
<1>3. CASE v.type \notin {"OP", "INDEX"}
  BY <1>3 DEF ValueInto, Worth
<1> QED
  BY <1>1, <1>2, <1>3

(* The code of the first n values is in f.                                 *)
CodesTo(e, vs, n, f) ==
  /\ f = [k \in 1 .. Len(vs) |-> f[k]]
  /\ \A k \in 1 .. Len(vs) :
       k <= n => f[k] = [reg \in General |-> ValueInto(e, reg, vs, vs[k], f)]

LEMMA CodesExist ==
  ASSUME NEW e, NEW vs, Len(vs) \in Nat, Ordered(vs), NEW n \in Nat
  PROVE  \E f : CodesTo(e, vs, n, f)
<1> DEFINE T == {j \in Nat : ~\E f : CodesTo(e, vs, j, f)}
<1>1. SUFFICES ASSUME T # {} PROVE FALSE
  OBVIOUS
<1>2. PICK m \in T : \A j \in T : m <= j
  BY <1>1, LeastNat
<1>3. m \in Nat /\ ~\E f : CodesTo(e, vs, m, f)
  OBVIOUS
<1>4. m # 0
  <2>1. SUFFICES ASSUME m = 0 PROVE FALSE
    OBVIOUS
  <2>2. PICK f : f = [k \in 1 .. Len(vs) |-> 0]
    OBVIOUS
  <2>3. f = [k \in 1 .. Len(vs) |-> f[k]] /\ \A k \in 1 .. Len(vs) : ~(k <= m)
    BY <2>1, <2>2
  <2> QED
    BY <1>3, <2>3 DEF CodesTo
<1>5. PICK f : CodesTo(e, vs, m - 1, f)
  <2>1. m - 1 \in Nat /\ ~(m <= m - 1)
    BY <1>3, <1>4
  <2> QED
    BY <1>2, <2>1
<1> DEFINE code_m == [reg \in General |-> ValueInto(e, reg, vs, vs[m], f)]
           h == [k \in 1 .. Len(vs) |-> IF k = m THEN code_m ELSE f[k]]
<1>6. ASSUME NEW k \in 1 .. Len(vs), k <= m
      PROVE  h[k] = [reg \in General |-> ValueInto(e, reg, vs, vs[k], h)]
  <2>1. vs[k].type \in {"OP", "INDEX"} =>
          f[vs[k].parts[1]] = h[vs[k].parts[1]] /\ f[vs[k].parts[2]] = h[vs[k].parts[2]]
    <3>1. SUFFICES ASSUME vs[k].type \in {"OP", "INDEX"}, NEW i \in {1, 2}
                   PROVE  f[vs[k].parts[i]] = h[vs[k].parts[i]]
      OBVIOUS
    <3>2. vs[k].parts[i] \in 1 .. k - 1
      BY <3>1 DEF Ordered
    <3>3. vs[k].parts[i] \in 1 .. Len(vs) /\ vs[k].parts[i] # m
      BY <1>3, <1>6, <3>2
    <3> QED
      BY <3>3
  <2> HIDE DEF h
  <2>2. \A reg \in General : ValueInto(e, reg, vs, vs[k], f) = ValueInto(e, reg, vs, vs[k], h)
    BY <2>1, SameParts
  <2>3. h[k] = [reg \in General |-> ValueInto(e, reg, vs, vs[k], f)]
    <3>1. CASE k = m
      BY <3>1 DEF h
    <3>2. CASE k # m
      <4>1. k <= m - 1 /\ h[k] = f[k]
        BY <1>3, <1>6, <3>2 DEF h
      <4> QED
        BY <1>5, <4>1 DEF CodesTo
    <3> QED
      BY <3>1, <3>2
  <2> QED
    BY <2>2, <2>3
<1>7. h = [k \in 1 .. Len(vs) |-> h[k]]
  OBVIOUS
<1> HIDE DEF h
<1>8. CodesTo(e, vs, m, h)
  BY <1>6, <1>7 DEF CodesTo
<1> QED
  BY <1>3, <1>8

LEMMA CodesAre ==
  ASSUME NEW e, NEW vs, Len(vs) \in Nat, Ordered(vs), NEW k \in 1 .. Len(vs),
         NEW reg \in General
  PROVE  Codes(e, vs)[k][reg] = ValueInto(e, reg, vs, vs[k], Codes(e, vs))
<1> DEFINE Row(j, f) == [r \in General |-> ValueInto(e, r, vs, vs[j], f)]
           Table(f) == [j \in 1 .. Len(vs) |-> Row(j, f)]
<1>1. Codes(e, vs) = CHOOSE f : f = Table(f)
  BY DEF Codes
<1>2. \E f : f = Table(f)
  <2>1. PICK f : CodesTo(e, vs, Len(vs), f)
    BY CodesExist
  <2>2. f = [j \in 1 .. Len(vs) |-> f[j]] /\ \A j \in 1 .. Len(vs) : f[j] = Row(j, f)
    BY <2>1 DEF CodesTo
  <2> HIDE DEF Row
  <2>3. f = Table(f)
    BY <2>2
  <2> QED
    BY <2>3
<1>3. PICK f : f = Table(f) /\ Codes(e, vs) = f
  <2> HIDE DEF Table
  <2> QED
    BY <1>1, <1>2
<1>4. f[k] = Row(k, f)
  <2> HIDE DEF Row
  <2> QED
    BY <1>3
<1> QED
  BY <1>3, <1>4

-----------------------------------------------------------------------------

(* The first n values are worth f.                                         *)
WorthTo(x, vs, n, f) ==
  /\ f = [k \in 1 .. Len(vs) |-> f[k]]
  /\ \A k \in 1 .. Len(vs) :
       k <= n => f[k] = Worth(x, vs, vs[k], f)

LEMMA WorthExists ==
  ASSUME NEW x, NEW vs, Len(vs) \in Nat, Ordered(vs), NEW n \in Nat
  PROVE  \E f : WorthTo(x, vs, n, f)
<1> DEFINE T == {j \in Nat : ~\E f : WorthTo(x, vs, j, f)}
<1>1. SUFFICES ASSUME T # {} PROVE FALSE
  OBVIOUS
<1>2. PICK m \in T : \A j \in T : m <= j
  BY <1>1, LeastNat
<1>3. m \in Nat /\ ~\E f : WorthTo(x, vs, m, f)
  OBVIOUS
<1>4. m # 0
  <2>1. SUFFICES ASSUME m = 0 PROVE FALSE
    OBVIOUS
  <2>2. PICK f : f = [k \in 1 .. Len(vs) |-> 0]
    OBVIOUS
  <2>3. f = [k \in 1 .. Len(vs) |-> f[k]] /\ \A k \in 1 .. Len(vs) : ~(k <= m)
    BY <2>1, <2>2
  <2> QED
    BY <1>3, <2>3 DEF WorthTo
<1>5. PICK f : WorthTo(x, vs, m - 1, f)
  <2>1. m - 1 \in Nat /\ ~(m <= m - 1)
    BY <1>3, <1>4
  <2> QED
    BY <1>2, <2>1
<1> DEFINE worth_m == Worth(x, vs, vs[m], f)
           h == [k \in 1 .. Len(vs) |-> IF k = m THEN worth_m ELSE f[k]]
<1>6. ASSUME NEW k \in 1 .. Len(vs), k <= m
      PROVE  h[k] = Worth(x, vs, vs[k], h)
  <2>1. vs[k].type \in {"OP", "INDEX"} =>
          f[vs[k].parts[1]] = h[vs[k].parts[1]] /\ f[vs[k].parts[2]] = h[vs[k].parts[2]]
    <3>1. SUFFICES ASSUME vs[k].type \in {"OP", "INDEX"}, NEW i \in {1, 2}
                   PROVE  f[vs[k].parts[i]] = h[vs[k].parts[i]]
      OBVIOUS
    <3>2. vs[k].parts[i] \in 1 .. k - 1
      BY <3>1 DEF Ordered
    <3>3. vs[k].parts[i] \in 1 .. Len(vs) /\ vs[k].parts[i] # m
      BY <1>3, <1>6, <3>2
    <3> QED
      BY <3>3
  <2> HIDE DEF h
  <2>2. Worth(x, vs, vs[k], f) = Worth(x, vs, vs[k], h)
    BY <2>1, SameParts
  <2>3. h[k] = Worth(x, vs, vs[k], f)
    <3>1. CASE k = m
      BY <3>1 DEF h
    <3>2. CASE k # m
      <4>1. k <= m - 1 /\ h[k] = f[k]
        BY <1>3, <1>6, <3>2 DEF h
      <4> QED
        BY <1>5, <4>1 DEF WorthTo
    <3> QED
      BY <3>1, <3>2
  <2> QED
    BY <2>2, <2>3
<1>7. h = [k \in 1 .. Len(vs) |-> h[k]]
  OBVIOUS
<1> HIDE DEF h
<1>8. WorthTo(x, vs, m, h)
  BY <1>6, <1>7 DEF WorthTo
<1> QED
  BY <1>3, <1>8

LEMMA MeaningIs ==
  ASSUME NEW x, NEW vs, Len(vs) \in Nat, Ordered(vs), NEW k \in 1 .. Len(vs)
  PROVE  Meaning(x, vs)[k] = Worth(x, vs, vs[k], Meaning(x, vs))
<1> DEFINE Row(j, f) == Worth(x, vs, vs[j], f)
           Table(f) == [j \in 1 .. Len(vs) |-> Row(j, f)]
<1>1. Meaning(x, vs) = CHOOSE f : f = Table(f)
  BY DEF Meaning
<1>2. \E f : f = Table(f)
  <2>1. PICK f : WorthTo(x, vs, Len(vs), f)
    BY WorthExists
  <2>2. f = [j \in 1 .. Len(vs) |-> f[j]] /\ \A j \in 1 .. Len(vs) : f[j] = Row(j, f)
    BY <2>1 DEF WorthTo
  <2> HIDE DEF Row
  <2>3. f = Table(f)
    BY <2>2
  <2> QED
    BY <2>3
<1>3. PICK f : f = Table(f) /\ Meaning(x, vs) = f
  <2> HIDE DEF Table
  <2> QED
    BY <1>1, <1>2
<1>4. f[k] = Row(k, f)
  <2> HIDE DEF Row
  <2> QED
    BY <1>3
<1> QED
  BY <1>3, <1>4

-----------------------------------------------------------------------------
(* A memory holds what is in another one.                                  *)
Holds(m, part) == \A a \in DOMAIN part : a \in DOMAIN m /\ m[a] = part[a]

LEMMA HoldsWord ==
  ASSUME NEW m, NEW part, Holds(m, part), NEW a, InUse(part, a)
  PROVE  InUse(m, a) /\ GetMem(m, a) = GetMem(part, a)
BY DEF Holds, InUse, GetMem

(* The stack has room for some bytes, and its pointer is in it.            *)
HasRoom(s, room) ==
  IsState(s) /\ room <= s.regs["sp"] /\ s.regs["sp"] <= StackTop + CallerSize

(* A word is pushed: it is on top, and nothing else changes.               *)
LEMMA PushIs ==
  ASSUME NEW s, HasRoom(s, 2), NEW n \in Word16, NEW sp, sp = s.regs["sp"]
  PROVE  /\ IsState(Pushed(s, n)) /\ Pushed(s, n).cf = s.cf
         /\ Pushed(s, n).regs = [s.regs EXCEPT !["sp"] = sp - 2]
         /\ sp \in Word16 /\ sp - 2 \in Word16 /\ sp - 1 \in Word16
         /\ Holds(Pushed(s, n).mem, s.mem)
         /\ DOMAIN Pushed(s, n).mem = DOMAIN s.mem \cup {sp - 2, sp - 1}
         /\ InUse(Pushed(s, n).mem, sp - 2) /\ GetMem(Pushed(s, n).mem, sp - 2) = n
<1> DEFINE top == StackTop + CallerSize - 1
           p == sp - 2
           m == s.mem
           w == WithSp(m, p)
           t == PutMem(w, p, n)
<1>1. /\ top \in Int /\ top < DataStart /\ DataStart \in Nat /\ top < 65535 /\ 0 - 1 <= top
  BY MachineAssumption
<1>2. /\ IsState(s) /\ sp \in Word16 /\ sp \in Int /\ 2 <= sp /\ sp <= top + 1
      /\ IsMemory(m) /\ StackFrom(m, sp)
  <2>1. IsState(s) /\ 2 <= sp /\ sp <= StackTop + CallerSize
    BY DEF HasRoom
  <2>2. sp \in Word16 /\ IsMemory(m) /\ StackFrom(m, sp)
    BY <2>1, StateIs
  <2>3. sp \in Int
    BY <2>2, WordsAreNumbers
  <2> QED
    BY <1>1, <2>1, <2>2, <2>3, MachineAssumption
<1> HIDE DEF m
<1>3. p \in Int /\ p \in Word16 /\ p + 1 \in Word16 /\ p + 1 = sp - 1
      /\ Wrap(p) = p /\ Wrap(p + 1) = p + 1
  <2>1. p \in Int /\ 0 <= p /\ p <= 65535 /\ 0 <= p + 1 /\ p + 1 <= 65535 /\ p + 1 = sp - 1
    BY <1>1, <1>2
  <2>2. p \in Word16 /\ p + 1 \in Word16
    BY <2>1, WordIs
  <2> QED
    BY <2>1, <2>2, WrapOfWord
<1>4. /\ IsState(Pushed(s, n)) /\ Pushed(s, n).cf = s.cf
      /\ Pushed(s, n).regs = [s.regs EXCEPT !["sp"] = p] /\ Pushed(s, n).mem = t
  BY <1>2, <1>3, PushedIs DEF m
<1>5. /\ IsMemory(w)
      /\ DOMAIN w = {d \in DOMAIN m : ~InStack(d) \/ d >= p} \cup p .. top
      /\ \A d \in DOMAIN w : w[d] = IF d \in DOMAIN m THEN m[d] ELSE Junk
  <2> HIDE DEF p
  <2> QED
    BY <1>2, <1>3, WithSpIs
<1>6. \A d \in DOMAIN m : /\ d \in Int /\ (InStack(d) <=> d < DataStart)
                          /\ (InStack(d) <=> d \in sp .. top)
  <2>1. \A d \in DOMAIN m : d \in Int
    BY <1>2, WordsAreNumbers DEF IsMemory
  <2> QED
    BY <1>2, <2>1 DEF StackFrom, InStack
<1>7. \A d : d \in sp .. top => d \in DOMAIN m
  BY <1>2 DEF StackFrom
<1> DEFINE D == {d \in DOMAIN m : ~InStack(d) \/ d >= p} \cup p .. top
<1>8. D = DOMAIN m \cup {p, p + 1}
  <2>1. ASSUME NEW d \in D PROVE d \in DOMAIN m \cup {p, p + 1}
    <3>1. CASE d \in p .. top
      <4>1. d \in sp .. top \/ d = p \/ d = p + 1
        BY <1>1, <1>2, <1>3, <3>1
      <4> QED
        BY <1>7, <4>1
    <3> QED
      BY <3>1
  <2>2. ASSUME NEW d \in DOMAIN m PROVE d \in D
    <3>1. InStack(d) => d >= p
      BY <1>1, <1>2, <1>3, <1>6
    <3> QED
      BY <3>1
  <2>3. p \in p .. top /\ p + 1 \in p .. top
    BY <1>1, <1>2, <1>3
  <2> QED
    BY <2>1, <2>2, <2>3
<1> HIDE DEF D
<1>9. DOMAIN w = DOMAIN m \cup {p, p + 1}
  BY <1>5, <1>8 DEF D
<1> HIDE DEF w
<1>10. /\ DOMAIN t = DOMAIN w
       /\ \A d \in DOMAIN w : t[d] = IF d = p + 1 THEN n \div 256
                                     ELSE IF d = p THEN n % 256 ELSE w[d]
  BY <1>3, <1>5, PutMemIs
<1> HIDE DEF t
<1>11. Holds(t, m)
  <2>1. ASSUME NEW d \in DOMAIN m PROVE d \in DOMAIN t /\ t[d] = m[d]
    <3>1. d # p /\ d # p + 1
      BY <1>1, <1>2, <1>3, <1>6
    <3> QED
      BY <1>5, <1>9, <1>10, <3>1
  <2> QED
    BY <2>1 DEF Holds
<1>12. t[p] = n % 256 /\ t[p + 1] = n \div 256 /\ {p, p + 1} \subseteq DOMAIN t
  BY <1>3, <1>9, <1>10
<1>13. InUse(t, p) /\ GetMem(t, p) = n
  <2>1. n \in Int /\ (n % 256) + 256 * (n \div 256) = n
    <3>1. n \in Int
      BY WordsAreNumbers
    <3> QED
      BY <3>1
  <2> QED
    BY <1>3, <1>12, <2>1 DEF InUse, GetMem
<1> QED
  BY <1>2, <1>3, <1>4, <1>9, <1>10, <1>11, <1>13 DEF m

(* ... and popped again after code that left the memory alone: the memory  *)
(* is as it was, and the word is in the register.                          *)
GotBack(s, n, u, q, R, reg) ==
  /\ InUse(u.mem, u.regs["sp"]) /\ Keeps(s, q, R \cup {reg}) /\ q.regs[reg] = n
  /\ \A r \in General \ {reg} : q.regs[r] = u.regs[r]

LEMMA PopIs ==
  ASSUME NEW s, HasRoom(s, 2), NEW n \in Word16, NEW R, R \subseteq General,
         NEW u, Keeps(Pushed(s, n), u, R), NEW reg \in General
  PROVE  GotBack(s, n, u, Popped(u, reg), R, reg)
<1> DEFINE top == StackTop + CallerSize - 1
           sp == s.regs["sp"]
           p == sp - 2
           m == s.mem
           t == Pushed(s, n)
           b == u.mem
           q == Popped(u, reg)
<1>1. /\ top \in Int /\ top < DataStart /\ DataStart \in Nat
  BY MachineAssumption
<1>2. /\ IsState(s) /\ sp \in Word16 /\ IsMemory(m) /\ StackFrom(m, sp)
      /\ s.regs \in [Registers -> Word16]
  BY StateIs DEF HasRoom
<1>3. /\ IsState(t) /\ t.cf = s.cf /\ t.regs = [s.regs EXCEPT !["sp"] = p]
      /\ p \in Word16 /\ Holds(t.mem, m) /\ DOMAIN t.mem = DOMAIN m \cup {p, sp - 1}
      /\ InUse(t.mem, p) /\ GetMem(t.mem, p) = n
  BY PushIs
<1> HIDE DEF t
<1>4. /\ IsState(u) /\ u.cf = s.cf /\ b = t.mem /\ u.regs["sp"] = p
      /\ \A r \in Registers \ (R \cup {"sp"}) : u.regs[r] = s.regs[r]
      /\ u.regs \in [Registers -> Word16]
  <2>1. IsState(u) /\ u.cf = t.cf /\ u.mem = t.mem
        /\ \A r \in Registers \ R : u.regs[r] = t.regs[r]
    BY DEF Keeps, t
  <2>2. "sp" \in Registers \ R
    BY RegistersAre
  <2>3. \A r \in Registers \ (R \cup {"sp"}) : t.regs[r] = s.regs[r]
    BY <1>2, <1>3
  <2>4. t.regs["sp"] = p
    BY <1>2, <1>3, <2>2
  <2> QED
    BY <1>3, <2>1, <2>2, <2>3, <2>4, StateIs
<1>5. sp \in Int /\ p \in Int /\ p + 2 = sp /\ Wrap(p + 2) = sp
  <2>1. PICK k \in Int : k = sp
    BY <1>2, WordsAreNumbers
  <2>2. k - 2 \in Int /\ k - 2 + 2 = k /\ Wrap(k) = k
    BY <1>2, <2>1, WrapOfWord
  <2> QED
    BY <2>1, <2>2
<1>6. InUse(b, p) /\ GetMem(b, p) = n
  BY <1>3, <1>4
<1>7. reg \in Registers \ {"sp"}
  BY RegistersAre DEF Plain
<1> HIDE DEF m, sp, p, b
<1>8. /\ IsState(q) /\ q.regs = [u.regs EXCEPT !["sp"] = sp, ![reg] = n]
      /\ q.cf = u.cf /\ q.mem = WithSp(b, sp)
  BY <1>4, <1>5, <1>6, <1>7, PoppedIs DEF b
<1> DEFINE w == WithSp(b, sp)
<1>9. IsMemory(b) /\ StackFrom(b, p)
  BY <1>4, StateIs DEF b
<1>10. /\ IsMemory(w) /\ \A d \in DOMAIN w : w[d] = IF d \in DOMAIN b THEN b[d] ELSE Junk
       /\ DOMAIN w = {d \in DOMAIN b : ~InStack(d) \/ d >= sp} \cup sp .. top
  BY <1>2, <1>9, WithSpIs
<1> HIDE DEF w, q
<1>11. \A d : d \in sp .. top => d \in DOMAIN m
  BY <1>2 DEF StackFrom
<1>12. \A d \in DOMAIN m : d \in Int /\ (InStack(d) => d >= sp)
  <2>1. \A d \in DOMAIN m : d \in Int
    BY <1>2, WordsAreNumbers DEF IsMemory
  <2>2. \A d \in DOMAIN m : InStack(d) => d \in sp .. top
    BY <1>2 DEF StackFrom
  <2> QED
    BY <1>5, <2>1, <2>2
<1>13. DOMAIN w = DOMAIN m
  <2>1. ASSUME NEW d \in DOMAIN b, ~InStack(d) \/ d >= sp PROVE d \in DOMAIN m
    <3>1. SUFFICES ASSUME d \in {p, sp - 1} PROVE FALSE
      BY <1>3, <1>4
    <3>2. d < sp /\ d \in Int
      BY <1>5, <3>1
    <3>3. sp <= top + 1
      BY MachineAssumption DEF HasRoom, sp
    <3>4. d < DataStart
      BY <1>1, <1>5, <3>2, <3>3
    <3> QED
      BY <1>5, <2>1, <3>2, <3>4 DEF InStack
  <2>2. ASSUME NEW d \in DOMAIN m PROVE d \in DOMAIN b /\ (~InStack(d) \/ d >= sp)
    BY <1>3, <1>4, <1>12
  <2> QED
    BY <1>10, <1>11, <2>1, <2>2
<1>14. w = m
  <2>1. ASSUME NEW d \in DOMAIN m PROVE w[d] = m[d]
    <3>1. d \in DOMAIN b /\ b[d] = m[d]
      BY <1>3, <1>4 DEF Holds
    <3> QED
      BY <1>10, <1>13, <3>1
  <2>2. w = [d \in DOMAIN m |-> w[d]] /\ m = [d \in DOMAIN m |-> m[d]]
    BY <1>2, <1>10, <1>13 DEF IsMemory
  <2> QED
    BY <2>1, <2>2
<1>15. /\ q.regs[reg] = n /\ q.regs["sp"] = sp
       /\ \A r \in Registers \ {"sp", reg} : q.regs[r] = u.regs[r]
  <2>1. "sp" \in Registers
    BY RegistersAre
  <2> QED
    BY <1>4, <1>7, <1>8, <2>1
<1>16. \A r \in Registers \ (R \cup {reg}) : q.regs[r] = s.regs[r]
  BY <1>4, <1>15 DEF sp
<1>17. Keeps(s, q, R \cup {reg})
  BY <1>4, <1>8, <1>14, <1>16 DEF Keeps, m, w
<1>18. \A r \in General \ {reg} : r \in Registers \ {"sp", reg}
  BY RegistersAre
<1> QED
  BY <1>4, <1>6, <1>15, <1>17, <1>18 DEF GotBack, q, b

-----------------------------------------------------------------------------
(* Code, and what it leads to.                                             *)
Reaches(g, c, s, t, R) == IsCode(c) /\ Does(g, c, s, t) /\ Keeps(s, t, R)

LEMMA GetsIs ==
  ASSUME NEW g, NEW c, IsCode(c), NEW s, NEW reg, NEW n, NEW R
  PROVE  Gets(g, c, s, reg, n, R) <=> \E t : Reaches(g, c, s, t, R) /\ t.regs[reg] = n
BY DEF Gets, Reaches

LEMMA ReachesBoth ==
  ASSUME NEW g, NEW c, NEW d, NEW s, NEW t, NEW u, NEW R, NEW Q, NEW P,
         R \subseteq P, Q \subseteq P, Reaches(g, c, s, t, R), Reaches(g, d, t, u, Q)
  PROVE  Reaches(g, c \o d, s, u, P)
BY DoesBoth, KeepsMore, BothIs DEF Reaches

LEMMA ReachesNothing ==
  ASSUME NEW g, NEW s, IsState(s), NEW R
  PROVE  Reaches(g, <<>>, s, s, R)
BY DoesNothing, FewIs DEF Reaches, Keeps

(* The machine is in the circumstances x, with room on the stack.          *)
Fits(x, s, room) == HasRoom(s, room) /\ s.regs["bp"] = x.bp /\ Holds(s.mem, x.m)

LEMMA FitsKept ==
  ASSUME NEW x, NEW s, NEW t, NEW room, NEW R, R \subseteq General,
         Fits(x, s, room), Keeps(s, t, R)
  PROVE  Fits(x, t, room)
<1>1. "sp" \in Registers \ R /\ "bp" \in Registers \ R
  BY RegistersAre DEF Plain
<1>2. t.regs["sp"] = s.regs["sp"] /\ t.regs["bp"] = s.regs["bp"] /\ t.mem = s.mem /\ IsState(t)
  BY <1>1 DEF Keeps
<1> QED
  BY <1>2 DEF Fits, HasRoom

LEMMA FitsPushed ==
  ASSUME NEW x, NEW s, NEW room \in Nat, Fits(x, s, room + 2), NEW n \in Word16
  PROVE  HasRoom(s, 2) /\ Fits(x, Pushed(s, n), room)
<1>1. IsState(s) /\ room + 2 <= s.regs["sp"] /\ s.regs["sp"] <= StackTop + CallerSize
      /\ s.regs["bp"] = x.bp /\ Holds(s.mem, x.m)
  BY DEF Fits, HasRoom
<1>2. s.regs["sp"] \in Int /\ s.regs \in [Registers -> Word16] /\ {"sp", "bp"} \subseteq Registers
  BY <1>1, StateIs, WordsAreNumbers
<1>3. PICK sp \in Int : sp = s.regs["sp"]
  BY <1>2
<1>4. HasRoom(s, 2)
  BY <1>1, <1>3 DEF HasRoom
<1> DEFINE t == Pushed(s, n)
<1>5. IsState(t) /\ t.regs = [s.regs EXCEPT !["sp"] = sp - 2] /\ Holds(t.mem, s.mem)
  BY <1>3, <1>4, PushIs
<1> HIDE DEF t
<1>6. t.regs["sp"] = sp - 2 /\ t.regs["bp"] = s.regs["bp"]
  BY <1>2, <1>5
<1>7. room <= sp - 2 /\ sp - 2 <= StackTop + CallerSize
  BY <1>1, <1>3, MachineAssumption
<1>8. Holds(t.mem, x.m)
  BY <1>1, <1>5 DEF Holds
<1> QED
  BY <1>1, <1>4, <1>5, <1>6, <1>7, <1>8 DEF Fits, HasRoom, t

(* The address of a local.                                                 *)
LEMMA FrameIs ==
  ASSUME NEW g, NEW s, IsState(s), NEW reg \in General, NEW off, NEW offset,
         off - offset \in Word16
  PROVE  /\ IsCode(Frame(reg, off, offset))
         /\ Gets(g, Frame(reg, off, offset), s, reg, Wrap(s.regs["bp"] - (off - offset)), {reg})
<1> DEFINE n == off - offset
           bp == s.regs["bp"]
           a == <<Ins("mov", reg, "bp")>>
           b == <<Imm("sub", reg, n)>>
<1>0. reg \in Plain /\ "bp" \in Registers /\ n \in Word16
  BY RegistersAre
<1> HIDE DEF n
<1>1. Frame(reg, off, offset) = a \o b
  BY FewIs DEF Frame, n
<1>2. IsCode(a) /\ Gets(g, a, s, reg, bp, {reg})
  BY <1>0, MovedIs
<1> HIDE DEF a
<1>3. PICK t : Reaches(g, a, s, t, {reg}) /\ t.regs[reg] = bp
  BY <1>2, GetsIs
<1>4. IsState(t)
  BY <1>3 DEF Reaches, Keeps
<1>5. IsCode(b) /\ Gets(g, b, t, reg, Wrap(Calc("sub", t.regs[reg], n)), {reg})
  BY <1>0, <1>4, NumberIs
<1>6. Calc("sub", t.regs[reg], n) = bp - n
  BY <1>3 DEF Calc
<1> HIDE DEF b
<1>7. Gets(g, a \o b, s, reg, Wrap(bp - n), {reg}) /\ IsCode(a \o b)
  BY <1>2, <1>3, <1>5, <1>6, GetsThen, BothIs DEF Reaches
<1> QED
  BY <1>1, <1>7 DEF n

LEMMA DataLabels ==
  ASSUME NEW c, NEW ref, NEW n
  PROVE  IsData(GlobalLabel(c, ref)) /\ IsData(<<"_S_", n>>)
<1>1. \A a, b : <<a, b>> # <<>> /\ <<a, b>>[1] = a
  OBVIOUS
<1> QED
  BY <1>1 DEF IsData, GlobalLabel

(* The address of a local or a global is its place                         *)
(* (store_value_addr_into_register).                                       *)
LEMMA AddrIs ==
  ASSUME NEW x, NEW s, Fits(x, s, 0), NEW reg \in General, NEW v, HasPlace(x, v)
  PROVE  /\ IsCode(AddrInto(x.e, reg, v))
         /\ Gets(x.g, AddrInto(x.e, reg, v), s, reg, Place(x, v), {reg, "r4"})
<1> DEFINE off == x.e.off[v.ref.at]
           code_v == AddrInto(x.e, reg, v)
<1>1. IsState(s) /\ s.regs["bp"] = x.bp /\ Holds(s.mem, x.m) /\ reg \in Plain
  BY RegistersAre DEF Fits, HasRoom
<1>2. CASE v.type = "GLOBAL"
  <2> DEFINE label == GlobalLabel(x.e.c, v.ref)
  <2>1. x.g[label] \in Word16 /\ Place(x, v) = x.g[label] /\ code_v = <<To("mov", reg, label)>>
    BY <1>2 DEF HasPlace, Place, AddrInto
  <2> HIDE DEF label, code_v
  <2>2. IsCode(code_v) /\ Gets(x.g, code_v, s, reg, x.g[label], {reg})
    BY <1>1, <2>1, DataLabels, LabelLoaded DEF label
  <2> QED
    BY <2>1, <2>2, GetsMore DEF code_v
<1>3. CASE v.type = "LOCAL" /\ ~v.ref.global /\ ~v.deref
  <2>1. off - v.offset \in Word16 /\ Place(x, v) = Wrap(x.bp - (off - v.offset))
        /\ code_v = Frame(reg, off, v.offset)
    BY <1>3 DEF HasPlace, Place, AddrInto
  <2> HIDE DEF off, code_v
  <2>2. IsCode(code_v) /\ Gets(x.g, code_v, s, reg, Place(x, v), {reg})
    BY <1>1, <2>1, FrameIs
  <2> QED
    BY <2>2, GetsMore DEF code_v
<1>4. CASE v.type = "LOCAL" /\ ~v.ref.global /\ v.deref
  <2> DEFINE a == Frame("r4", off, 0)
             b == <<Ins("load", reg, "r4")>>
             c == <<Imm("add", reg, v.offset)>>
             at == Origin(x, v)
             word == GetMem(x.m, at)
  <2>1. /\ off \in Word16 /\ v.offset \in Word16 /\ InUse(x.m, at)
        /\ Place(x, v) = Wrap(word + v.offset) /\ at = Wrap(x.bp - off)
    BY <1>4 DEF HasPlace, Place, Origin
  <2>2. code_v = a \o <<Ins("load", reg, "r4"), Imm("add", reg, v.offset)>>
    BY <1>4 DEF AddrInto
  <2>3. <<Ins("load", reg, "r4"), Imm("add", reg, v.offset)>> = b \o c
    BY FewIs
  <2>4. off - 0 = off
    BY <2>1, NothingLess
  <2> HIDE DEF off, code_v
  <2>5. IsCode(a) /\ Gets(x.g, a, s, "r4", at, {"r4"})
    <3>1. "r4" \in General /\ off - 0 \in Word16 /\ Wrap(s.regs["bp"] - (off - 0)) = at
      BY <1>1, <2>1, <2>4, RegistersAre
    <3> QED
      BY <1>1, <3>1, FrameIs
  <2> HIDE DEF a, at, word
  <2>6. PICK t : Reaches(x.g, a, s, t, {"r4"}) /\ t.regs["r4"] = at
    BY <2>5, GetsIs
  <2>7. IsState(t) /\ t.mem = s.mem
    BY <2>6 DEF Reaches, Keeps
  <2>8. InUse(t.mem, at) /\ GetMem(t.mem, at) = word
    BY <1>1, <2>1, <2>7, HoldsWord DEF word
  <2>9. IsCode(b) /\ Gets(x.g, b, t, reg, word, {reg})
    BY <1>1, <2>6, <2>7, <2>8, LoadedIs, RegistersAre
  <2> HIDE DEF b
  <2>10. PICK u : Reaches(x.g, b, t, u, {reg}) /\ u.regs[reg] = word
    BY <2>9, GetsIs
  <2>11. IsState(u)
    BY <2>10 DEF Reaches, Keeps
  <2>12. IsCode(c) /\ Gets(x.g, c, u, reg, Wrap(Calc("add", u.regs[reg], v.offset)), {reg})
    BY <1>1, <2>1, <2>11, NumberIs
  <2>13. Calc("add", u.regs[reg], v.offset) = word + v.offset
    BY <2>10 DEF Calc
  <2> HIDE DEF c
  <2>14. IsCode(b \o c) /\ Gets(x.g, b \o c, t, reg, Place(x, v), {reg})
    BY <2>1, <2>9, <2>10, <2>12, <2>13, GetsThen, BothIs DEF Reaches
  <2>15. IsCode(a \o (b \o c)) /\ Gets(x.g, a \o (b \o c), s, reg, Place(x, v), {reg, "r4"})
    <3>1. IsCode(a) /\ Does(x.g, a, s, t) /\ Keeps(s, t, {"r4"})
      BY <2>5, <2>6 DEF Reaches
    <3>2. {"r4"} \subseteq {reg, "r4"} /\ {reg} \subseteq {reg, "r4"}
      OBVIOUS
    <3>3. IsCode(a \o (b \o c))
      BY <2>14, <3>1, BothIs
    <3>4. Gets(x.g, a \o (b \o c), s, reg, Place(x, v), {reg, "r4"})
      BY <2>14, <3>1, <3>2, GetsThen
    <3> QED
      BY <3>3, <3>4
  <2> QED
    BY <2>2, <2>3, <2>15 DEF code_v
<1> QED
  BY <1>2, <1>3, <1>4 DEF HasPlace

(* The code of a value that is not made of others                          *)
(* (store_value_into_register).                                            *)
LEMMA LeafIs ==
  ASSUME NEW x, NEW s, Fits(x, s, 0), NEW reg \in General, NEW vs, NEW v, NEW w, NEW codes,
         v.type \in LeafTypes, SoundAt(x, vs, v, w)
  PROVE  /\ IsCode(ValueInto(x.e, reg, vs, v, codes))
         /\ Gets(x.g, ValueInto(x.e, reg, vs, v, codes), s, reg, Worth(x, vs, v, w), {reg, "r4"})
<1> DEFINE code_v == ValueInto(x.e, reg, vs, v, codes)
           n == Worth(x, vs, v, w)
<1>1. IsState(s) /\ s.regs["bp"] = x.bp /\ Holds(s.mem, x.m) /\ reg \in Plain
  BY RegistersAre DEF Fits, HasRoom
<1>2. CASE v.type = "IMMEDIATE"
  <2>1. v.imm \in Word16 /\ n = v.imm /\ code_v = <<Imm("mov", reg, v.imm)>>
    BY <1>2 DEF SoundAt, Worth, ValueInto
  <2> HIDE DEF code_v, n
  <2>2. IsCode(code_v) /\ Gets(x.g, code_v, s, reg, Wrap(Calc("mov", s.regs[reg], v.imm)), {reg})
    BY <1>1, <2>1, NumberIs
  <2>3. Wrap(Calc("mov", s.regs[reg], v.imm)) = n
    BY <2>1, WrapOfWord DEF Calc
  <2> QED
    BY <2>2, <2>3, GetsMore DEF code_v, n
<1>3. CASE v.type = "STRING"
  <2> DEFINE label == <<"_S_", v.imm>>
  <2>1. x.g[label] \in Word16 /\ n = x.g[label] /\ code_v = <<To("mov", reg, label)>>
    BY <1>3 DEF SoundAt, Worth, ValueInto
  <2>2. IsData(label)
    BY DataLabels
  <2> HIDE DEF label, code_v, n
  <2>3. IsCode(code_v) /\ Gets(x.g, code_v, s, reg, n, {reg})
    BY <1>1, <2>1, <2>2, LabelLoaded
  <2> QED
    BY <2>3, GetsMore DEF code_v, n
<1>4. CASE v.type = "ADDR"
  <2> DEFINE off == x.e.off[v.ref.at]
  <2>1. off \in Word16 /\ n = Wrap(x.bp - off) /\ code_v = Frame(reg, off, 0)
    BY <1>4 DEF SoundAt, Worth, ValueInto, Origin
  <2>2. off - 0 = off
    BY <2>1, NothingLess
  <2> HIDE DEF off, code_v, n
  <2>3. IsCode(code_v) /\ Gets(x.g, code_v, s, reg, n, {reg})
    BY <1>1, <2>1, <2>2, FrameIs
  <2> QED
    BY <2>3, GetsMore DEF code_v, n
<1>5. CASE v.type \in {"LOCAL", "GLOBAL"}
  <2> DEFINE a == AddrInto(x.e, "r4", v)
             at == Place(x, v)
             op == IF v.decay THEN "mov" ELSE "load"
             b == <<Ins(op, reg, "r4")>>
  <2>1. /\ HasPlace(x, v) /\ code_v = a \o b
        /\ IF v.decay THEN n = at ELSE n = GetMem(x.m, at) /\ InUse(x.m, at)
    BY <1>5 DEF SoundAt, Worth, ValueInto
  <2> HIDE DEF code_v, n
  <2>2. IsCode(a) /\ Gets(x.g, a, s, "r4", at, {"r4"})
    BY <2>1, AddrIs, RegistersAre
  <2> HIDE DEF a, at
  <2>3. PICK t : Reaches(x.g, a, s, t, {"r4"}) /\ t.regs["r4"] = at
    BY <2>2, GetsIs
  <2>4. IsState(t) /\ t.mem = s.mem
    BY <2>3 DEF Reaches, Keeps
  <2>5. IsCode(b) /\ Gets(x.g, b, t, reg, n, {reg})
    <3>1. CASE v.decay
      <4>1. op = "mov" /\ t.regs["r4"] = n /\ "r4" \in Registers
        BY <2>1, <2>3, <3>1, RegistersAre
      <4> QED
        BY <1>1, <2>4, <4>1, MovedIs
    <3>2. CASE ~v.decay
      <4>1. InUse(t.mem, at) /\ GetMem(t.mem, at) = n
        BY <1>1, <2>1, <2>4, <3>2, HoldsWord
      <4> QED
        BY <1>1, <2>3, <2>4, <3>2, <4>1, LoadedIs, RegistersAre
    <3> QED
      BY <3>1, <3>2
  <2> HIDE DEF b
  <2>6. IsCode(a \o b) /\ Gets(x.g, a \o b, s, reg, n, {reg, "r4"})
    <3>1. Does(x.g, a, s, t) /\ Keeps(s, t, {"r4"})
      BY <2>3 DEF Reaches
    <3>2. {"r4"} \subseteq {reg, "r4"} /\ {reg} \subseteq {reg, "r4"}
      OBVIOUS
    <3>3. IsCode(a \o b)
      BY <2>2, <2>5, BothIs
    <3>4. Gets(x.g, a \o b, s, reg, n, {reg, "r4"})
      BY <2>2, <2>5, <3>1, <3>2, GetsThen
    <3> QED
      BY <3>3, <3>4
  <2> QED
    BY <2>1, <2>6 DEF code_v, n
<1> QED
  BY <1>2, <1>3, <1>4, <1>5 DEF LeafTypes

-----------------------------------------------------------------------------
(* A register on the stack, and back.                                      *)
LEMMA PushDoes ==
  ASSUME NEW g, NEW s, IsState(s), NEW reg \in General, NEW n, n = s.regs[reg]
  PROVE  IsCode(<<Push(reg)>>) /\ Does(g, <<Push(reg)>>, s, Pushed(s, n)) /\ n \in Word16
<1> DEFINE j == Assembled(Push(reg), g)
<1>1. j.op = "push" /\ j.dst = reg /\ j.src = "" /\ j.n = 0 /\ 0 \in Word16
  <2>1. Is(j, "push", reg, "", 0) /\ 0 \in Word16
    BY InsIs DEF Push
  <2> QED
    BY <2>1 DEF Is
<1>2. reg \in Registers /\ n \in Word16
  BY StateIs, RegistersAre
<1> HIDE DEF j
<1>3. IsInstruction(j) /\ Allowed(s, j) /\ j.op \in StraightOps
  BY <1>1, <1>2 DEF IsInstruction, Allowed, StraightOps
<1>4. After(s, j) = Pushed(s, n)
  BY <1>1 DEF After
<1>5. Executes(g, Push(reg), s, Pushed(s, n))
  BY <1>3, <1>4 DEF Executes, j
<1> QED
  BY <1>2, <1>5, DoesOne, FewIs

LEMMA PopDoes ==
  ASSUME NEW g, NEW s, IsState(s), NEW reg \in Plain, InUse(s.mem, s.regs["sp"])
  PROVE  IsCode(<<Pop(reg)>>) /\ Does(g, <<Pop(reg)>>, s, Popped(s, reg))
<1> DEFINE j == Assembled(Pop(reg), g)
<1>1. j.op = "pop" /\ j.dst = reg /\ j.src = "" /\ j.n = 0 /\ 0 \in Word16
  <2>1. Is(j, "pop", reg, "", 0) /\ 0 \in Word16
    BY InsIs DEF Pop
  <2> QED
    BY <2>1 DEF Is
<1> HIDE DEF j
<1>2. IsInstruction(j) /\ Allowed(s, j) /\ j.op \in StraightOps
  BY <1>1 DEF IsInstruction, Allowed, StraightOps, Plain
<1>3. After(s, j) = Popped(s, reg)
  BY <1>1 DEF After
<1>4. Executes(g, Pop(reg), s, Popped(s, reg))
  BY <1>2, <1>3 DEF Executes, j
<1> QED
  BY <1>4, DoesOne, FewIs

LEMMA FitsLess ==
  ASSUME NEW x, NEW s, NEW room \in Nat, Fits(x, s, room), NEW less \in Nat, less <= room
  PROVE  Fits(x, s, less)
<1>1. s.regs["sp"] \in Nat
  BY StateIs, WordsAreNumbers DEF Fits, HasRoom
<1> QED
  BY <1>1 DEF Fits, HasRoom

LEMMA GotWord ==
  ASSUME NEW s, NEW t, NEW R, Keeps(s, t, R), NEW reg \in General
  PROVE  IsState(t) /\ t.regs[reg] \in Word16
BY StateIs, RegistersAre DEF Keeps

(* In any fitting state the code puts n into reg.                          *)
Gives(x, room, c, reg, n, R) ==
  \A t : Fits(x, t, room) => IsCode(c) /\ Gets(x.g, c, t, reg, n, R)

(* The value in reg waits on the stack while other code computes there     *)
(* (emit_op).                                                              *)
BothThere(x, s, a, b, reg, m, n, R) ==
  \E q : /\ Reaches(x.g, a \o <<Push(reg)>> \o b \o <<Pop("r4")>>, s, q, R)
         /\ q.regs[reg] = m /\ q.regs["r4"] = n

LEMMA WaitsIs ==
  ASSUME NEW x, NEW room \in Nat, NEW s, Fits(x, s, room + 2),
         NEW reg \in General, reg # "r4", NEW R, R \subseteq General, "r4" \in R, reg \in R,
         NEW a, IsCode(a), NEW n, Gets(x.g, a, s, reg, n, R),
         NEW b, NEW m, Gives(x, room, b, reg, m, R)
  PROVE  BothThere(x, s, a, b, reg, m, n, R)
<1> DEFINE c == <<Push(reg)>>
           d == <<Pop("r4")>>
<1>1. PICK t : Reaches(x.g, a, s, t, R) /\ t.regs[reg] = n
  BY GetsIs
<1>2. IsState(t) /\ n \in Word16 /\ Fits(x, t, room + 2)
  <2>1. Keeps(s, t, R)
    BY <1>1 DEF Reaches
  <2> QED
    BY <1>1, <2>1, GotWord, FitsKept
<1>3. IsCode(c) /\ Does(x.g, c, t, Pushed(t, n))
  BY <1>1, <1>2, PushDoes
<1>4. HasRoom(t, 2) /\ Fits(x, Pushed(t, n), room)
  BY <1>2, FitsPushed
<1>5. PICK u : /\ IsCode(b) /\ Does(x.g, b, Pushed(t, n), u)
                 /\ Keeps(Pushed(t, n), u, R) /\ u.regs[reg] = m
  BY <1>4 DEF Gets, Gives
<1>6. "r4" \in General /\ "r4" \in Plain /\ R \cup {"r4"} = R /\ IsState(u)
  BY <1>5, RegistersAre DEF Keeps
<1> DEFINE q == Popped(u, "r4")
<1>7. /\ InUse(u.mem, u.regs["sp"]) /\ Keeps(t, q, R) /\ q.regs["r4"] = n
      /\ q.regs[reg] = m
  <2>1. GotBack(t, n, u, q, R, "r4")
    BY <1>2, <1>4, <1>5, <1>6, PopIs
  <2>2. q.regs[reg] = m
    BY <1>5, <2>1 DEF GotBack
  <2> QED
    BY <1>6, <2>1, <2>2 DEF GotBack
<1>8. IsCode(d) /\ Does(x.g, d, u, q)
  BY <1>6, <1>7, PopDoes
<1> HIDE DEF c, d, q
<1>9. IsCode(a \o c) /\ Does(x.g, a \o c, s, Pushed(t, n))
  BY <1>1, <1>3, DoesBoth, BothIs DEF Reaches
<1>10. IsCode(a \o c \o b) /\ Does(x.g, a \o c \o b, s, u)
  BY <1>5, <1>9, DoesBoth, BothIs
<1>11. IsCode(a \o c \o b \o d) /\ Does(x.g, a \o c \o b \o d, s, q)
  BY <1>8, <1>10, DoesBoth, BothIs
<1>12. Keeps(s, q, R)
  BY <1>1, <1>7, KeepsMore DEF Reaches
<1>13. Reaches(x.g, a \o c \o b \o d, s, q, R)
  BY <1>11, <1>12 DEF Reaches
<1> QED
  BY <1>7, <1>13 DEF BothThere, c, d
(* The code of the k-th value is right: it leaves the value in the         *)
(* register and touches r4 and r6 at most.                                 *)
Touched(reg) == {reg, "r4", "r6"}

Right(x, vs, k) ==
  \A reg \in General : \A s :
    Computable(x.e, vs, vs[k], reg) /\ Fits(x, s, 2 * k) =>
      /\ IsCode(Codes(x.e, vs)[k][reg])
      /\ Gets(x.g, Codes(x.e, vs)[k][reg], s, reg, Meaning(x, vs)[k], Touched(reg))

LEMMA LeafRight ==
  ASSUME NEW x, NEW vs, Len(vs) \in Nat, Sound(x, vs), NEW k \in 1 .. Len(vs),
         vs[k].type \in LeafTypes, NEW reg \in General, NEW s, Fits(x, s, 0)
  PROVE  /\ IsCode(Codes(x.e, vs)[k][reg])
         /\ Gets(x.g, Codes(x.e, vs)[k][reg], s, reg, Meaning(x, vs)[k], {reg, "r4"})
<1> DEFINE w == Meaning(x, vs)
           codes == Codes(x.e, vs)
<1>1. Ordered(vs) /\ SoundAt(x, vs, vs[k], w)
  BY DEF Sound
<1>2. w[k] = Worth(x, vs, vs[k], w)
  BY <1>1, MeaningIs
<1>3. codes[k][reg] = ValueInto(x.e, reg, vs, vs[k], codes)
  BY <1>1, CodesAre
<1> HIDE DEF w, codes
<1>4. /\ IsCode(ValueInto(x.e, reg, vs, vs[k], codes))
      /\ Gets(x.g, ValueInto(x.e, reg, vs, vs[k], codes), s, reg, Worth(x, vs, vs[k], w),
              {reg, "r4"})
  BY <1>1, LeafIs
<1> QED
  BY <1>2, <1>3, <1>4 DEF w, codes

(* An operation (emit_op): folded, or with its right side on the stack.    *)
LEMMA OpRight ==
  ASSUME NEW x, NEW vs, Len(vs) \in Nat, Sound(x, vs), NEW k \in 1 .. Len(vs),
         vs[k].type = "OP", \A j \in 1 .. k - 1 : Right(x, vs, j),
         NEW reg \in General, Computable(x.e, vs, vs[k], reg), NEW s, Fits(x, s, 2 * k)
  PROVE  /\ IsCode(Codes(x.e, vs)[k][reg])
         /\ Gets(x.g, Codes(x.e, vs)[k][reg], s, reg, Meaning(x, vs)[k], Touched(reg))
<1> DEFINE v == vs[k]
           w == Meaning(x, vs)
           codes == Codes(x.e, vs)
           i == v.parts[1]
           j == v.parts[2]
           R == Touched(reg)
<1>1. /\ Ordered(vs) /\ SoundAt(x, vs, v, w) /\ k \in Nat /\ k <= Len(vs)
      /\ i \in 1 .. k - 1 /\ j \in 1 .. k - 1
  BY DEF Sound, Ordered
<1>2. w[k] = Wrap(Folded(v.op, w[i], w[j]))
  <2>1. w[k] = Worth(x, vs, v, w)
    BY <1>1, MeaningIs
  <2> QED
    BY <2>1 DEF Worth
<1>3. codes[k][reg] = EmitOp(x.e, reg, vs, v, codes)
  <2>1. codes[k][reg] = ValueInto(x.e, reg, vs, v, codes)
    BY <1>1, CodesAre
  <2> QED
    BY <2>1 DEF ValueInto
<1>4. i \in 1 .. Len(vs) /\ j \in 1 .. Len(vs) /\ i \in Nat /\ j \in Nat /\ k \in Nat
      /\ 2 * i <= 2 * k - 2 /\ 2 * j <= 2 * k /\ 2 * k - 2 \in Nat /\ 2 * k \in Nat
      /\ 2 * i \in Nat /\ 2 * j \in Nat /\ 2 * k - 2 + 2 = 2 * k
  BY <1>1
<1>5. R \subseteq General /\ "r4" \in R /\ reg \in R /\ reg \in Plain /\ "r4" \in Registers
  BY RegistersAre DEF Touched
<1>6. CASE Folds(x.e, vs, v)
  <2>1. vs[i].type = "IMMEDIATE" /\ vs[j].type = "IMMEDIATE"
    BY <1>6 DEF Folds
  <2>2. w[i] = vs[i].imm /\ w[j] = vs[j].imm
    <3>1. w[i] = Worth(x, vs, vs[i], w) /\ w[j] = Worth(x, vs, vs[j], w)
      BY <1>1, <1>4, MeaningIs
    <3> QED
      BY <2>1, <3>1 DEF Worth
  <2> DEFINE n == Constant(vs, v)
  <2>3. n \in Word16 /\ w[k] = Wrap(n)
    <3>1. n \in Word16
      BY <1>1, <1>6 DEF SoundAt
    <3>2. n = Folded(v.op, w[i], w[j])
      BY <2>2 DEF Constant
    <3> QED
      BY <1>2, <3>1, <3>2
  <2>4. codes[k][reg] = <<Imm("mov", reg, n)>>
    BY <1>3, <1>6 DEF EmitOp
  <2> HIDE DEF n, codes, w
  <2>5. /\ IsCode(<<Imm("mov", reg, n)>>)
        /\ Gets(x.g, <<Imm("mov", reg, n)>>, s, reg, Wrap(Calc("mov", s.regs[reg], n)), {reg})
    BY <1>5, <2>3, NumberIs DEF Fits, HasRoom
  <2>6. Calc("mov", s.regs[reg], n) = n
    BY DEF Calc
  <2> QED
    BY <1>5, <2>3, <2>4, <2>5, <2>6, GetsMore DEF w, codes
<1>7. CASE ~Folds(x.e, vs, v)
  <2> DEFINE a == codes[j][reg]
             b == codes[i][reg]
             n == w[j]
             m == w[i]
             op == CASE v.op = "ADD" -> "add" [] v.op = "SUB" -> "sub" [] v.op = "MUL" -> "mul"
             c == a \o <<Push(reg)>> \o b \o <<Pop("r4")>>
             d == <<Ins(op, reg, "r4")>>
  <2>1. reg # "r4" /\ v.op \in {"ADD", "SUB", "MUL"}
    BY <1>1, <1>7 DEF Computable, SoundAt
  <2>2. codes[k][reg] = c \o d
    BY <1>3, <1>7, <2>1 DEF EmitOp, Operation
  <2>3. op \in {"mov", "add", "sub", "mul"} /\ Calc(op, m, n) = Folded(v.op, m, n)
    BY <2>1 DEF Calc, Folded
  <2>4. Computable(x.e, vs, vs[i], reg) /\ Computable(x.e, vs, vs[j], reg)
    BY <2>1 DEF Computable
  <2>5. IsCode(a) /\ Gets(x.g, a, s, reg, n, R)
    <3>1. Fits(x, s, 2 * j)
      BY <1>4, FitsLess
    <3> QED
      BY <1>1, <2>4, <3>1 DEF Right
  <2>6. Gives(x, 2 * k - 2, b, reg, m, R)
    <3>1. SUFFICES ASSUME NEW t, Fits(x, t, 2 * k - 2)
                   PROVE  IsCode(b) /\ Gets(x.g, b, t, reg, m, R)
      BY DEF Gives
    <3>2. Fits(x, t, 2 * i)
      BY <1>4, <3>1, FitsLess
    <3> QED
      BY <1>1, <2>4, <3>2 DEF Right
  <2>7. w[k] = Wrap(Calc(op, m, n))
    BY <1>2, <2>3
  <2> HIDE DEF a, b, n, m, op, w, codes, R
  <2>8. PICK q : Reaches(x.g, c, s, q, R) /\ q.regs[reg] = m /\ q.regs["r4"] = n
    <3> DEFINE room == 2 * k - 2
    <3>1. room \in Nat /\ Fits(x, s, room + 2)
      BY <1>4
    <3>2. Gives(x, room, b, reg, m, R)
      BY <2>6
    <3> HIDE DEF room
    <3> QED
      <4>1. R \subseteq General /\ "r4" \in R /\ reg \in R /\ reg # "r4"
        BY <1>5, <2>1
      <4>2. BothThere(x, s, a, b, reg, m, n, R)
        BY <2>5, <3>1, <3>2, <4>1, WaitsIs
      <4> QED
        BY <4>2 DEF BothThere, c
  <2>9. IsState(q)
    BY <2>8 DEF Reaches, Keeps
  <2>10. IsCode(d) /\ Gets(x.g, d, q, reg, Wrap(Calc(op, m, n)), {reg})
    BY <1>5, <2>3, <2>8, <2>9, RegisterIs
  <2> HIDE DEF c, d
  <2>11. IsCode(c \o d) /\ Gets(x.g, c \o d, s, reg, w[k], R)
    BY <1>5, <2>7, <2>8, <2>10, GetsThen, BothIs DEF Reaches
  <2> QED
    BY <2>2, <2>11 DEF w, codes, R
<1> QED
  BY <1>6, <1>7

(* What is indexed, in r4 alone.                                           *)
LEMMA BaseIs ==
  ASSUME NEW x, NEW vs, Len(vs) \in Nat, Sound(x, vs), NEW k \in 1 .. Len(vs),
         vs[k].type = "INDEX", NEW s, Fits(x, s, 0),
         NEW v, v = vs[k], NEW i, i = v.parts[1], NEW n,
         n = IF v.deref THEN Meaning(x, vs)[i] ELSE Place(x, vs[i])
  PROVE  /\ IsCode(BaseInto(x.e, vs, v, Codes(x.e, vs)))
         /\ Gets(x.g, BaseInto(x.e, vs, v, Codes(x.e, vs)), s, "r4", n, {"r4"})
<1>1. /\ i \in 1 .. Len(vs) /\ "r4" \in General
      /\ IF v.deref THEN vs[i].type \in LeafTypes ELSE HasPlace(x, vs[i])
  <2>1. Ordered(vs) /\ SoundAt(x, vs, v, Meaning(x, vs))
    BY DEF Sound
  <2>2. i \in 1 .. k - 1
    BY <2>1 DEF Ordered
  <2>3. i \in 1 .. Len(vs)
    BY <2>2
  <2>4. IF v.deref THEN vs[i].type \in LeafTypes ELSE HasPlace(x, vs[i])
    BY <2>1 DEF SoundAt
  <2> QED
    BY <2>3, <2>4, RegistersAre
<1>2. CASE v.deref
  <2>1. BaseInto(x.e, vs, v, Codes(x.e, vs)) = Codes(x.e, vs)[i]["r4"]
        /\ n = Meaning(x, vs)[i]
    BY <1>2 DEF BaseInto
  <2>2. /\ IsCode(Codes(x.e, vs)[i]["r4"])
        /\ Gets(x.g, Codes(x.e, vs)[i]["r4"], s, "r4", Meaning(x, vs)[i], {"r4", "r4"})
    BY <1>1, <1>2, LeafRight
  <2> QED
    BY <2>1, <2>2, GetsMore
<1>3. CASE ~v.deref
  <2>1. BaseInto(x.e, vs, v, Codes(x.e, vs)) = AddrInto(x.e, "r4", vs[i])
        /\ n = Place(x, vs[i])
    BY <1>3 DEF BaseInto
  <2>2. /\ IsCode(AddrInto(x.e, "r4", vs[i]))
        /\ Gets(x.g, AddrInto(x.e, "r4", vs[i]), s, "r4", Place(x, vs[i]), {"r4", "r4"})
    BY <1>1, <1>3, AddrIs
  <2> QED
    BY <2>1, <2>2, GetsMore
<1> QED
  BY <1>2, <1>3

(* The byte is cut out of the word, or the word stays.                     *)
LEMMA CutIs ==
  ASSUME NEW g, NEW s, IsState(s), NEW reg \in General, NEW v
  PROVE  /\ IsCode(CutByte(reg, v))
         /\ Gets(g, CutByte(reg, v), s, reg,
                 IF v.esize = 1 THEN s.regs[reg] % 256 ELSE s.regs[reg], {reg})
<1>1. CASE v.esize = 1
  BY <1>1, ByteCut, RegistersAre DEF CutByte
<1>2. CASE v.esize # 1
  <2>1. Reaches(g, <<>>, s, s, {reg})
    BY ReachesNothing
  <2> QED
    BY <1>2, <2>1 DEF CutByte, Gets, Reaches
<1> QED
  BY <1>1, <1>2

(* An element of an array or of what a pointer points to.                  *)
LEMMA IndexRight ==
  ASSUME NEW x, NEW vs, Len(vs) \in Nat, Sound(x, vs), NEW k \in 1 .. Len(vs),
         vs[k].type = "INDEX", \A j \in 1 .. k - 1 : Right(x, vs, j),
         NEW reg \in General, NEW s, Fits(x, s, 2 * k)
  PROVE  /\ IsCode(Codes(x.e, vs)[k][reg])
         /\ Gets(x.g, Codes(x.e, vs)[k][reg], s, reg, Meaning(x, vs)[k], Touched(reg))
<1> DEFINE v == vs[k]
           w == Meaning(x, vs)
           codes == Codes(x.e, vs)
           i == v.parts[1]
           j == v.parts[2]
           R == Touched(reg)
           a == codes[j]["r6"]
           b == <<Imm("mul", "r6", v.esize)>>
           c == BaseInto(x.e, vs, v, codes)
           d == <<Ins("add", "r4", "r6")>>
           f == <<Ins("load", reg, "r4")>>
           h == CutByte(reg, v)
           n == Wrap(w[j] * v.esize)
           base == IF v.deref THEN w[i] ELSE Place(x, vs[i])
           at == Element(x, vs, v, w)
           word == GetMem(x.m, at)
<1>1. /\ Ordered(vs) /\ SoundAt(x, vs, v, w)
      /\ i \in 1 .. k - 1 /\ j \in 1 .. k - 1
  BY DEF Sound, Ordered
<1>2. w[k] = IF v.esize = 1 THEN word % 256 ELSE word
  <2>1. w[k] = Worth(x, vs, v, w)
    BY <1>1, MeaningIs
  <2> QED
    BY <2>1 DEF Worth
<1>3. codes[k][reg] = a \o b \o c \o (d \o f) \o h
  <2>1. codes[k][reg] = ValueInto(x.e, reg, vs, v, codes)
    BY <1>1, CodesAre
  <2>2. d \o f = <<Ins("add", "r4", "r6"), Ins("load", reg, "r4")>>
    BY FewIs
  <2> HIDE DEF d, f
  <2> QED
    BY <2>1, <2>2 DEF ValueInto, EmitIndex
<1>4. v.esize \in Word16 /\ InUse(x.m, at) /\ at = Wrap(base + n)
  BY <1>1 DEF SoundAt, Element
<1>5. /\ R = {reg, "r4", "r6"} /\ R \subseteq General /\ Touched("r6") = {"r4", "r6"}
      /\ {"r4", "r6"} \subseteq Plain /\ "r6" \in General /\ "r6" \in Registers
      /\ reg \in Plain /\ "r4" \in General /\ "r4" \in Registers
  BY RegistersAre DEF Touched
<1>6. IsCode(a) /\ Gets(x.g, a, s, "r6", w[j], {"r4", "r6"})
  <2>1. Computable(x.e, vs, vs[j], "r6")
    BY DEF Computable
  <2>2. 2 * j \in Nat /\ 2 * k \in Nat /\ 2 * j <= 2 * k
    BY <1>1
  <2>3. Fits(x, s, 2 * j)
    BY <2>2, FitsLess
  <2> QED
    BY <1>1, <1>5, <2>1, <2>3 DEF Right
<1>7. Fits(x, s, 0)
  <2>1. 2 * k \in Nat /\ 0 \in Nat /\ 0 <= 2 * k
    OBVIOUS
  <2> QED
    BY <2>1, FitsLess
<1>8. ASSUME NEW t, Fits(x, t, 0)
      PROVE  IsCode(c) /\ Gets(x.g, c, t, "r4", base, {"r4"})
  BY <1>8, BaseIs
<1> HIDE DEF v, w, codes, R, a, b, c, d, f, h, i, j, n, base, at, word
<1>9. PICK t1 : Reaches(x.g, a, s, t1, {"r4", "r6"}) /\ t1.regs["r6"] = w[j]
  BY <1>6, GetsIs
<1>10. Fits(x, t1, 0) /\ IsState(t1)
  BY <1>5, <1>7, <1>9, FitsKept DEF Reaches, Keeps
<1>11. IsCode(b) /\ Gets(x.g, b, t1, "r6", n, {"r6"})
  <2>1. /\ IsCode(b)
        /\ Gets(x.g, b, t1, "r6", Wrap(Calc("mul", t1.regs["r6"], v.esize)), {"r6"})
    BY <1>4, <1>5, <1>10, NumberIs DEF b
  <2>2. Calc("mul", t1.regs["r6"], v.esize) = w[j] * v.esize
    BY <1>9 DEF Calc
  <2> QED
    BY <2>1, <2>2 DEF n
<1>12. PICK t2 : Reaches(x.g, b, t1, t2, {"r6"}) /\ t2.regs["r6"] = n
  BY <1>11, GetsIs
<1>13. Fits(x, t2, 0)
  BY <1>5, <1>10, <1>12, FitsKept DEF Reaches
<1>14. IsCode(c) /\ Gets(x.g, c, t2, "r4", base, {"r4"})
  BY <1>8, <1>13
<1>15. PICK t3 : Reaches(x.g, c, t2, t3, {"r4"}) /\ t3.regs["r4"] = base
  BY <1>14, GetsIs
<1>16. Fits(x, t3, 0) /\ IsState(t3) /\ t3.regs["r6"] = n
  <2>1. Keeps(t2, t3, {"r4"})
    BY <1>15 DEF Reaches
  <2> QED
    BY <1>5, <1>12, <1>13, <2>1, FitsKept DEF Keeps
<1>17. IsCode(d) /\ Gets(x.g, d, t3, "r4", at, {"r4"})
  <2>1. /\ IsCode(d)
        /\ Gets(x.g, d, t3, "r4", Wrap(Calc("add", t3.regs["r4"], t3.regs["r6"])), {"r4"})
    BY <1>5, <1>16, RegisterIs DEF d
  <2>2. Calc("add", t3.regs["r4"], t3.regs["r6"]) = base + n
    BY <1>15, <1>16 DEF Calc
  <2> QED
    BY <1>4, <2>1, <2>2
<1>18. PICK t4 : Reaches(x.g, d, t3, t4, {"r4"}) /\ t4.regs["r4"] = at
  BY <1>17, GetsIs
<1>19. Fits(x, t4, 0) /\ IsState(t4) /\ Holds(t4.mem, x.m)
  <2>1. Fits(x, t4, 0)
    BY <1>5, <1>16, <1>18, FitsKept DEF Reaches
  <2> QED
    BY <2>1 DEF Fits, HasRoom
<1>20. IsCode(f) /\ Gets(x.g, f, t4, reg, word, {reg})
  <2>1. InUse(t4.mem, at) /\ GetMem(t4.mem, at) = word
    BY <1>4, <1>19, HoldsWord DEF word
  <2> QED
    BY <1>5, <1>18, <1>19, <2>1, LoadedIs DEF f
<1>21. PICK t5 : Reaches(x.g, f, t4, t5, {reg}) /\ t5.regs[reg] = word
  BY <1>20, GetsIs
<1>22. IsState(t5)
  BY <1>21 DEF Reaches, Keeps
<1>23. IsCode(h) /\ Gets(x.g, h, t5, reg, w[k], {reg})
  <2>1. /\ IsCode(h)
        /\ Gets(x.g, h, t5, reg, IF v.esize = 1 THEN t5.regs[reg] % 256 ELSE t5.regs[reg], {reg})
    BY <1>22, CutIs DEF h
  <2> QED
    BY <1>2, <1>21, <2>1
<1>24. Reaches(x.g, a \o b, s, t2, R)
  BY <1>5, <1>9, <1>12, ReachesBoth
<1>25. Reaches(x.g, a \o b \o c, s, t3, R)
  BY <1>5, <1>15, <1>24, ReachesBoth
<1>26. Reaches(x.g, d \o f, t3, t5, R)
  BY <1>5, <1>18, <1>21, ReachesBoth
<1>27. Reaches(x.g, a \o b \o c \o (d \o f), s, t5, R)
  BY <1>25, <1>26, ReachesBoth
<1> DEFINE most == a \o b \o c \o (d \o f)
<1> HIDE DEF most
<1>28. IsCode(most \o h) /\ Gets(x.g, most \o h, s, reg, w[k], R)
  BY <1>5, <1>23, <1>27, GetsThen, BothIs DEF Reaches, most
<1> QED
  BY <1>3, <1>28 DEF most, codes, w, R

(* Every value.                                                            *)
LEMMA AllRight ==
  ASSUME NEW x, NEW vs, Len(vs) \in Nat, Sound(x, vs), NEW k \in 1 .. Len(vs)
  PROVE  Right(x, vs, k)
<1> DEFINE T == {n \in Nat : n \in 1 .. Len(vs) /\ ~Right(x, vs, n)}
<1>1. SUFFICES ASSUME T # {} PROVE FALSE
  OBVIOUS
<1>2. PICK n \in T : \A j \in T : n <= j
  BY <1>1, LeastNat
<1>3. n \in 1 .. Len(vs) /\ ~Right(x, vs, n)
  OBVIOUS
<1>4. \A j \in 1 .. n - 1 : Right(x, vs, j)
  <2>1. SUFFICES ASSUME NEW j \in 1 .. n - 1, ~Right(x, vs, j) PROVE FALSE
    OBVIOUS
  <2>2. j \in Nat /\ j \in 1 .. Len(vs) /\ ~(n <= j)
    BY <1>3
  <2> QED
    BY <1>2, <2>1, <2>2
<1>5. PICK reg, s :
        /\ reg \in General
        /\ Computable(x.e, vs, vs[n], reg) /\ Fits(x, s, 2 * n)
        /\ ~(/\ IsCode(Codes(x.e, vs)[n][reg])
             /\ Gets(x.g, Codes(x.e, vs)[n][reg], s, reg, Meaning(x, vs)[n], Touched(reg)))
  BY <1>3 DEF Right
<1>6. vs[n].type \in LeafTypes \cup {"OP", "INDEX"}
  BY <1>3 DEF Sound, SoundAt
<1>7. CASE vs[n].type \in LeafTypes
  <2>1. 2 * n \in Nat /\ 0 \in Nat /\ 0 <= 2 * n
    BY <1>3
  <2>2. Fits(x, s, 0)
    BY <1>5, <2>1, FitsLess
  <2>3. /\ IsCode(Codes(x.e, vs)[n][reg])
        /\ Gets(x.g, Codes(x.e, vs)[n][reg], s, reg, Meaning(x, vs)[n], {reg, "r4"})
    BY <1>3, <1>5, <1>7, <2>2, LeafRight
  <2>4. {reg, "r4"} \subseteq Touched(reg)
    BY DEF Touched
  <2>5. Gets(x.g, Codes(x.e, vs)[n][reg], s, reg, Meaning(x, vs)[n], Touched(reg))
    BY <2>3, <2>4, GetsMore
  <2> QED
    BY <1>5, <2>3, <2>5
<1>8. CASE vs[n].type = "OP"
  BY <1>3, <1>4, <1>5, <1>8, OpRight
<1>9. CASE vs[n].type = "INDEX"
  BY <1>3, <1>4, <1>5, <1>9, IndexRight
<1> QED
  BY <1>6, <1>7, <1>8, <1>9

(* The code of a value computes the value: in every state of the machine   *)
(* that the value can be read in and that has two bytes of stack for each  *)
(* value before it, it leaves what the value means in the register; the    *)
(* memory is as it was, and so are all registers but r4 and r6             *)
(* (store_value_into_register, emit_op).                                   *)
THEOREM ValueComputed ==
  ASSUME NEW x, NEW vs, Len(vs) \in Nat, Sound(x, vs), NEW k \in 1 .. Len(vs),
         NEW reg \in General, Computable(x.e, vs, vs[k], reg), NEW s, Fits(x, s, 2 * k)
  PROVE  Gets(x.g, Codes(x.e, vs)[k][reg], s, reg, Meaning(x, vs)[k], {reg, "r4", "r6"})
<1>1. Right(x, vs, k)
  BY AllRight
<1> QED
  BY <1>1 DEF Right, Touched

-----------------------------------------------------------------------------
(* The first k instructions of some code.                                  *)
Steps(g, c, k, s, t) ==
  \E f : /\ f[0] = s /\ f[k] = t
         /\ \A n \in 1 .. k : Executes(g, c[n], f[n - 1], f[n])

LEMMA StepsNone ==
  ASSUME NEW g, NEW c, NEW s
  PROVE  Steps(g, c, 0, s, s)
<1> DEFINE f == [n \in {0} |-> s]
<1>1. f[0] = s
  OBVIOUS
<1> HIDE DEF f
<1> QED
  BY <1>1 DEF Steps

LEMMA StepsMore ==
  ASSUME NEW g, NEW c, NEW k \in Nat, NEW s, NEW t, NEW u,
         Steps(g, c, k, s, t), Executes(g, c[k + 1], t, u)
  PROVE  Steps(g, c, k + 1, s, u)
<1>1. PICK f : /\ f[0] = s /\ f[k] = t
               /\ \A n \in 1 .. k : Executes(g, c[n], f[n - 1], f[n])
  BY DEF Steps
<1> DEFINE h == [n \in 0 .. k + 1 |-> IF n <= k THEN f[n] ELSE u]
<1>2. h[0] = s /\ h[k + 1] = u
  BY <1>1
<1>3. ASSUME NEW n \in 1 .. k + 1 PROVE Executes(g, c[n], h[n - 1], h[n])
  <2>1. CASE n = k + 1
    <3>1. h[n - 1] = t /\ h[n] = u
      BY <1>1, <2>1
    <3> QED
      BY <2>1, <3>1
  <2>2. CASE n # k + 1
    <3>1. n \in 1 .. k /\ h[n - 1] = f[n - 1] /\ h[n] = f[n]
      BY <2>2
    <3> QED
      BY <1>1, <3>1
  <2> QED
    BY <2>1, <2>2
<1> HIDE DEF h
<1> QED
  BY <1>2, <1>3 DEF Steps

(* The registers that are saved, and where they are pushed.                *)
LEMMA SavedAre ==
  /\ \A i \in 1 .. 5 : Saved[i] \in Plain /\ Saved[i] \in Kept
  /\ \A r \in Kept : \E i \in 1 .. 5 : r = Saved[i]
  /\ \A i, j \in 1 .. 5 : Saved[i] = Saved[j] => i = j
  /\ Saved[1] = "bp"
<1>1. /\ Saved[1] = "bp" /\ Saved[2] = "r4" /\ Saved[3] = "r5" /\ Saved[4] = "r6"
      /\ Saved[5] = "r7"
  BY DEF Saved
<1>2. \A i \in 1 .. 5 : i = 1 \/ i = 2 \/ i = 3 \/ i = 4 \/ i = 5
  OBVIOUS
<1>3. 1 \in 1 .. 5 /\ 2 \in 1 .. 5 /\ 3 \in 1 .. 5 /\ 4 \in 1 .. 5 /\ 5 \in 1 .. 5
  OBVIOUS
<1>4. \A i \in 1 .. 5 : Saved[i] \in Plain /\ Saved[i] \in Kept
  BY <1>1, <1>2 DEF Plain, Registers, General, Kept
<1>5. \A r \in Kept : \E i \in 1 .. 5 : r = Saved[i]
  BY <1>1, <1>3 DEF Kept
<1>6. \A i, j \in 1 .. 5 : Saved[i] = Saved[j] => i = j
  BY <1>1, <1>2
<1> QED
  BY <1>1, <1>4, <1>5, <1>6

(* The first k of the saved registers of s are on the stack below sp.      *)
OnStack(s, m, k) ==
  \A i \in 1 .. k :
    InUse(m, s.regs["sp"] - 2 * i) /\ GetMem(m, s.regs["sp"] - 2 * i) = s.regs[Saved[i]]

(* From s, k of them have been pushed.                                     *)
Layer(s, t, k) ==
  /\ IsState(t) /\ t.cf = s.cf /\ Holds(t.mem, s.mem) /\ OnStack(s, t.mem, k)
  /\ t.regs = [s.regs EXCEPT !["sp"] = s.regs["sp"] - 2 * k]

LEMMA LayerNext ==
  ASSUME NEW g, NEW s, HasRoom(s, 10), NEW k \in 0 .. 4, NEW t, Layer(s, t, k)
  PROVE  \E u : Layer(s, u, k + 1) /\ Executes(g, Push(Saved[k + 1]), t, u)
<1> DEFINE reg == Saved[k + 1]
           n == t.regs[reg]
           u == Pushed(t, n)
<1>1. /\ IsState(s) /\ s.regs["sp"] \in Int /\ s.regs["sp"] \in Word16
      /\ 10 <= s.regs["sp"] /\ s.regs["sp"] <= StackTop + CallerSize
      /\ s.regs \in [Registers -> Word16] /\ "sp" \in Registers
  BY StateIs, WordsAreNumbers DEF HasRoom
<1>2. PICK sp \in Int : sp = s.regs["sp"]
  BY <1>1
<1>3. reg \in Plain /\ reg \in Registers /\ reg # "sp"
  <2>1. k + 1 \in 1 .. 5
    OBVIOUS
  <2> QED
    BY <2>1, SavedAre DEF Plain
<1> HIDE DEF reg
<1>4. /\ IsState(t) /\ t.cf = s.cf /\ Holds(t.mem, s.mem) /\ OnStack(s, t.mem, k)
      /\ t.regs = [s.regs EXCEPT !["sp"] = sp - 2 * k]
  BY <1>2 DEF Layer
<1>5. t.regs["sp"] = sp - 2 * k /\ n = s.regs[reg] /\ n \in Word16
  BY <1>1, <1>3, <1>4
<1>6. HasRoom(t, 2)
  <2>1. 2 <= sp - 2 * k /\ sp - 2 * k <= StackTop + CallerSize
    BY <1>1, <1>2, MachineAssumption
  <2> QED
    BY <1>4, <1>5, <2>1 DEF HasRoom
<1> DEFINE p == sp - 2 * k
<1>7. p - 2 = sp - 2 * (k + 1)
  OBVIOUS
<1> HIDE DEF n, u
<1>8. /\ IsState(u) /\ u.cf = t.cf /\ u.regs = [t.regs EXCEPT !["sp"] = p - 2]
      /\ Holds(u.mem, t.mem) /\ InUse(u.mem, p - 2) /\ GetMem(u.mem, p - 2) = n
  <2> HIDE DEF p
  <2>1. p = t.regs["sp"]
    BY <1>5 DEF p
  <2> QED
    BY <1>5, <1>6, <2>1, PushIs DEF u
<1>9. u.regs = [s.regs EXCEPT !["sp"] = sp - 2 * (k + 1)]
  BY <1>1, <1>4, <1>7, <1>8
<1>10. Holds(u.mem, s.mem)
  BY <1>4, <1>8 DEF Holds
<1>11. OnStack(s, u.mem, k + 1)
  <2>1. SUFFICES ASSUME NEW i \in 1 .. k + 1
                 PROVE  InUse(u.mem, sp - 2 * i) /\ GetMem(u.mem, sp - 2 * i) = s.regs[Saved[i]]
    BY <1>2 DEF OnStack
  <2>2. CASE i = k + 1
    <3>1. InUse(u.mem, sp - 2 * (k + 1)) /\ GetMem(u.mem, sp - 2 * (k + 1)) = n
      BY <1>7, <1>8
    <3> QED
      BY <1>5, <2>2, <3>1 DEF reg
  <2>3. CASE i # k + 1
    <3>1. i \in 1 .. k
      BY <2>3
    <3>2. InUse(t.mem, sp - 2 * i) /\ GetMem(t.mem, sp - 2 * i) = s.regs[Saved[i]]
      BY <1>2, <1>4, <3>1 DEF OnStack
    <3> QED
      BY <1>8, <3>2, HoldsWord
  <2> QED
    BY <2>2, <2>3
<1>12. Executes(g, Push(reg), t, u)
  <2> DEFINE j == Assembled(Push(reg), g)
  <2>1. j.op = "push" /\ j.dst = reg /\ j.src = "" /\ j.n = 0 /\ 0 \in Word16
    <3>1. Is(j, "push", reg, "", 0) /\ 0 \in Word16
      BY InsIs DEF Push
    <3> QED
      BY <3>1 DEF Is
  <2> HIDE DEF j
  <2>2. IsInstruction(j) /\ Allowed(t, j) /\ j.op \in StraightOps
    BY <1>3, <2>1 DEF IsInstruction, Allowed, StraightOps
  <2>3. After(t, j) = u
    BY <2>1 DEF After, n, u
  <2> QED
    BY <2>2, <2>3 DEF Executes, j
<1> QED
  BY <1>2, <1>4, <1>8, <1>9, <1>10, <1>11, <1>12 DEF Layer, reg

(* Some code pushes the five registers, and bp is where they are.          *)
LEMMA FiveLayers ==
  ASSUME NEW g, NEW s, HasRoom(s, 10), NEW c, \A i \in 1 .. 5 : c[i] = Push(Saved[i])
  PROVE  \E t : Steps(g, c, 5, s, t) /\ Layer(s, t, 5)
<1> DEFINE T == {n \in Nat : n \in 0 .. 5 /\ ~\E t : Steps(g, c, n, s, t) /\ Layer(s, t, n)}
<1>1. SUFFICES ASSUME T # {} PROVE FALSE
  OBVIOUS
<1>2. PICK n \in T : \A j \in T : n <= j
  BY <1>1, LeastNat
<1>3. n \in 0 .. 5 /\ ~\E t : Steps(g, c, n, s, t) /\ Layer(s, t, n)
  OBVIOUS
<1>4. n # 0
  <2>1. SUFFICES ASSUME n = 0 PROVE FALSE
    OBVIOUS
  <2>2. IsState(s) /\ s.regs["sp"] \in Int /\ s.regs \in [Registers -> Word16]
    BY StateIs, WordsAreNumbers DEF HasRoom
  <2>3. PICK sp \in Int : sp = s.regs["sp"]
    BY <2>2
  <2>4. sp - 2 * 0 = sp
    OBVIOUS
  <2>5. s.regs = [s.regs EXCEPT !["sp"] = s.regs["sp"] - 2 * 0]
    BY <2>2, <2>3, <2>4
  <2>6. Holds(s.mem, s.mem) /\ OnStack(s, s.mem, 0)
    BY DEF Holds, OnStack
  <2>7. Layer(s, s, 0)
    BY <2>2, <2>5, <2>6 DEF Layer
  <2> QED
    BY <1>3, <2>1, <2>7, StepsNone
<1>5. PICK k \in 0 .. 4 : n = k + 1
  <2>1. n - 1 \in 0 .. 4 /\ n = n - 1 + 1
    BY <1>3, <1>4
  <2> QED
    BY <2>1
<1>6. PICK t : Steps(g, c, k, s, t) /\ Layer(s, t, k)
  <2>1. k \in Nat /\ k \in 0 .. 5 /\ ~(n <= k)
    BY <1>5
  <2> QED
    BY <1>2, <2>1
<1>7. PICK u : Layer(s, u, k + 1) /\ Executes(g, Push(Saved[k + 1]), t, u)
  BY <1>6, LayerNext
<1>8. Steps(g, c, k + 1, s, u)
  <2>1. k \in Nat /\ k + 1 \in 1 .. 5
    OBVIOUS
  <2>2. Executes(g, c[k + 1], t, u)
    BY <1>7, <2>1
  <2> QED
    BY <1>6, <2>1, <2>2, StepsMore
<1> QED
  BY <1>3, <1>5, <1>7, <1>8

(* The function of u has been entered from s: what it has to keep is on    *)
(* the stack at bp, and sp is at most there.                               *)
Framed(s, u) ==
  /\ IsState(u) /\ OnStack(s, u.mem, 5)
  /\ u.regs["bp"] = s.regs["sp"] - 10 /\ u.regs["sp"] <= u.regs["bp"]

LEMMA PreambleIs ==
  ASSUME NEW g, NEW s, HasRoom(s, 10)
  PROVE  \E t : /\ Does(g, Preamble, s, t) /\ Framed(s, t)
                /\ t.cf = s.cf /\ Holds(t.mem, s.mem)
                /\ \A r \in Registers \ {"sp", "bp"} : t.regs[r] = s.regs[r]
<1> DEFINE c == [i \in 1 .. 5 |-> Push(Saved[i])]
           d == <<Ins("mov", "bp", "sp")>>
           S == {Push(Saved[i]) : i \in 1 .. 5}
<1>1. Preamble = c \o d
  BY DEF Preamble
<1>2. IsCode(c) /\ Len(c) = 5 /\ \A i \in 1 .. 5 : c[i] = Push(Saved[i])
  <2>1. c \in [1 .. 5 -> S] /\ 5 \in Nat
    OBVIOUS
  <2> HIDE DEF S
  <2>2. c \in Seq(S) /\ Len(c) = 5
    <3> HIDE DEF c
    <3>1. c \in Seq(S) /\ DOMAIN c = 1 .. 5
      BY <2>1, SeqDef
    <3>2. Len(c) \in Nat /\ DOMAIN c = 1 .. Len(c)
      BY <3>1, LenProperties
    <3> QED
      BY <3>1, <3>2
  <2> QED
    BY <2>2 DEF IsCode
<1> HIDE DEF c
<1>3. PICK t : Steps(g, c, 5, s, t) /\ Layer(s, t, 5)
  BY <1>2, FiveLayers
<1>4. Does(g, c, s, t)
  BY <1>2, <1>3 DEF Steps, Does
<1>5. /\ IsState(s) /\ s.regs["sp"] \in Int /\ s.regs \in [Registers -> Word16]
      /\ "sp" \in Registers /\ "bp" \in Plain /\ "bp" \in Registers
  BY StateIs, WordsAreNumbers, RegistersAre DEF HasRoom
<1>6. PICK sp \in Int : sp = s.regs["sp"]
  BY <1>5
<1>7. /\ IsState(t) /\ t.cf = s.cf /\ Holds(t.mem, s.mem) /\ OnStack(s, t.mem, 5)
      /\ t.regs = [s.regs EXCEPT !["sp"] = sp - 10]
  <2>1. sp - 2 * 5 = sp - 10
    OBVIOUS
  <2> QED
    BY <1>3, <1>6, <2>1 DEF Layer
<1>8. t.regs["sp"] = sp - 10 /\ \A r \in Registers \ {"sp"} : t.regs[r] = s.regs[r]
  BY <1>5, <1>7
<1>9. IsCode(d) /\ Gets(g, d, t, "bp", t.regs["sp"], {"bp"})
  BY <1>5, <1>7, MovedIs
<1>10. PICK u : Does(g, d, t, u) /\ Keeps(t, u, {"bp"}) /\ u.regs["bp"] = t.regs["sp"]
  BY <1>9 DEF Gets
<1> HIDE DEF d
<1>11. Does(g, Preamble, s, u)
  BY <1>1, <1>2, <1>4, <1>9, <1>10, DoesBoth
<1>12. /\ IsState(u) /\ u.cf = s.cf /\ u.mem = t.mem /\ u.regs["sp"] = sp - 10
       /\ \A r \in Registers \ {"sp", "bp"} : u.regs[r] = s.regs[r]
  BY <1>5, <1>7, <1>8, <1>10 DEF Keeps
<1>13. Framed(s, u)
  BY <1>6, <1>7, <1>8, <1>10, <1>12 DEF Framed
<1> QED
  BY <1>7, <1>11, <1>12, <1>13

(* The memory when sp has moved up to n.                                   *)
Rest(m, n) == [a \in {d \in DOMAIN m : ~InStack(d) \/ d >= n} |-> m[a]]

LEMMA LetGo ==
  ASSUME NEW m, IsMemory(m), NEW old \in Word16, StackFrom(m, old), NEW n \in Word16, old <= n
  PROVE  WithSp(m, n) = Rest(m, n)
<1> DEFINE top == StackTop + CallerSize - 1
           D == {d \in DOMAIN m : ~InStack(d) \/ d >= n}
<1>1. n .. top \subseteq D
  <2>1. SUFFICES ASSUME NEW d \in n .. top PROVE d \in D
    OBVIOUS
  <2>2. d \in old .. top
    <3>1. old \in Int /\ n \in Int /\ top \in Int
      BY WordsAreNumbers, MachineAssumption
    <3> QED
      BY <3>1
  <2>3. d \in DOMAIN m
    BY <2>2 DEF StackFrom
  <2>4. d >= n
    <3>1. n \in Int /\ top \in Int
      BY WordsAreNumbers, MachineAssumption
    <3> QED
      BY <3>1
  <2> QED
    BY <2>3, <2>4
<1>2. D \cup n .. top = D
  BY <1>1
<1>3. WithSp(m, n) = [a \in D |-> IF a \in DOMAIN m THEN m[a] ELSE Junk]
  BY <1>2 DEF WithSp
<1> QED
  BY <1>3 DEF Rest

LEMMA RestIs ==
  ASSUME NEW m, NEW a, NEW n
  PROVE  /\ \A d : d \in DOMAIN Rest(m, n) <=> d \in DOMAIN m /\ (~InStack(d) \/ d >= n)
         /\ \A d \in DOMAIN Rest(m, n) : Rest(m, n)[d] = m[d]
BY DEF Rest

LEMMA RestOfRest ==
  ASSUME NEW m, IsMemory(m), NEW k \in Word16, NEW n \in Word16, k <= n
  PROVE  Rest(Rest(m, k), n) = Rest(m, n)
<1> DEFINE D == {d \in DOMAIN Rest(m, k) : ~InStack(d) \/ d >= n}
           E == {d \in DOMAIN m : ~InStack(d) \/ d >= n}
<1>1. k \in Int /\ n \in Int /\ \A d \in DOMAIN m : d \in Int
  BY WordsAreNumbers DEF IsMemory
<1>2. \A d \in DOMAIN m : d >= n => d >= k
  BY <1>1
<1>3. D = E
  BY <1>2, RestIs
<1>4. \A d \in E : Rest(m, k)[d] = m[d]
  BY <1>3, RestIs
<1> QED
  BY <1>3, <1>4 DEF Rest

(* On the way back from u, k of the registers have been popped.            *)
Unlayer(s, u, q, k) ==
  /\ IsState(q) /\ q.cf = u.cf /\ q.mem = Rest(u.mem, s.regs["sp"] - 10 + 2 * k)
  /\ q.regs["sp"] = s.regs["sp"] - 10 + 2 * k
  /\ \A i \in 1 .. 5 : i > 5 - k => q.regs[Saved[i]] = s.regs[Saved[i]]
  /\ \A r \in Registers \ (Kept \cup {"sp"}) : q.regs[r] = u.regs[r]

LEMMA UnlayerNext ==
  ASSUME NEW g, NEW s, HasRoom(s, 10), NEW u, Framed(s, u),
         NEW k \in 0 .. 4, NEW q, Unlayer(s, u, q, k)
  PROVE  \E p : Unlayer(s, u, p, k + 1) /\ Executes(g, Pop(Saved[5 - k]), q, p)
<1> DEFINE reg == Saved[5 - k]
           p == Popped(q, reg)
           m == u.mem
<1>1. s.regs["sp"] \in Int /\ 10 <= s.regs["sp"] /\ s.regs["sp"] <= StackTop + CallerSize
  BY StateIs, WordsAreNumbers DEF HasRoom
<1>2. PICK sp \in Int : sp = s.regs["sp"]
  BY <1>1
<1>3. PICK a \in Int : a = sp - 10 + 2 * k
  OBVIOUS
<1>4. /\ a \in Word16 /\ a + 1 \in Word16 /\ a + 2 \in Word16 /\ a <= a + 2 /\ a + 1 >= a
      /\ Wrap(a + 1) = a + 1 /\ Wrap(a + 2) = a + 2 /\ a >= a
      /\ a = sp - 2 * (5 - k) /\ a + 2 = sp - 10 + 2 * (k + 1)
  <2>1. /\ 0 <= a /\ a + 2 <= 65535 /\ 0 <= a + 1 /\ a + 1 <= 65535 /\ 0 <= a + 2 /\ a <= 65535
        /\ a = sp - 2 * (5 - k) /\ a + 2 = sp - 10 + 2 * (k + 1)
    BY <1>1, <1>2, <1>3, MachineAssumption
  <2>2. a \in Word16 /\ a + 1 \in Word16 /\ a + 2 \in Word16
    BY <2>1, WordIs
  <2> QED
    BY <2>1, <2>2, WrapOfWord
<1>5. reg \in Plain /\ reg \in Registers \ {"sp"} /\ reg \in Kept /\ 5 - k \in 1 .. 5
  <2>1. 5 - k \in 1 .. 5
    OBVIOUS
  <2> QED
    BY <2>1, SavedAre DEF Plain
<1>6. /\ IsState(q) /\ q.cf = u.cf /\ q.mem = Rest(m, a) /\ q.regs["sp"] = a
      /\ \A i \in 1 .. 5 : i > 5 - k => q.regs[Saved[i]] = s.regs[Saved[i]]
      /\ \A r \in Registers \ (Kept \cup {"sp"}) : q.regs[r] = u.regs[r]
  BY <1>2, <1>3 DEF Unlayer
<1>7. IsMemory(m) /\ InUse(m, a) /\ GetMem(m, a) = s.regs[reg]
  <2>1. IsState(u) /\ OnStack(s, m, 5)
    BY DEF Framed
  <2> QED
    BY <1>2, <1>4, <1>5, <2>1, StateIs DEF OnStack
<1> HIDE DEF m
<1>8. InUse(q.mem, a) /\ GetMem(q.mem, a) = s.regs[reg]
  <2>1. a \in DOMAIN m /\ a + 1 \in DOMAIN m /\ GetMem(m, a) = m[a] + 256 * m[a + 1]
    BY <1>4, <1>7 DEF InUse, GetMem
  <2>2. a \in DOMAIN Rest(m, a) /\ a + 1 \in DOMAIN Rest(m, a)
    BY <1>4, <2>1, RestIs
  <2>3. Rest(m, a)[a] = m[a] /\ Rest(m, a)[a + 1] = m[a + 1]
    BY <2>2, RestIs
  <2> QED
    BY <1>4, <1>6, <1>7, <2>1, <2>2, <2>3 DEF InUse, GetMem
<1> HIDE DEF reg, p
<1>9. /\ IsState(p) /\ p.regs = [q.regs EXCEPT !["sp"] = a + 2, ![reg] = s.regs[reg]]
      /\ p.cf = q.cf /\ p.mem = WithSp(q.mem, a + 2)
  BY <1>4, <1>5, <1>6, <1>8, PoppedIs DEF p
<1>10. p.mem = Rest(m, a + 2)
  <2>1. IsMemory(q.mem) /\ StackFrom(q.mem, a)
    BY <1>6, StateIs
  <2>2. WithSp(q.mem, a + 2) = Rest(q.mem, a + 2)
    BY <1>4, <2>1, LetGo
  <2>3. Rest(Rest(m, a), a + 2) = Rest(m, a + 2)
    BY <1>4, <1>7, RestOfRest
  <2> QED
    BY <1>6, <1>9, <2>2, <2>3
<1>11. /\ p.regs["sp"] = a + 2 /\ p.regs[reg] = s.regs[reg]
       /\ \A r \in Registers \ {"sp", reg} : p.regs[r] = q.regs[r]
  <2>1. q.regs \in [Registers -> Word16] /\ "sp" \in Registers
    BY <1>6, StateIs
  <2> QED
    BY <1>5, <1>9, <2>1
<1>12. ASSUME NEW i \in 1 .. 5, i > 5 - (k + 1)
       PROVE  p.regs[Saved[i]] = s.regs[Saved[i]]
  <2>1. CASE i = 5 - k
    BY <1>11, <2>1 DEF reg
  <2>2. CASE i # 5 - k
    <3>1. i > 5 - k
      BY <1>12, <2>2
    <3>2. Saved[i] \in Registers \ {"sp", reg}
      BY <1>5, <2>2, SavedAre DEF Plain, reg
    <3> QED
      BY <1>6, <1>11, <3>1, <3>2
  <2> QED
    BY <2>1, <2>2
<1>13. ASSUME NEW r \in Registers \ (Kept \cup {"sp"}) PROVE p.regs[r] = u.regs[r]
  BY <1>5, <1>6, <1>11
<1>14. Executes(g, Pop(reg), q, p)
  <2> DEFINE j == Assembled(Pop(reg), g)
  <2>1. j.op = "pop" /\ j.dst = reg /\ j.src = "" /\ j.n = 0 /\ 0 \in Word16
    <3>1. Is(j, "pop", reg, "", 0) /\ 0 \in Word16
      BY InsIs DEF Pop
    <3> QED
      BY <3>1 DEF Is
  <2> HIDE DEF j
  <2>2. IsInstruction(j) /\ Allowed(q, j) /\ j.op \in StraightOps
    BY <1>5, <1>6, <1>8, <2>1 DEF IsInstruction, Allowed, StraightOps
  <2>3. After(q, j) = p
    BY <2>1 DEF After, p
  <2> QED
    BY <2>2, <2>3 DEF Executes, j
<1>15. Unlayer(s, u, p, k + 1)
  BY <1>2, <1>4, <1>6, <1>9, <1>10, <1>11, <1>12, <1>13 DEF Unlayer, m
<1> QED
  BY <1>14, <1>15 DEF reg

(* sp moves to bp.                                                         *)
LEMMA FrameGone ==
  ASSUME NEW g, NEW s, HasRoom(s, 10), NEW u, Framed(s, u)
  PROVE  \E q : Unlayer(s, u, q, 0) /\ Does(g, <<Ins("mov", "sp", "bp")>>, u, q)
<1> DEFINE bp == u.regs["bp"]
           q == SetReg(u, "sp", bp)
           j == Assembled(Ins("mov", "sp", "bp"), g)
<1>1. /\ IsState(u) /\ bp = s.regs["sp"] - 10 /\ u.regs["sp"] <= bp
      /\ bp \in Word16 /\ u.regs["sp"] \in Word16 /\ IsMemory(u.mem)
      /\ StackFrom(u.mem, u.regs["sp"]) /\ {"sp", "bp"} \subseteq Registers
      /\ u.regs \in [Registers -> Word16]
  BY StateIs DEF Framed
<1>2. bp \in Int /\ Wrap(bp) = bp
  BY <1>1, WordsAreNumbers, WrapOfWord
<1>3. PICK b \in Int : b = bp /\ b + 2 * 0 = b
  BY <1>2
<1> HIDE DEF bp
<1>4. /\ IsState(q) /\ q.regs = [u.regs EXCEPT !["sp"] = bp] /\ q.cf = u.cf
      /\ q.mem = WithSp(u.mem, bp)
  BY <1>1, <1>2, SetRegIs
<1>5. WithSp(u.mem, bp) = Rest(u.mem, bp)
  BY <1>1, LetGo
<1>6. j.op = "mov" /\ j.dst = "sp" /\ j.src = "bp" /\ j.n = 0 /\ 0 \in Word16
  BY InsIs DEF Is
<1> HIDE DEF j, q
<1>7. IsInstruction(j) /\ Allowed(u, j) /\ j.op \in StraightOps
  BY <1>1, <1>6 DEF IsInstruction, Allowed, StraightOps
<1>8. After(u, j) = q
  BY <1>6 DEF After, Operand, q, bp
<1>9. Executes(g, Ins("mov", "sp", "bp"), u, q)
  BY <1>7, <1>8 DEF Executes, j
<1>10. Does(g, <<Ins("mov", "sp", "bp")>>, u, q)
  BY <1>9, DoesOne
<1>11. q.regs["sp"] = bp /\ \A r \in Registers \ {"sp"} : q.regs[r] = u.regs[r]
  BY <1>1, <1>4
<1>12. s.regs["sp"] - 10 + 2 * 0 = bp
  BY <1>1, <1>3
<1>13. \A i \in 1 .. 5 : ~(i > 5 - 0)
  OBVIOUS
<1>14. Unlayer(s, u, q, 0)
  BY <1>4, <1>5, <1>11, <1>12, <1>13 DEF Unlayer
<1> QED
  BY <1>10, <1>14

LEMMA FiveBack ==
  ASSUME NEW g, NEW s, HasRoom(s, 10), NEW u, Framed(s, u),
         NEW c, \A i \in 1 .. 5 : c[i] = Pop(Saved[6 - i]), NEW v, Unlayer(s, u, v, 0)
  PROVE  \E q : Steps(g, c, 5, v, q) /\ Unlayer(s, u, q, 5)
<1> DEFINE T == {n \in Nat : n \in 0 .. 5 /\ ~\E q : Steps(g, c, n, v, q) /\ Unlayer(s, u, q, n)}
<1>1. SUFFICES ASSUME T # {} PROVE FALSE
  OBVIOUS
<1>2. PICK n \in T : \A j \in T : n <= j
  BY <1>1, LeastNat
<1>3. n \in 0 .. 5 /\ ~\E q : Steps(g, c, n, v, q) /\ Unlayer(s, u, q, n)
  OBVIOUS
<1>4. n # 0
  BY <1>3, StepsNone
<1>5. PICK k \in 0 .. 4 : n = k + 1
  <2>1. n - 1 \in 0 .. 4 /\ n = n - 1 + 1
    BY <1>3, <1>4
  <2> QED
    BY <2>1
<1>6. PICK t : Steps(g, c, k, v, t) /\ Unlayer(s, u, t, k)
  <2>1. k \in Nat /\ k \in 0 .. 5 /\ ~(n <= k)
    BY <1>5
  <2> QED
    BY <1>2, <2>1
<1>7. PICK q : Unlayer(s, u, q, k + 1) /\ Executes(g, Pop(Saved[5 - k]), t, q)
  BY <1>6, UnlayerNext
<1>8. Steps(g, c, k + 1, v, q)
  <2>1. k \in Nat /\ k + 1 \in 1 .. 5 /\ 6 - (k + 1) = 5 - k
    OBVIOUS
  <2>2. Executes(g, c[k + 1], t, q)
    BY <1>7, <2>1
  <2> QED
    BY <1>6, <2>1, <2>2, StepsMore
<1> QED
  BY <1>3, <1>5, <1>7, <1>8

(* In q, the caller has back what it had in s.                             *)
Restored(s, u, q) ==
  /\ \A r \in Kept \cup {"sp"} : q.regs[r] = s.regs[r]
  /\ \A r \in Registers \ (Kept \cup {"sp"}) : q.regs[r] = u.regs[r]
  /\ q.mem = Rest(u.mem, s.regs["sp"]) /\ q.cf = u.cf

LEMMA EpilogueIs ==
  ASSUME NEW g, NEW s, HasRoom(s, 10), NEW u, Framed(s, u)
  PROVE  \E q : Does(g, Epilogue, u, q) /\ Restored(s, u, q)
<1> DEFINE c == [i \in 1 .. 5 |-> Pop(Saved[6 - i])]
           d == <<Ins("mov", "sp", "bp")>>
           S == {Pop(Saved[6 - i]) : i \in 1 .. 5}
<1>1. Epilogue = d \o c
  BY DEF Epilogue
<1>2. IsCode(c) /\ Len(c) = 5 /\ \A i \in 1 .. 5 : c[i] = Pop(Saved[6 - i])
  <2>1. c \in [1 .. 5 -> S] /\ 5 \in Nat
    OBVIOUS
  <2> HIDE DEF S
  <2>2. c \in Seq(S) /\ Len(c) = 5
    <3> HIDE DEF c
    <3>1. c \in Seq(S) /\ DOMAIN c = 1 .. 5
      BY <2>1, SeqDef
    <3>2. Len(c) \in Nat /\ DOMAIN c = 1 .. Len(c)
      BY <3>1, LenProperties
    <3> QED
      BY <3>1, <3>2
  <2> QED
    BY <2>2 DEF IsCode
<1>3. IsCode(d)
  BY FewIs
<1> HIDE DEF c
<1>4. PICK v : Unlayer(s, u, v, 0) /\ Does(g, d, u, v)
  BY FrameGone
<1>5. PICK q : Steps(g, c, 5, v, q) /\ Unlayer(s, u, q, 5)
  BY <1>2, <1>4, FiveBack
<1> HIDE DEF d
<1>6. Does(g, Epilogue, u, q)
  <2>1. Does(g, c, v, q)
    BY <1>2, <1>5 DEF Steps, Does
  <2> QED
    BY <1>1, <1>2, <1>3, <1>4, <2>1, DoesBoth
<1>7. Restored(s, u, q)
  <2>1. PICK sp \in Int : sp = s.regs["sp"]
    BY StateIs, WordsAreNumbers DEF HasRoom
  <2>2. sp - 10 + 2 * 5 = sp
    OBVIOUS
  <2>3. \A i \in 1 .. 5 : i > 5 - 5
    OBVIOUS
  <2>4. /\ q.cf = u.cf /\ q.mem = Rest(u.mem, sp) /\ q.regs["sp"] = sp
        /\ \A i \in 1 .. 5 : q.regs[Saved[i]] = s.regs[Saved[i]]
        /\ \A r \in Registers \ (Kept \cup {"sp"}) : q.regs[r] = u.regs[r]
    BY <1>5, <2>1, <2>2, <2>3 DEF Unlayer
  <2>5. \A r \in Kept : q.regs[r] = s.regs[r]
    BY <2>4, SavedAre
  <2> QED
    BY <2>1, <2>4, <2>5 DEF Restored
<1> QED
  BY <1>6, <1>7

(* The epilogue of a function gives back what its preamble saved, wherever *)
(* sp is in between, if the function has left the saved words alone: sp,   *)
(* bp and r4 to r7 are as they were, the other registers and the memory    *)
(* above the frame as the function left them (emit_func_preamble,          *)
(* emit_func_epilogue).                                                    *)
THEOREM FrameRestored ==
  ASSUME NEW g, NEW s, HasRoom(s, 10)
  PROVE  /\ \E t : /\ Does(g, Preamble, s, t) /\ Framed(s, t)
                   /\ t.cf = s.cf /\ Holds(t.mem, s.mem)
                   /\ \A r \in Registers \ {"sp", "bp"} : t.regs[r] = s.regs[r]
         /\ \A u : Framed(s, u) =>
              \E q : Does(g, Epilogue, u, q) /\ Restored(s, u, q)
BY PreambleIs, EpilogueIs

-----------------------------------------------------------------------------
(* A comparison of a register with a number and with a register.           *)
LEMMA ComparedIs ==
  ASSUME NEW g, NEW s, IsState(s), NEW i, NEW n \in Word16,
         \/ i = Imm("cmp", "r5", n)
         \/ i = Ins("cmp", "r5", "r6") /\ s.regs["r6"] = n
  PROVE  IsCode(<<i>>) /\ Does(g, <<i>>, s, Flagged(s, s.regs["r5"] = n))
<1> DEFINE j == Assembled(i, g)
<1>1. /\ j.op = "cmp" /\ j.dst = "r5" /\ j.n \in Word16 /\ j.src \in {"", "r6"}
      /\ IF j.src = "" THEN j.n = n ELSE s.regs["r6"] = n
  <2>1. CASE i = Imm("cmp", "r5", n)
    <3>1. Is(j, "cmp", "r5", "", n)
      BY <2>1, ImmIs
    <3> QED
      BY <3>1 DEF Is
  <2>2. CASE i = Ins("cmp", "r5", "r6") /\ s.regs["r6"] = n
    <3>1. Is(j, "cmp", "r5", "r6", 0) /\ 0 \in Word16
      BY <2>2, InsIs
    <3> QED
      BY <2>2, <3>1 DEF Is
  <2> QED
    BY <2>1, <2>2
<1> HIDE DEF j
<1>2. "r5" \in Registers /\ "r6" \in Registers
  BY RegistersAre
<1>3. IsInstruction(j) /\ Allowed(s, j) /\ j.op \in StraightOps
  BY <1>1, <1>2 DEF IsInstruction, Allowed, StraightOps
<1>4. Operand(s, j) = n
  BY <1>1 DEF Operand
<1>5. After(s, j) = Flagged(s, s.regs["r5"] = n)
  BY <1>1, <1>4 DEF After
<1>6. Executes(g, i, s, Flagged(s, s.regs["r5"] = n))
  BY <1>3, <1>5 DEF Executes, j
<1> QED
  BY <1>6, DoesOne, FewIs

(* A comparison compares what its sides mean: afterwards the flag says if  *)
(* they are equal, and the memory and all registers but r4, r5 and r6 are  *)
(* as they were; that holds of a literal on the right, too, which is       *)
(* compared without a register (emit_cmp).                                 *)
THEOREM ComparisonDone ==
  ASSUME NEW x, NEW vs, Len(vs) \in Nat, Sound(x, vs),
         NEW left \in 1 .. Len(vs), NEW right \in 1 .. Len(vs),
         NEW room \in Nat, 2 * left <= room, 2 * right <= room, NEW s, Fits(x, s, room)
  PROVE  \E t : /\ Does(x.g, EmitCmp(x.e, vs, Codes(x.e, vs), left, right), s,
                        Flagged(t, Meaning(x, vs)[left] = Meaning(x, vs)[right]))
                /\ Keeps(s, t, {"r4", "r5", "r6"})
<1> DEFINE w == Meaning(x, vs)
           codes == Codes(x.e, vs)
           n == w[left]
           m == w[right]
           a == codes[left]["r5"]
           R == {"r4", "r5", "r6"}
           cmp == EmitCmp(x.e, vs, codes, left, right)
<1>1. Right(x, vs, left) /\ Right(x, vs, right)
  BY AllRight
<1>2. 2 * left \in Nat /\ 2 * right \in Nat
  OBVIOUS
<1>3. /\ "r5" \in General /\ "r6" \in General /\ "r6" \in Registers /\ R \subseteq General
      /\ "r4" \in General /\ "r5" \in Registers
  BY RegistersAre
<1>4. IsCode(a) /\ Gets(x.g, a, s, "r5", n, R)
  <2>1. Fits(x, s, 2 * left) /\ Computable(x.e, vs, vs[left], "r5")
    BY <1>2, FitsLess DEF Computable
  <2>2. IsCode(a) /\ Gets(x.g, a, s, "r5", n, {"r5", "r4", "r6"})
    BY <1>1, <1>3, <2>1 DEF Right, Touched
  <2>3. {"r5", "r4", "r6"} = R
    OBVIOUS
  <2> QED
    BY <2>2, <2>3
<1> HIDE DEF a, codes, w, n, m
<1>5. PICK t : Reaches(x.g, a, s, t, R) /\ t.regs["r5"] = n
  BY <1>4, GetsIs
<1>6. Fits(x, t, room) /\ IsState(t) /\ Keeps(s, t, R)
  <2> HIDE DEF R
  <2>1. Keeps(s, t, R)
    BY <1>5 DEF Reaches
  <2> QED
    BY <1>3, <2>1, FitsKept DEF Keeps
<1>7. CASE x.e.options.cmp /\ vs[right].type = "IMMEDIATE"
  <2> DEFINE i == Imm("cmp", "r5", vs[right].imm)
  <2>1. cmp = a \o <<i>>
    BY <1>7 DEF EmitCmp, a
  <2>2. vs[right].imm \in Word16 /\ m = vs[right].imm
    <3>1. Ordered(vs) /\ SoundAt(x, vs, vs[right], w)
      BY DEF Sound, w
    <3>2. m = Worth(x, vs, vs[right], w)
      BY <3>1, MeaningIs DEF m, w
    <3> QED
      BY <1>7, <3>1, <3>2 DEF SoundAt, Worth
  <2>3. IsCode(<<i>>) /\ Does(x.g, <<i>>, t, Flagged(t, n = m))
    <3>1. i = Imm("cmp", "r5", m)
      BY <2>2
    <3> HIDE DEF i
    <3> QED
      BY <1>5, <1>6, <2>2, <3>1, ComparedIs
  <2> HIDE DEF i
  <2>4. Does(x.g, a \o <<i>>, s, Flagged(t, n = m))
    BY <1>4, <1>5, <2>3, DoesBoth DEF Reaches
  <2> QED
    BY <1>6, <2>1, <2>4 DEF n, m, w, codes
<1>8. CASE ~(x.e.options.cmp /\ vs[right].type = "IMMEDIATE")
  <2> DEFINE b == codes[right]["r6"]
             i == Ins("cmp", "r5", "r6")
  <2>1. cmp = a \o (b \o <<i>>)
    BY <1>8 DEF EmitCmp, a
  <2>2. IsCode(b) /\ Gets(x.g, b, t, "r6", m, {"r4", "r6"})
    <3>1. Fits(x, t, 2 * right) /\ Computable(x.e, vs, vs[right], "r6")
      BY <1>2, <1>6, FitsLess DEF Computable
    <3>2. IsCode(b) /\ Gets(x.g, b, t, "r6", m, {"r6", "r4", "r6"})
      BY <1>1, <1>3, <3>1 DEF Right, Touched, codes, m, w
    <3>3. {"r6", "r4", "r6"} = {"r4", "r6"}
      OBVIOUS
    <3> QED
      BY <3>2, <3>3
  <2> HIDE DEF b
  <2>3. PICK u : Reaches(x.g, b, t, u, {"r4", "r6"}) /\ u.regs["r6"] = m
    BY <2>2, GetsIs
  <2>4. Keeps(t, u, {"r4", "r6"}) /\ IsState(u)
    BY <2>3 DEF Reaches, Keeps
  <2>5. m \in Word16 /\ u.regs["r5"] = n
    BY <1>3, <1>5, <2>3, <2>4, GotWord DEF Keeps
  <2>6. IsCode(<<i>>) /\ Does(x.g, <<i>>, u, Flagged(u, n = m))
    <3> HIDE DEF i
    <3>1. i = Ins("cmp", "r5", "r6")
      BY DEF i
    <3> QED
      BY <2>3, <2>4, <2>5, <3>1, ComparedIs
  <2> HIDE DEF i
  <2>7. IsCode(b \o <<i>>) /\ Does(x.g, b \o <<i>>, t, Flagged(u, n = m))
    BY <2>2, <2>3, <2>6, DoesBoth, BothIs DEF Reaches
  <2>8. Does(x.g, a \o (b \o <<i>>), s, Flagged(u, n = m))
    BY <1>4, <1>5, <2>7, DoesBoth DEF Reaches
  <2>9. Keeps(s, u, R)
    <3>1. {"r4", "r6"} \subseteq R
      OBVIOUS
    <3> HIDE DEF R
    <3> QED
      BY <1>6, <2>4, <3>1, KeepsMore
  <2> QED
    BY <2>1, <2>8, <2>9 DEF n, m, w, codes
<1> QED
  BY <1>7, <1>8

-----------------------------------------------------------------------------
LEMMA WrapSum ==
  \A a, b \in Int : /\ Wrap(a + Wrap(b)) = Wrap(a + b) /\ Wrap(Wrap(a) + b) = Wrap(a + b)
                    /\ Wrap(Wrap(a) - b) = Wrap(a - b) /\ Wrap(a) \in Int
BY DEF Wrap

(* A word n has been written to a, and nothing but the registers R and     *)
(* that word has changed.                                                  *)
Written(s, t, a, n, R) ==
  /\ IsState(t) /\ t.cf = s.cf /\ t.mem = PutMem(s.mem, a, n)
  /\ \A r \in Registers \ R : t.regs[r] = s.regs[r]

(* What code that writes does.                                             *)
Wrote(g, c, s, a, n, R) ==
  IsCode(c) /\ \E u : Does(g, c, s, u) /\ Written(s, u, a, n, R)

(* Code that computes an address, before the write to it.                  *)
LEMMA WriteIs ==
  ASSUME NEW g, NEW c, NEW s, NEW t, NEW R, Reaches(g, c, s, t, R),
         NEW result \in General, NEW scratch \in General,
         InUse(s.mem, t.regs[scratch])
  PROVE  Wrote(g, c \o Write(result, scratch), s, t.regs[scratch], t.regs[result], R)
<1> DEFINE j == Assembled(Ins("store", result, scratch), g)
           u == Stored(t, j)
           d == Write(result, scratch)
<1>1. /\ IsState(t) /\ t.mem = s.mem /\ t.cf = s.cf /\ IsCode(c) /\ Does(g, c, s, t)
      /\ \A r \in Registers \ R : t.regs[r] = s.regs[r]
  BY DEF Reaches, Keeps
<1>2. j.op = "store" /\ j.dst = result /\ j.src = scratch /\ j.n = 0 /\ 0 \in Word16
  BY InsIs DEF Is
<1>3. result \in Registers /\ scratch \in Registers
  BY RegistersAre
<1> HIDE DEF j
<1>4. /\ IsState(u) /\ u.regs = t.regs /\ u.cf = t.cf
      /\ u.mem = PutMem(t.mem, t.regs[scratch], t.regs[result])
  BY <1>1, <1>2, <1>3, StoredIs
<1>5. IsInstruction(j) /\ Allowed(t, j) /\ j.op \in StraightOps
  BY <1>1, <1>2, <1>3 DEF IsInstruction, Allowed, StraightOps
<1>6. After(t, j) = u
  BY <1>2 DEF After
<1> HIDE DEF u
<1>7. Executes(g, Ins("store", result, scratch), t, u)
  BY <1>5, <1>6 DEF Executes, j
<1>8. IsCode(d) /\ Does(g, d, t, u)
  BY <1>7, DoesOne, FewIs DEF Write
<1>9. Written(s, u, t.regs[scratch], t.regs[result], R)
  BY <1>1, <1>4 DEF Written
<1> HIDE DEF d
<1>10. IsCode(c \o d) /\ Does(g, c \o d, s, u)
  BY <1>1, <1>8, DoesBoth, BothIs
<1> QED
  BY <1>9, <1>10 DEF d, Wrote

(* The code c puts the address a into the register scratch.                *)
LEMMA WriteTo ==
  ASSUME NEW g, NEW c, NEW s, NEW R, NEW scratch \in General, NEW a,
         IsCode(c), Gets(g, c, s, scratch, a, R), InUse(s.mem, a),
         NEW result \in General \ R, NEW n, s.regs[result] = n
  PROVE  Wrote(g, c \o Write(result, scratch), s, a, n, R)
<1>1. PICK t : Reaches(g, c, s, t, R) /\ t.regs[scratch] = a
  BY GetsIs
<1>2. t.regs[result] = n
  BY <1>1, RegistersAre DEF Reaches, Keeps
<1> QED
  BY <1>1, <1>2, WriteIs

(* To a global or a local, without an index.                               *)
LEMMA PlainStore ==
  ASSUME NEW x, NEW s, Fits(x, s, 0), NEW b, NEW kind, NEW esize, NEW m, NEW codes,
         Writable(x, b, kind, esize, m), b.index = <<>>,
         NEW result \in General, result # "r4", NEW n, s.regs[result] = n
  PROVE  Wrote(x.g, RegisterInto(x.e, result, "r4", b, kind, esize, codes), s,
               Destination(x, b, kind, esize, m), n, {"r4"})
<1> DEFINE c == RegisterInto(x.e, result, "r4", b, kind, esize, codes)
           a == Destination(x, b, kind, esize, m)
           label == GlobalLabel(x.e.c, b.ref)
           at == x.e.off[b.ref.at] - b.offset
<1>1. IsState(s) /\ s.regs["bp"] = x.bp /\ Holds(s.mem, x.m)
  BY DEF Fits, HasRoom
<1>2. b.ref.at # 0 /\ InUse(x.m, a)
  BY DEF Writable
<1>3. InUse(s.mem, a)
  BY <1>1, <1>2, HoldsWord
<1>4. "r4" \in General /\ "r4" \in Plain /\ result \in General \ {"r4"}
  BY RegistersAre
<1>5. CASE b.ref.global
  <2> DEFINE d == <<To("mov", "r4", label)>>
  <2>1. c = d \o Write(result, "r4")
    BY <1>2, <1>5 DEF RegisterInto, IntoGlobal
  <2>2. a = x.g[label] /\ x.g[label] \in Word16
    BY <1>5 DEF Destination, Writable
  <2> HIDE DEF label, c, a
  <2>3. IsCode(d) /\ Gets(x.g, d, s, "r4", a, {"r4"})
    BY <1>1, <1>4, <2>2, LabelLoaded, DataLabels DEF label
  <2> HIDE DEF d
  <2> QED
    BY <1>3, <1>4, <2>1, <2>3, WriteTo DEF c, a
<1>6. CASE ~b.ref.global
  <2> DEFINE d == Frame("r4", at, 0)
  <2>1. c = d \o Write(result, "r4")
    BY <1>2, <1>6 DEF RegisterInto, IntoFrame
  <2>2. a = Wrap(x.bp - at) /\ at \in Word16
    BY <1>6 DEF Destination, Writable, Slot
  <2>3. at - 0 = at
    BY <2>2, NothingLess
  <2> HIDE DEF at, c, a
  <2>4. IsCode(d) /\ Gets(x.g, d, s, "r4", a, {"r4"})
    <3>1. at - 0 \in Word16 /\ Wrap(s.regs["bp"] - (at - 0)) = a
      BY <1>1, <2>2, <2>3
    <3> QED
      BY <1>1, <1>4, <3>1, FrameIs
  <2> HIDE DEF d
  <2> QED
    BY <1>3, <1>4, <2>1, <2>4, WriteTo DEF c, a
<1> QED
  BY <1>5, <1>6

LEMMA WroteAfter ==
  ASSUME NEW g, NEW c, NEW d, NEW s, NEW t, NEW a, NEW n, NEW R, NEW Q, NEW P,
         Reaches(g, c, s, t, R), Wrote(g, d, t, a, n, Q), R \subseteq P, Q \subseteq P
  PROVE  Wrote(g, c \o d, s, a, n, P)
<1>1. PICK u : Does(g, d, t, u) /\ Written(t, u, a, n, Q)
  BY DEF Wrote
<1>2. IsCode(c \o d) /\ Does(g, c \o d, s, u)
  BY <1>1, DoesBoth, BothIs DEF Wrote, Reaches
<1>3. Written(s, u, a, n, P)
  BY <1>1 DEF Written, Reaches, Keeps
<1> QED
  BY <1>2, <1>3 DEF Wrote

LEMMA GetsBoth ==
  ASSUME NEW g, NEW c, NEW d, NEW s, NEW t, NEW reg, NEW n, NEW R,
         Reaches(g, c, s, t, R), IsCode(d), Gets(g, d, t, reg, n, R)
  PROVE  \E u : Reaches(g, c \o d, s, u, R) /\ u.regs[reg] = n
<1>1. PICK u : Reaches(g, d, t, u, R) /\ u.regs[reg] = n
  BY GetsIs
<1> QED
  BY <1>1, ReachesBoth

(* From an index in r4 to an element of an array.                          *)
LEMMA ElementFound ==
  ASSUME NEW g, NEW s, IsState(s), NEW at \in Word16, NEW esize \in Word16, NEW n,
         s.regs["r4"] = n, NEW bp, s.regs["bp"] = bp
  PROVE  /\ IsCode(<<Imm("mul", "r4", esize), Ins("add", "r4", "bp"), Imm("sub", "r4", at)>>)
         /\ Gets(g, <<Imm("mul", "r4", esize), Ins("add", "r4", "bp"), Imm("sub", "r4", at)>>,
                 s, "r4", Wrap(Wrap(bp - at) + n * esize), {"r4"})
<1> DEFINE a == <<Imm("mul", "r4", esize)>>
           b == <<Ins("add", "r4", "bp")>>
           c == <<Imm("sub", "r4", at)>>
           k == n * esize
<1>1. "r4" \in Plain /\ "bp" \in Registers /\ "bp" \notin {"r4"} /\ "r4" \in General
  BY RegistersAre
<1>2. n \in Int /\ bp \in Int /\ at \in Int /\ esize \in Int
  BY <1>1, StateIs, WordsAreNumbers DEF Plain
<1>3. <<Imm("mul", "r4", esize), Ins("add", "r4", "bp"), Imm("sub", "r4", at)>> = a \o b \o c
  BY FewIs
<1>4. IsCode(a) /\ Gets(g, a, s, "r4", Wrap(k), {"r4"})
  <2>1. IsCode(a) /\ Gets(g, a, s, "r4", Wrap(Calc("mul", s.regs["r4"], esize)), {"r4"})
    BY <1>1, NumberIs
  <2>2. Calc("mul", s.regs["r4"], esize) = k
    BY DEF Calc
  <2> QED
    BY <2>1, <2>2
<1>5. k \in Int
  BY <1>2
<1> HIDE DEF a, b, k
<1>6. PICK t : Reaches(g, a, s, t, {"r4"}) /\ t.regs["r4"] = Wrap(k)
  BY <1>4, GetsIs
<1>7. IsState(t) /\ t.regs["bp"] = bp
  BY <1>1, <1>6 DEF Reaches, Keeps
<1>8. IsCode(b) /\ Gets(g, b, t, "r4", Wrap(k + bp), {"r4"})
  <2>1. IsCode(b) /\ Gets(g, b, t, "r4", Wrap(Calc("add", t.regs["r4"], t.regs["bp"])), {"r4"})
    BY <1>1, <1>7, RegisterIs DEF b
  <2>2. Calc("add", t.regs["r4"], t.regs["bp"]) = Wrap(k) + bp
    BY <1>6, <1>7 DEF Calc
  <2> QED
    BY <1>2, <1>5, <2>1, <2>2, WrapSum
<1>9. PICK u : Reaches(g, a \o b, s, u, {"r4"}) /\ u.regs["r4"] = Wrap(k + bp)
  BY <1>6, <1>8, GetsBoth
<1>10. IsState(u)
  BY <1>9 DEF Reaches, Keeps
<1>11. IsCode(c) /\ Gets(g, c, u, "r4", Wrap((k + bp) - at), {"r4"})
  <2>1. IsCode(c) /\ Gets(g, c, u, "r4", Wrap(Calc("sub", u.regs["r4"], at)), {"r4"})
    BY <1>1, <1>10, NumberIs
  <2>2. PICK j \in Int : j = k + bp
    BY <1>2, <1>5
  <2>3. Calc("sub", u.regs["r4"], at) = Wrap(j) - at
    BY <1>9, <2>2 DEF Calc
  <2>4. Wrap(Wrap(j) - at) = Wrap((k + bp) - at)
    <3>1. at \in Int /\ j \in Int
      BY <1>2
    <3>2. Wrap(Wrap(j) - at) = Wrap(j - at)
      BY <3>1, WrapSum
    <3> QED
      BY <2>2, <3>2
  <2> HIDE DEF c
  <2> QED
    BY <2>1, <2>3, <2>4
<1> HIDE DEF c
<1>12. Wrap((k + bp) - at) = Wrap(Wrap(bp - at) + k)
  <2>1. bp - at \in Int /\ (k + bp) - at = (bp - at) + k
    BY <1>2, <1>5
  <2> QED
    BY <1>5, <2>1, WrapSum
<1>13. IsCode(a \o b \o c) /\ Gets(g, a \o b \o c, s, "r4", Wrap(Wrap(bp - at) + k), {"r4"})
  BY <1>9, <1>11, <1>12, GetsThen, BothIs DEF Reaches
<1> QED
  BY <1>3, <1>13 DEF k

(* To an element of an array.                                              *)
LEMMA ArrayStore ==
  ASSUME NEW x, NEW s, NEW vs, NEW k \in Nat, Right(x, vs, k), Fits(x, s, 2 * k),
         Computable(x.e, vs, vs[k], "r4"), NEW b, NEW esize, NEW m, m = Meaning(x, vs)[k],
         Writable(x, b, "ARRAY", esize, m), b.index # <<>>, NEW n, s.regs["r5"] = n
  PROVE  Wrote(x.g, RegisterInto(x.e, "r5", "r4", b, "ARRAY", esize, Codes(x.e, vs)[k]), s,
               Destination(x, b, "ARRAY", esize, m), n, {"r4", "r6"})
<1> DEFINE c == RegisterInto(x.e, "r5", "r4", b, "ARRAY", esize, Codes(x.e, vs)[k])
           a == Destination(x, b, "ARRAY", esize, m)
           at == x.e.off[b.ref.at] - b.offset
           d == Codes(x.e, vs)[k]["r4"]
           f == <<Imm("mul", "r4", esize), Ins("add", "r4", "bp"), Imm("sub", "r4", at)>>
           h == f \o Write("r5", "r4")
<1>1. IsState(s) /\ s.regs["bp"] = x.bp /\ Holds(s.mem, x.m)
  BY DEF Fits, HasRoom
<1>2. /\ b.ref.at # 0 /\ ~b.ref.global /\ at \in Word16 /\ esize \in Word16 /\ InUse(x.m, a)
      /\ a = Wrap(Wrap(x.bp - at) + m * esize)
  BY DEF Writable, Destination, Slot
<1>3. /\ "r4" \in General /\ "r5" \in General \ {"r4"} /\ "r5" \in Registers \ {"r4", "r6"}
      /\ "bp" \in Registers \ {"r4", "r6"}
  BY RegistersAre
<1>4. c = d \o h
  BY <1>2 DEF RegisterInto, IntoArray
<1>5. IsCode(d) /\ Gets(x.g, d, s, "r4", m, {"r4", "r6"})
  <2>1. {"r4", "r4", "r6"} = {"r4", "r6"}
    OBVIOUS
  <2> QED
    BY <1>3, <2>1 DEF Right, Touched
<1> HIDE DEF c, a, at, d
<1>6. PICK t : Reaches(x.g, d, s, t, {"r4", "r6"}) /\ t.regs["r4"] = m
  BY <1>5, GetsIs
<1>7. IsState(t) /\ t.mem = s.mem /\ t.regs["r5"] = n /\ t.regs["bp"] = x.bp
  BY <1>1, <1>3, <1>6 DEF Reaches, Keeps
<1>8. IsCode(f) /\ Gets(x.g, f, t, "r4", a, {"r4"})
  BY <1>2, <1>6, <1>7, ElementFound
<1>9. InUse(t.mem, a)
  BY <1>1, <1>2, <1>7, HoldsWord
<1> HIDE DEF f
<1>10. Wrote(x.g, h, t, a, n, {"r4"})
  BY <1>3, <1>7, <1>8, <1>9, WriteTo
<1> HIDE DEF h
<1>11. Wrote(x.g, d \o h, s, a, n, {"r4", "r6"})
  <2>1. {"r4"} \subseteq {"r4", "r6"}
    OBVIOUS
  <2> QED
    BY <1>6, <1>10, <2>1, WroteAfter
<1> QED
  BY <1>4, <1>11 DEF a, c

(* From an index in r5 to an element behind a pointer, in r4.              *)
LEMMA PointedFound ==
  ASSUME NEW x, NEW s, Fits(x, s, 0), NEW at \in Word16, NEW esize \in Word16,
         NEW n, s.regs["r5"] = n, NEW p, p = Wrap(x.bp - at), InUse(x.m, p),
         NEW word, word = GetMem(x.m, p),
         NEW c, c = <<Imm("mul", "r5", esize)>> \o Frame("r4", at, 0)
                      \o (<<Ins("load", "r4", "r4")>> \o <<Ins("add", "r4", "r5")>>)
  PROVE  IsCode(c) /\ Gets(x.g, c, s, "r4", Wrap(word + n * esize), {"r4", "r5"})
<1> DEFINE a == <<Imm("mul", "r5", esize)>>
           b == Frame("r4", at, 0)
           d == <<Ins("load", "r4", "r4")>>
           f == <<Ins("add", "r4", "r5")>>
           k == n * esize
           R == {"r4", "r5"}
<1>1. /\ "r4" \in Plain /\ "r4" \in General /\ "r5" \in Plain /\ "r5" \in Registers
      /\ "r5" \in General /\ R \subseteq General /\ "bp" \in Registers
      /\ "r4" \in Registers /\ {"r4"} \subseteq R /\ {"r5"} \subseteq R
  BY RegistersAre
<1>2. IsState(s) /\ s.regs["bp"] = x.bp /\ Holds(s.mem, x.m)
  BY DEF Fits, HasRoom
<1>3. n \in Int /\ esize \in Int /\ at - 0 = at
  BY <1>1, <1>2, StateIs, WordsAreNumbers, NothingLess
<1>4. IsCode(a) /\ Gets(x.g, a, s, "r5", Wrap(k), {"r5"})
  <2>1. IsCode(a) /\ Gets(x.g, a, s, "r5", Wrap(Calc("mul", s.regs["r5"], esize)), {"r5"})
    BY <1>1, <1>2, NumberIs
  <2>2. Calc("mul", s.regs["r5"], esize) = k
    BY DEF Calc
  <2> QED
    BY <2>1, <2>2
<1>5. k \in Int
  BY <1>3
<1> HIDE DEF a, b, k, R
<1>6. PICK t : Reaches(x.g, a, s, t, {"r5"}) /\ t.regs["r5"] = Wrap(k)
  BY <1>4 DEF Gets, Reaches
<1>7. Fits(x, t, 0) /\ IsState(t) /\ t.regs["bp"] = x.bp
  <2>1. {"r5"} \subseteq General /\ Keeps(s, t, {"r5"})
    BY <1>1, <1>6 DEF Reaches
  <2>2. Fits(x, t, 0)
    BY <2>1, FitsKept
  <2> QED
    BY <2>2 DEF Fits, HasRoom
<1>8. IsCode(b) /\ Gets(x.g, b, t, "r4", p, {"r4"})
  <2>1. at - 0 \in Word16 /\ Wrap(t.regs["bp"] - (at - 0)) = p
    BY <1>3, <1>7
  <2> QED
    BY <1>1, <1>7, <2>1, FrameIs DEF b
<1>9. PICK u : Reaches(x.g, b, t, u, {"r4"}) /\ u.regs["r4"] = p
  BY <1>8, GetsIs
<1>10. IsState(u) /\ Holds(u.mem, x.m) /\ u.regs["r5"] = Wrap(k)
  <2>1. Keeps(t, u, {"r4"}) /\ {"r4"} \subseteq General
    BY <1>1, <1>9 DEF Reaches
  <2>2. Fits(x, u, 0)
    BY <1>7, <2>1, FitsKept
  <2>3. "r5" \in Registers \ {"r4"}
    BY <1>1
  <2> QED
    BY <1>6, <2>1, <2>2, <2>3 DEF Fits, HasRoom, Keeps
<1>11. IsCode(d) /\ Gets(x.g, d, u, "r4", word, {"r4"})
  <2>1. InUse(u.mem, p) /\ GetMem(u.mem, p) = word
    BY <1>10, HoldsWord
  <2> QED
    BY <1>1, <1>9, <1>10, <2>1, LoadedIs
<1> HIDE DEF d, f
<1>12. PICK v : Reaches(x.g, d, u, v, {"r4"}) /\ v.regs["r4"] = word
  BY <1>11 DEF Gets, Reaches
<1>13. IsState(v) /\ v.regs["r5"] = Wrap(k)
  <2>1. "r5" \in Registers \ {"r4"}
    BY <1>1
  <2> QED
    BY <1>10, <1>12, <2>1 DEF Reaches, Keeps
<1>14. word \in Int
  <2>1. word \in Word16
    BY <1>1, <1>12, <1>13, StateIs
  <2> QED
    BY <2>1, WordsAreNumbers
<1>15. IsCode(f) /\ Gets(x.g, f, v, "r4", Wrap(word + k), {"r4"})
  <2>1. IsCode(f) /\ Gets(x.g, f, v, "r4", Wrap(Calc("add", v.regs["r4"], v.regs["r5"])), {"r4"})
    BY <1>1, <1>13, RegisterIs DEF f
  <2>2. Calc("add", v.regs["r4"], v.regs["r5"]) = word + Wrap(k)
    BY <1>12, <1>13 DEF Calc
  <2> QED
    BY <1>5, <1>14, <2>1, <2>2, WrapSum
<1>16. Reaches(x.g, a \o b, s, u, R)
  BY <1>1, <1>6, <1>9, ReachesBoth
<1>17. IsCode(d \o f) /\ Gets(x.g, d \o f, u, "r4", Wrap(word + k), R)
  BY <1>1, <1>11, <1>12, <1>15, GetsThen, BothIs DEF Reaches
<1>18. IsCode(a \o b \o (d \o f)) /\ Gets(x.g, a \o b \o (d \o f), s, "r4", Wrap(word + k), R)
  <2> DEFINE h == d \o f
             i == a \o b
  <2> HIDE DEF h, i
  <2>1. IsCode(i) /\ Does(x.g, i, s, u) /\ Keeps(s, u, R) /\ IsCode(h)
        /\ Gets(x.g, h, u, "r4", Wrap(word + k), R)
    BY <1>16, <1>17 DEF Reaches, h, i
  <2>2. IsCode(i \o h) /\ Gets(x.g, i \o h, s, "r4", Wrap(word + k), R)
    BY <2>1, GetsThen, BothIs
  <2> QED
    BY <2>2 DEF h, i
<1> QED
  BY <1>18 DEF a, b, d, f, k, R

LEMMA CodeAssociative ==
  ASSUME NEW a, IsCode(a), NEW b, IsCode(b), NEW c, IsCode(c)
  PROVE  a \o b \o c = a \o (b \o c)
<1>1. PICK S, T, U : a \in Seq(S) /\ b \in Seq(T) /\ c \in Seq(U)
  BY DEF IsCode
<1> DEFINE V == S \cup T \cup U
<1>2. S \subseteq V /\ T \subseteq V /\ U \subseteq V
  OBVIOUS
<1> HIDE DEF V
<1>3. a \in Seq(V) /\ b \in Seq(V) /\ c \in Seq(V)
  BY <1>1, <1>2, SeqMonotonic
<1> QED
  BY <1>3, ConcatAssociative

(* Three instructions put together one by one.                             *)
LEMMA ThreeIs ==
  ASSUME NEW a, NEW b, NEW c
  PROVE  (<<a>> \o <<b>>) \o <<c>> = <<a, b, c>>
<1>1. <<a>> \o <<b>> = <<a, b>>
  BY FewIs
<1>2. <<a, b>> \o <<c>> = <<a, b, c>>
  BY FewIs
<1> QED
  BY <1>1, <1>2

(* To an element behind a pointer: what is stored waits on the stack.      *)
LEMMA PointerStore ==
  ASSUME NEW x, NEW s, NEW vs, NEW k \in Nat, Right(x, vs, k), Fits(x, s, 2 * k + 2),
         NEW b, NEW esize, NEW m, m = Meaning(x, vs)[k],
         Writable(x, b, "POINTER", esize, m), b.index # <<>>, NEW n, s.regs["r5"] = n
  PROVE  Wrote(x.g, RegisterInto(x.e, "r5", "r4", b, "POINTER", esize, Codes(x.e, vs)[k]), s,
               Destination(x, b, "POINTER", esize, m), n, {"r4", "r5", "r6"})
<1> DEFINE all == RegisterInto(x.e, "r5", "r4", b, "POINTER", esize, Codes(x.e, vs)[k])
           a == Destination(x, b, "POINTER", esize, m)
           at == x.e.off[b.ref.at] - b.offset
           p == Slot(x, b)
           word == GetMem(x.m, p)
           c == <<Push("r5")>>
           d == Codes(x.e, vs)[k]["r5"]
           f == <<Imm("mul", "r5", esize)>> \o Frame("r4", at, 0)
           h == <<Ins("load", "r4", "r4")>> \o <<Ins("add", "r4", "r5")>>
           i == <<Pop("r5")>>
           wr == Write("r5", "r4")
           R == {"r4", "r5", "r6"}
           t1 == Pushed(s, n)
<1>1. IsState(s) /\ Holds(s.mem, x.m)
  BY DEF Fits, HasRoom
<1>2. /\ b.ref.at # 0 /\ ~b.ref.global /\ at \in Word16 /\ esize \in Word16 /\ InUse(x.m, a)
      /\ p = Wrap(x.bp - at) /\ InUse(x.m, p) /\ a = Wrap(word + m * esize)
  BY DEF Writable, Destination, Slot
<1>3. /\ "r4" \in General /\ "r5" \in General /\ R \subseteq General /\ "r5" \in Plain
      /\ "r4" \in General \ {"r5"} /\ R \cup {"r5"} = R
  BY RegistersAre
<1>4. all = c \o d \o (f \o (h \o i) \o wr)
  <2>1. h \o i = <<Ins("load", "r4", "r4"), Ins("add", "r4", "r5"), Pop("r5")>>
    BY ThreeIs
  <2> HIDE DEF h, i
  <2> QED
    BY <1>2, <2>1 DEF RegisterInto, IntoPointer
<1>5. IsCode(c) /\ Does(x.g, c, s, t1) /\ n \in Word16
  BY <1>1, <1>3, PushDoes
<1>6. HasRoom(s, 2) /\ Fits(x, t1, 2 * k)
  <2>1. PICK room \in Nat : room = 2 * k
    OBVIOUS
  <2>2. HasRoom(s, 2) /\ Fits(x, t1, room)
    BY <1>5, <2>1, FitsPushed
  <2> QED
    BY <2>1, <2>2
<1>7. IsCode(d) /\ Gets(x.g, d, t1, "r5", m, R)
  <2>1. {"r5", "r4", "r6"} = R /\ Computable(x.e, vs, vs[k], "r5")
    BY DEF Computable
  <2>2. IsCode(d) /\ Gets(x.g, d, t1, "r5", m, {"r5", "r4", "r6"})
    BY <1>3, <1>6, <2>1 DEF Right, Touched
  <2> QED
    BY <2>1, <2>2
<1>8. IsCode(wr) /\ IsCode(<<Pop("r5")>>)
  BY FewIs DEF Write
<1> HIDE DEF all, a, at, p, word, c, d, wr, R, t1
<1>9. PICK t2 : Reaches(x.g, d, t1, t2, R) /\ t2.regs["r5"] = m
  BY <1>7 DEF Gets, Reaches
<1>10. Fits(x, t2, 0)
  <2>1. Keeps(t1, t2, R)
    BY <1>9 DEF Reaches
  <2>2. Fits(x, t2, 2 * k)
    BY <1>3, <1>6, <2>1, FitsKept
  <2>3. 2 * k \in Nat /\ 0 \in Nat /\ 0 <= 2 * k
    OBVIOUS
  <2> QED
    BY <2>2, <2>3, FitsLess
<1> DEFINE fh == f \o h
<1>11. IsCode(fh) /\ Gets(x.g, fh, t2, "r4", a, {"r4", "r5"})
  <2>1. fh = <<Imm("mul", "r5", esize)>> \o Frame("r4", at, 0)
               \o (<<Ins("load", "r4", "r4")>> \o <<Ins("add", "r4", "r5")>>)
    OBVIOUS
  <2> HIDE DEF fh
  <2>2. /\ IsCode(fh)
        /\ Gets(x.g, fh, t2, "r4", Wrap(word + m * esize), {"r4", "r5"})
    BY <1>2, <1>9, <1>10, <2>1, PointedFound DEF word
  <2> QED
    BY <1>2, <2>2
<1>12. IsCode(f) /\ IsCode(h) /\ IsCode(i)
  <2>1. IsCode(<<Imm("mul", "r5", esize)>>) /\ IsCode(Frame("r4", at, 0))
    BY FewIs DEF Frame
  <2> QED
    BY <1>8, <2>1, FewIs, BothIs
<1> HIDE DEF f, h, i
<1>13. f \o (h \o i) = fh \o i
  BY <1>12, CodeAssociative, SMTT(40)
<1> HIDE DEF fh
<1>14. PICK t3 : Reaches(x.g, fh, t2, t3, {"r4", "r5"}) /\ t3.regs["r4"] = a
  BY <1>11 DEF Gets, Reaches
<1>15. Keeps(t1, t3, R) /\ Does(x.g, d \o fh, t1, t3) /\ IsCode(d \o fh)
  <2>1. {"r4", "r5"} \subseteq R
    BY DEF R
  <2>2. Reaches(x.g, d \o fh, t1, t3, R)
    BY <1>9, <1>14, <2>1, ReachesBoth
  <2> QED
    BY <2>2 DEF Reaches
<1> DEFINE t4 == Popped(t3, "r5")
<1>16. GotBack(s, n, t3, t4, R, "r5")
  BY <1>3, <1>5, <1>6, <1>15, PopIs DEF t1
<1>17. /\ InUse(t3.mem, t3.regs["sp"]) /\ Keeps(s, t4, R) /\ t4.regs["r5"] = n
       /\ t4.regs["r4"] = a
  BY <1>3, <1>14, <1>16 DEF GotBack
<1>18. Does(x.g, i, t3, t4)
  BY <1>3, <1>15, <1>17, PopDoes DEF Keeps, i
<1> HIDE DEF t4
<1>19. Reaches(x.g, c \o (d \o fh) \o i, s, t4, R)
  <2>1. IsCode(c \o (d \o fh)) /\ Does(x.g, c \o (d \o fh), s, t3)
    BY <1>5, <1>15, DoesBoth, BothIs
  <2>2. IsCode(c \o (d \o fh) \o i) /\ Does(x.g, c \o (d \o fh) \o i, s, t4)
    BY <1>12, <1>18, <2>1, DoesBoth, BothIs
  <2> QED
    BY <1>17, <2>2 DEF Reaches
<1>20. c \o (d \o fh) \o i = c \o d \o (fh \o i)
  <2>1. c \o (d \o fh) = c \o d \o fh
    BY <1>5, <1>7, <1>11, CodeAssociative
  <2>2. IsCode(c \o d)
    BY <1>5, <1>7, BothIs
  <2>3. c \o d \o fh \o i = c \o d \o (fh \o i)
    BY <1>11, <1>12, <2>2, CodeAssociative
  <2> QED
    BY <2>1, <2>3
<1>21. Wrote(x.g, c \o d \o (fh \o i) \o wr, s, a, n, R)
  <2>1. InUse(s.mem, t4.regs["r4"])
    BY <1>1, <1>2, <1>17, HoldsWord
  <2>2. Reaches(x.g, c \o d \o (fh \o i), s, t4, R)
    BY <1>19, <1>20
  <2> QED
    BY <1>3, <1>17, <2>1, <2>2, WriteIs DEF wr
<1>22. c \o d \o (fh \o i) \o wr = c \o d \o (fh \o i \o wr)
  <2>1. IsCode(c \o d) /\ IsCode(fh \o i)
    BY <1>5, <1>7, <1>11, <1>12, BothIs
  <2> QED
    BY <1>8, <2>1, CodeAssociative, SMTT(40)
<1> QED
  BY <1>4, <1>13, <1>21, <1>22 DEF all, a, R

(* A store writes what its value means to where its index says, and        *)
(* nothing else: the rest of the memory and all registers but r4, r5 and   *)
(* r6 are as they were.  An index into an array is not an operation that   *)
(* takes code: it is computed in r4 (emit_store,                           *)
(* store_register_into_local).                                             *)
THEOREM StoreDone ==
  ASSUME NEW x, NEW vs, Len(vs) \in Nat, Sound(x, vs), NEW b, NEW kind, NEW esize,
         NEW at, at[1] \in 1 .. Len(vs), NEW n, n = Meaning(x, vs)[at[1]],
         NEW m, Writable(x, b, kind, esize, m),
         b.index # <<>> =>
           /\ at[2] \in 1 .. Len(vs) /\ m = Meaning(x, vs)[at[2]]
           /\ kind = "ARRAY" => Computable(x.e, vs, vs[at[2]], "r4"),
         NEW s, Fits(x, s, 2 * Len(vs) + 2)
  PROVE  \E t : /\ Does(x.g, EmitStore(x.e, b, kind, esize, Codes(x.e, vs), at), s, t)
                /\ Written(s, t, Destination(x, b, kind, esize, m), n, {"r4", "r5", "r6"})
<1> DEFINE codes == Codes(x.e, vs)
           index == IF b.index = <<>> THEN <<>> ELSE codes[at[2]]
           c == codes[at[1]]["r5"]
           d == RegisterInto(x.e, "r5", "r4", b, kind, esize, index)
           a == Destination(x, b, kind, esize, m)
           R == {"r4", "r5", "r6"}
<1>1. EmitStore(x.e, b, kind, esize, codes, at) = c \o d
  BY DEF EmitStore
<1>2. /\ "r5" \in General /\ "r5" # "r4" /\ R \subseteq General
      /\ {"r4"} \subseteq R /\ {"r4", "r6"} \subseteq R
  BY RegistersAre
<1>3. PICK room \in Nat : room = 2 * Len(vs) + 2
  OBVIOUS
<1>4. \A k \in 1 .. Len(vs) : 2 * k <= room /\ 2 * k \in Nat /\ 2 * k + 2 <= room
                              /\ 2 * k + 2 \in Nat /\ k \in Nat
  BY <1>3
<1>5. IsCode(c) /\ Gets(x.g, c, s, "r5", n, R)
  <2>1. Right(x, vs, at[1]) /\ Computable(x.e, vs, vs[at[1]], "r5")
    BY AllRight DEF Computable
  <2>2. Fits(x, s, 2 * at[1])
    BY <1>3, <1>4, FitsLess
  <2>3. {"r5", "r4", "r6"} = R
    OBVIOUS
  <2>4. IsCode(c) /\ Gets(x.g, c, s, "r5", n, {"r5", "r4", "r6"})
    BY <1>2, <2>1, <2>2 DEF Right, Touched
  <2> QED
    BY <2>3, <2>4
<1> HIDE DEF c, R
<1>6. PICK t : Reaches(x.g, c, s, t, R) /\ t.regs["r5"] = n
  BY <1>5 DEF Gets, Reaches
<1>7. Fits(x, t, room)
  <2>1. Keeps(s, t, R)
    BY <1>6 DEF Reaches
  <2> QED
    BY <1>2, <1>3, <2>1, FitsKept
<1>8. Wrote(x.g, d, t, a, n, {"r4"}) \/ Wrote(x.g, d, t, a, n, {"r4", "r6"})
      \/ Wrote(x.g, d, t, a, n, R)
  <2>1. CASE b.index = <<>>
    <3>1. Fits(x, t, 0)
      <4>1. 0 \in Nat /\ 0 <= room
        OBVIOUS
      <4> QED
        BY <1>7, <4>1, FitsLess
    <3> HIDE DEF index
    <3> QED
      BY <1>2, <1>6, <2>1, <3>1, PlainStore
  <2>2. CASE b.index # <<>>
    <3> DEFINE k == at[2]
    <3>1. k \in 1 .. Len(vs) /\ m = Meaning(x, vs)[k] /\ index = Codes(x.e, vs)[k]
      BY <2>2
    <3>2. Right(x, vs, k)
      BY <3>1, AllRight
    <3>3. k \in Nat /\ Fits(x, t, 2 * k) /\ Fits(x, t, 2 * k + 2)
      <4> HIDE DEF k
      <4> QED
        BY <1>4, <1>7, <3>1, FitsLess
    <3>4. kind \in {"ARRAY", "POINTER"}
      BY <2>2 DEF Writable
    <3>5. kind = "ARRAY" => Computable(x.e, vs, vs[k], "r4")
      BY <2>2
    <3> HIDE DEF index, k
    <3>6. CASE kind = "ARRAY"
      <4>1. Wrote(x.g, RegisterInto(x.e, "r5", "r4", b, "ARRAY", esize, Codes(x.e, vs)[k]), t,
                  Destination(x, b, "ARRAY", esize, m), n, {"r4", "r6"})
        BY <1>6, <2>2, <3>1, <3>2, <3>3, <3>5, <3>6, ArrayStore
      <4> QED
        BY <3>1, <3>6, <4>1
    <3>7. CASE kind = "POINTER"
      <4>1. Wrote(x.g, RegisterInto(x.e, "r5", "r4", b, "POINTER", esize, Codes(x.e, vs)[k]), t,
                  Destination(x, b, "POINTER", esize, m), n, {"r4", "r5", "r6"})
        BY <1>6, <2>2, <3>1, <3>2, <3>3, <3>7, PointerStore
      <4> QED
        BY <3>1, <3>7, <4>1 DEF R
    <3> QED
      BY <3>4, <3>6, <3>7
  <2> QED
    BY <2>1, <2>2
<1> HIDE DEF d, a
<1>9. Wrote(x.g, c \o d, s, a, n, R)
  BY <1>2, <1>6, <1>8, WroteAfter
<1>10. \E u : Does(x.g, c \o d, s, u) /\ Written(s, u, a, n, R)
  BY <1>9 DEF Wrote
<1> QED
  BY <1>1, <1>10 DEF a, R

-----------------------------------------------------------------------------
(* Code lies in the memory of the machine at p, in instructions.           *)
Lies(g, c, p) ==
  \A n \in 1 .. Len(c) : p + n - 1 \in DOMAIN code /\ code[p + n - 1] = Assembled(c[n], g)

(* The machine runs no further than the end of the code at p.              *)
Inside(c, p) == pc \in p .. p + Len(c) - 1

LEMMA RunsOne ==
  ASSUME NEW g, NEW c, IsCode(c), NEW p \in Nat, NEW f,
         \A n \in 1 .. Len(c) : Executes(g, c[n], f[n - 1], f[n]),
         Lies(g, c, p), Inside(c, p), IsState(Here), Here = f[pc - p], Execute
  PROVE  Lies(g, c, p)' /\ pc' = pc + 1 /\ IsState(Here)' /\ Here' = f[pc' - p]
<1> DEFINE n == pc - p + 1
           i == code[pc]
<1>1. Len(c) \in Nat /\ pc \in Nat
  <2>1. Len(c) \in Nat
    BY BothIs
  <2> QED
    BY <2>1 DEF Inside
<1>2. n \in 1 .. Len(c) /\ n - 1 = pc - p /\ p + n - 1 = pc /\ pc + 1 - p = n
  BY <1>1 DEF Inside
<1> HIDE DEF n
<1>3. Executes(g, c[n], Here, f[n]) /\ i = Assembled(c[n], g)
  BY <1>2 DEF Lies
<1>4. /\ i.op \in StraightOps /\ IsInstruction(i) /\ Allowed(Here, i)
      /\ f[n] = After(Here, i)
  BY <1>3 DEF Executes
<1>5. Straight(i)
  <2>1. ~Jumps(i) /\ ~Call(i) /\ ~Ret(i)
    BY <1>4 DEF StraightOps, Jumps, Call, Ret
  <2> QED
    BY <2>1 DEF Execute, Mov, Compute, Load, Store, PushReg, PopReg, Compare, Cfs
<1>6. Becomes(After(Here, i)) /\ pc' = pc + 1 /\ code' = code
  BY <1>5 DEF Straight, Step
<1>7. IsState(After(Here, i))
  BY <1>4, AfterIs
<1>8. Here' = f[n]
  <2>1. f[n] = [regs |-> f[n].regs, cf |-> f[n].cf, mem |-> f[n].mem]
    BY <1>4, <1>7 DEF IsState
  <2> QED
    BY <1>4, <1>6, <2>1 DEF Here, Becomes
<1>9. Lies(g, c, p)'
  BY <1>6 DEF Lies
<1>10. IsState(Here)'
  BY <1>6, <1>7, HereIs
<1> QED
  BY <1>2, <1>6, <1>8, <1>9, <1>10

(* Where the machine is on its way through the code, by the states f.      *)
OnItsWay(g, c, p, f) ==
  /\ Lies(g, c, p) /\ (Inside(c, p) \/ pc = p + Len(c))
  /\ IsState(Here) /\ Here = f[pc - p]

LEMMA WayThrough ==
  ASSUME NEW g, NEW c, IsCode(c), NEW p \in Nat, NEW f, IsState(f[0]),
         \A n \in 1 .. Len(c) : Executes(g, c[n], f[n - 1], f[n])
  PROVE  /\ Lies(g, c, p) /\ pc = p /\ Here = f[0] => OnItsWay(g, c, p, f)
         /\ OnItsWay(g, c, p, f) /\ [Execute /\ Inside(c, p)]_machine => OnItsWay(g, c, p, f)'
         /\ OnItsWay(g, c, p, f) =>
              /\ Inside(c, p) \/ pc = p + Len(c)
              /\ pc = p + Len(c) => Here = f[Len(c)]
<1> DEFINE Inv == OnItsWay(g, c, p, f)
<1>2. Len(c) \in Nat
  BY BothIs
<1>3. Lies(g, c, p) /\ pc = p /\ Here = f[0] => Inv
  BY <1>2 DEF Inside, OnItsWay
<1>4. Inv /\ [Execute /\ Inside(c, p)]_machine => Inv'
  <2>1. ASSUME Inv, Execute, Inside(c, p) PROVE Inv'
    <3>1. Lies(g, c, p)' /\ pc' = pc + 1 /\ IsState(Here)' /\ Here' = f[pc' - p]
      BY <2>1, RunsOne DEF OnItsWay
    <3>2. Inside(c, p)' \/ pc' = p + Len(c)
      BY <1>2, <2>1, <3>1 DEF Inside
    <3> QED
      BY <3>1, <3>2 DEF OnItsWay
  <2>2. ASSUME Inv, UNCHANGED machine PROVE Inv'
    BY <2>2 DEF machine, Lies, Inside, Here, OnItsWay
  <2> QED
    BY <2>1, <2>2
<1>5. Inv => (Inside(c, p) \/ pc = p + Len(c)) /\ (pc = p + Len(c) => Here = f[Len(c)])
  <2>1. p + Len(c) - p = Len(c)
    BY <1>2
  <2> QED
    BY <2>1 DEF OnItsWay
<1> QED
  BY <1>3, <1>4, <1>5

(* What code does by the rules of its instructions is what happens when it *)
(* lies in memory and the machine runs it: the machine does not leave it   *)
(* before its end, and is then in the state it leads to (emul/src/cpu.cc). *)
THEOREM CodeRuns ==
  ASSUME NEW g, NEW c, IsCode(c), NEW p \in Nat, NEW s, IsState(s), NEW t, Does(g, c, s, t)
  PROVE  Lies(g, c, p) /\ pc = p /\ Here = s /\ [][Execute /\ Inside(c, p)]_machine
           => []((Inside(c, p) \/ pc = p + Len(c)) /\ (pc = p + Len(c) => Here = t))
<1>1. PICK f : /\ f[0] = s /\ f[Len(c)] = t
               /\ \A n \in 1 .. Len(c) : Executes(g, c[n], f[n - 1], f[n])
  BY DEF Does
<1> DEFINE Inv == OnItsWay(g, c, p, f)
<1>2. Lies(g, c, p) /\ pc = p /\ Here = s => Inv
  BY <1>1, WayThrough
<1>3. Inv /\ [Execute /\ Inside(c, p)]_machine => Inv'
  BY <1>1, WayThrough
<1>4. Inv => (Inside(c, p) \/ pc = p + Len(c)) /\ (pc = p + Len(c) => Here = t)
  BY <1>1, WayThrough
<1> QED
  BY <1>2, <1>3, <1>4, PTL

(* So the machine that runs the code of a value has what the value means   *)
(* in the register when it is through, and the memory, the flag and all    *)
(* registers but r4 and r6 as they were (store_value_into_register).       *)
THEOREM ValueRuns ==
  ASSUME NEW x, NEW vs, Len(vs) \in Nat, Sound(x, vs), NEW k \in 1 .. Len(vs),
         NEW reg \in General, Computable(x.e, vs, vs[k], reg),
         NEW s, Fits(x, s, 2 * k), NEW p \in Nat, NEW c, c = Codes(x.e, vs)[k][reg]
  PROVE  Lies(x.g, c, p) /\ pc = p /\ Here = s /\ [][Execute /\ Inside(c, p)]_machine
           => [](pc = p + Len(c) =>
                   regs[reg] = Meaning(x, vs)[k] /\ Keeps(s, Here, {reg, "r4", "r6"}))
<1>1. IsCode(c) /\ Gets(x.g, c, s, reg, Meaning(x, vs)[k], {reg, "r4", "r6"})
  BY AllRight DEF Right, Touched
<1>2. PICK t : Does(x.g, c, s, t) /\ Keeps(s, t, {reg, "r4", "r6"})
               /\ t.regs[reg] = Meaning(x, vs)[k]
  BY <1>1 DEF Gets
<1>3. PICK f : /\ f[0] = s /\ f[Len(c)] = t
               /\ \A n \in 1 .. Len(c) : Executes(x.g, c[n], f[n - 1], f[n])
  BY <1>2 DEF Does
<1>4. IsState(s)
  BY DEF Fits, HasRoom
<1> DEFINE Inv == OnItsWay(x.g, c, p, f)
<1>5. Lies(x.g, c, p) /\ pc = p /\ Here = s => Inv
  BY <1>1, <1>3, <1>4, WayThrough
<1>6. Inv /\ [Execute /\ Inside(c, p)]_machine => Inv'
  BY <1>1, <1>3, <1>4, WayThrough
<1>7. Inv => (pc = p + Len(c) =>
                regs[reg] = Meaning(x, vs)[k] /\ Keeps(s, Here, {reg, "r4", "r6"}))
  <2>1. Inv => (pc = p + Len(c) => Here = t)
    BY <1>1, <1>3, <1>4, WayThrough
  <2>2. Here.regs = regs
    BY DEF Here
  <2> QED
    BY <1>2, <2>1, <2>2
<1> QED
  BY <1>5, <1>6, <1>7, PTL

-----------------------------------------------------------------------------
(* The registers of four arguments.                                        *)
Passing == {"r0", "r1", "r2", "r3"}

LEMMA ArgumentsAre ==
  /\ Argument(0) = "r0" /\ Argument(1) = "r1" /\ Argument(2) = "r2" /\ Argument(3) = "r3"
  /\ \A n \in 1 .. 4 : Argument(n - 1) \in Passing
  /\ \A n, m \in 1 .. 4 : n # m => Argument(n - 1) # Argument(m - 1)
  /\ Passing \subseteq General /\ Passing \subseteq Registers
  /\ "r4" \notin Passing /\ "r6" \notin Passing
<1>1. Argument(0) = "r0" /\ Argument(1) = "r1" /\ Argument(2) = "r2" /\ Argument(3) = "r3"
  BY DEF Argument
<1>2. \A n \in 1 .. 4 : \/ n = 1 /\ n - 1 = 0
                        \/ n = 2 /\ n - 1 = 1
                        \/ n = 3 /\ n - 1 = 2
                        \/ n = 4 /\ n - 1 = 3
  OBVIOUS
<1>3. \A n \in 1 .. 4 : Argument(n - 1) \in Passing
  BY <1>1, <1>2 DEF Passing
<1>4. \A n, m \in 1 .. 4 : n # m => Argument(n - 1) # Argument(m - 1)
  BY <1>1, <1>2
<1>5. Passing \subseteq General /\ Passing \subseteq Registers
  BY DEF Passing, General, Registers
<1>6. "r4" \notin Passing /\ "r6" \notin Passing
  BY DEF Passing
<1> QED
  BY <1>1, <1>3, <1>4, <1>5, <1>6

(* The code that passes the first arguments.                               *)
PassedTo(codes, args, f) ==
  f = [n \in 0 .. Len(args) |->
         IF n = 0 THEN <<>> ELSE f[n - 1] \o codes[args[n]][Argument(n - 1)]]

LEMMA PassAllIs ==
  ASSUME NEW codes, NEW args, Len(args) \in 0 .. 4
  PROVE  \E f : PassAll(codes, args) = f[Len(args)] /\ PassedTo(codes, args, f)
<1> DEFINE e(n) == codes[args[n]][Argument(n - 1)]
           p1 == <<>> \o e(1)
           p2 == p1 \o e(2)
           p3 == p2 \o e(3)
           p4 == p3 \o e(4)
           h == [n \in 0 .. Len(args) |-> IF n = 0 THEN <<>> ELSE IF n = 1 THEN p1
                   ELSE IF n = 2 THEN p2 ELSE IF n = 3 THEN p3 ELSE p4]
<1>1. ASSUME NEW n \in 0 .. Len(args)
      PROVE  h[n] = IF n = 0 THEN <<>> ELSE h[n - 1] \o e(n)
  <2>1. n \in Int /\ 0 <= n /\ n <= 4 /\ (n # 0 => n - 1 \in 0 .. Len(args))
    <3>1. PICK l \in 0 .. 4 : l = Len(args)
      OBVIOUS
    <3> HIDE DEF h, e
    <3> QED
      BY <3>1
  <2> HIDE DEF e, p1, p2, p3, p4
  <2>2. CASE n = 0
    BY <2>2
  <2>3. CASE n = 1
    <3>1. h[1] = p1 /\ h[0] = <<>>
      BY <2>1, <2>3
    <3> QED
      BY <2>3, <3>1 DEF p1
  <2>4. CASE n = 2
    <3>1. h[2] = p2 /\ h[1] = p1
      BY <2>1, <2>4
    <3> QED
      BY <2>4, <3>1 DEF p2
  <2>5. CASE n = 3
    <3>1. h[3] = p3 /\ h[2] = p2
      BY <2>1, <2>5
    <3> QED
      BY <2>5, <3>1 DEF p3
  <2>6. CASE n = 4
    <3>1. h[4] = p4 /\ h[3] = p3
      BY <2>1, <2>6
    <3> QED
      BY <2>6, <3>1 DEF p4
  <2>7. n = 0 \/ n = 1 \/ n = 2 \/ n = 3 \/ n = 4
    BY <2>1
  <2> QED
    BY <2>2, <2>3, <2>4, <2>5, <2>6, <2>7
<1>2. h = [n \in 0 .. Len(args) |-> h[n]]
  OBVIOUS
<1> HIDE DEF h, e
<1>3. h = [n \in 0 .. Len(args) |-> IF n = 0 THEN <<>> ELSE h[n - 1] \o e(n)]
  BY <1>1, <1>2
<1>4. PassedTo(codes, args, h)
  BY <1>3 DEF PassedTo, e
<1>5. PassAll(codes, args) = (CHOOSE f : PassedTo(codes, args, f))[Len(args)]
  BY DEF PassAll, PassedTo
<1>6. PICK f : PassedTo(codes, args, f) /\ f = CHOOSE d : PassedTo(codes, args, d)
  BY <1>4
<1> QED
  BY <1>5, <1>6

(* One more argument: the registers of those before it keep them.          *)
OneMore(x, c, s, t, n, word) ==
  \E u : /\ Reaches(x.g, c, s, u, Passing \cup {"r4", "r6"})
         /\ u.regs[Argument(n - 1)] = word
         /\ \A m \in 1 .. 4 : m # n => u.regs[Argument(m - 1)] = t.regs[Argument(m - 1)]

LEMMA PassOne ==
  ASSUME NEW x, NEW vs, Len(vs) \in Nat, Sound(x, vs), NEW k \in 1 .. Len(vs),
         NEW n \in 1 .. 4, NEW c, NEW s, NEW t, Reaches(x.g, c, s, t, Passing \cup {"r4", "r6"}),
         Fits(x, t, 2 * k)
  PROVE  OneMore(x, c \o Codes(x.e, vs)[k][Argument(n - 1)], s, t, n, Meaning(x, vs)[k])
<1> DEFINE reg == Argument(n - 1)
           d == Codes(x.e, vs)[k][reg]
           R == Passing \cup {"r4", "r6"}
<1>1. reg \in Passing /\ reg \in General /\ reg # "r4"
  BY ArgumentsAre
<1>2. Right(x, vs, k) /\ Computable(x.e, vs, vs[k], reg)
  BY <1>1, AllRight DEF Computable
<1>3. IsCode(d) /\ Gets(x.g, d, t, reg, Meaning(x, vs)[k], Touched(reg))
  BY <1>1, <1>2 DEF Right
<1>4. PICK u : Reaches(x.g, d, t, u, Touched(reg)) /\ u.regs[reg] = Meaning(x, vs)[k]
  BY <1>3 DEF Gets, Reaches
<1>5. Touched(reg) \subseteq R
  BY <1>1 DEF Touched
<1>6. Keeps(t, u, Touched(reg))
  BY <1>4 DEF Reaches
<1>7. ASSUME NEW m \in 1 .. 4, m # n
      PROVE  u.regs[Argument(m - 1)] = t.regs[Argument(m - 1)]
  <2>1. Argument(m - 1) \in Registers \ Touched(reg)
    BY <1>7, ArgumentsAre DEF Touched
  <2> QED
    BY <1>6, <2>1 DEF Keeps
<1> HIDE DEF reg, R, d
<1>8. Reaches(x.g, c \o d, s, u, R)
  <2>1. Reaches(x.g, c, s, t, R) /\ R \subseteq R
    BY DEF R
  <2> QED
    BY <1>4, <1>5, <2>1, ReachesBoth
<1> QED
  BY <1>4, <1>7, <1>8 DEF OneMore, reg, R, d

(* A call passes its arguments: before the call instruction every register *)
(* of an argument has what it means, the first argument still when the     *)
(* last has been computed, and the memory and all registers but those, r4  *)
(* and r6 are as they were.  There are at most four arguments (emit_call,  *)
(* compile_call).                                                          *)
THEOREM ArgumentsPassed ==
  ASSUME NEW x, NEW vs, Len(vs) \in Nat, Sound(x, vs), NEW args, Len(args) \in 0 .. 4,
         \A n \in 1 .. Len(args) : args[n] \in 1 .. Len(vs), NEW s, Fits(x, s, 2 * Len(vs))
  PROVE  \E t : /\ Does(x.g, PassAll(Codes(x.e, vs), args), s, t)
                /\ Keeps(s, t, Passing \cup {"r4", "r6"})
                /\ \A n \in 1 .. Len(args) : t.regs[Argument(n - 1)] = Meaning(x, vs)[args[n]]
<1> DEFINE codes == Codes(x.e, vs)
           R == Passing \cup {"r4", "r6"}
           Good(f, j) == \E t : /\ Reaches(x.g, f[j], s, t, R)
                                /\ \A n \in 1 .. j :
                                         t.regs[Argument(n - 1)] = Meaning(x, vs)[args[n]]
<1>1. PICK f : PassAll(codes, args) = f[Len(args)] /\ PassedTo(codes, args, f)
  BY PassAllIs
<1>2. \A j \in 0 .. Len(args) :
         f[j] = IF j = 0 THEN <<>> ELSE f[j - 1] \o codes[args[j]][Argument(j - 1)]
  <2> HIDE DEF codes
  <2> QED
    BY <1>1 DEF PassedTo
<1> DEFINE T == {j \in Nat : j \in 0 .. Len(args) /\ ~Good(f, j)}
<1>3. T = {}
  <2>1. SUFFICES ASSUME T # {} PROVE FALSE
    OBVIOUS
  <2> HIDE DEF Good
  <2>2. PICK j \in T : \A i \in T : j <= i
    BY <2>1, LeastNat
  <2>3. j \in Nat /\ j \in 0 .. Len(args) /\ ~Good(f, j) /\ j <= 4
    OBVIOUS
  <2>4. CASE j = 0
    <3>1. f[0] = <<>> /\ Reaches(x.g, <<>>, s, s, R)
      <4>1. IsState(s)
        BY DEF Fits, HasRoom
      <4> HIDE DEF R
      <4> QED
        BY <1>2, <4>1, ReachesNothing
    <3> QED
      BY <2>3, <2>4, <3>1 DEF Good
  <2>5. CASE j # 0
    <3>1. j - 1 \in Nat /\ j - 1 \in 0 .. Len(args) /\ ~(j <= j - 1) /\ j \in 1 .. 4
          /\ j \in 1 .. Len(args)
      BY <2>3, <2>5
    <3>2. Good(f, j - 1)
      BY <2>2, <3>1
    <3>3. PICK t : /\ Reaches(x.g, f[j - 1], s, t, R)
                   /\ \A n \in 1 .. j - 1 : t.regs[Argument(n - 1)] = Meaning(x, vs)[args[n]]
      BY <3>2 DEF Good
    <3> DEFINE k == args[j]
               d == codes[k][Argument(j - 1)]
    <3>4. k \in 1 .. Len(vs) /\ f[j] = f[j - 1] \o d
      BY <1>2, <2>3, <2>5, <3>1
    <3>5. Fits(x, t, 2 * k)
      <4>1. R \subseteq General /\ Keeps(s, t, R)
        BY <3>3, ArgumentsAre, RegistersAre DEF Reaches
      <4>2. 2 * k \in Nat /\ 2 * k <= 2 * Len(vs) /\ 2 * Len(vs) \in Nat
        BY <3>4
      <4> HIDE DEF R, k
      <4> QED
        BY <4>1, <4>2, FitsKept, FitsLess
    <3> HIDE DEF k
    <3>6. PICK u : /\ Reaches(x.g, f[j - 1] \o d, s, u, R)
                   /\ u.regs[Argument(j - 1)] = Meaning(x, vs)[k]
                   /\ \A m \in 1 .. 4 : m # j => u.regs[Argument(m - 1)] = t.regs[Argument(m - 1)]
      <4>1. OneMore(x, f[j - 1] \o d, s, t, j, Meaning(x, vs)[k])
        BY <3>1, <3>3, <3>4, <3>5, PassOne
      <4> QED
        BY <4>1 DEF OneMore
    <3>7. ASSUME NEW n \in 1 .. j
          PROVE  u.regs[Argument(n - 1)] = Meaning(x, vs)[args[n]]
      <4>1. CASE n = j
        BY <3>6, <4>1 DEF k
      <4>2. CASE n # j
        <5>1. n \in 1 .. 4 /\ n \in 1 .. j - 1
          BY <3>1, <4>2
        <5> QED
          BY <3>3, <3>6, <4>2, <5>1
      <4> QED
        BY <4>1, <4>2
    <3>8. Good(f, j)
      BY <3>4, <3>6, <3>7 DEF Good
    <3> QED
      BY <2>3, <3>8
  <2> QED
    BY <2>4, <2>5
<1>4. Good(f, Len(args))
  <2>1. Len(args) \in Nat /\ Len(args) \in 0 .. Len(args)
    OBVIOUS
  <2> HIDE DEF Good
  <2> QED
    BY <1>3, <2>1
<1> QED
  BY <1>1, <1>4 DEF Reaches

-----------------------------------------------------------------------------
(* A conditional jump before the jeq of it, and the flag it makes of the   *)
(* one of the comparison.                                                  *)
Turned(kind) == IF kind = "NEQ" THEN <<Ins("cfs", "", "")>> ELSE <<>>

Decides(kind, equal) == IF kind = "NEQ" THEN ~equal ELSE equal

LEMMA JumpIs ==
  ASSUME NEW kind \in {"EQ", "NEQ"}, NEW label
  PROVE  EmitJump(kind, label) = Turned(kind) \o <<To("jeq", "", label)>>
<1> DEFINE j == To("jeq", "", label)
           i == Ins("cfs", "", "")
<1>1. CASE kind = "NEQ"
  <2>1. EmitJump(kind, label) = <<i, j>> /\ Turned(kind) = <<i>>
    BY <1>1 DEF EmitJump, Turned
  <2> HIDE DEF i, j
  <2>2. <<i>> \o <<j>> = <<i, j>>
    BY FewIs
  <2> QED
    BY <2>1, <2>2 DEF j
<1>2. CASE kind = "EQ"
  <2>1. EmitJump(kind, label) = <<j>> /\ Turned(kind) = <<>>
    BY <1>2 DEF EmitJump, Turned
  <2> HIDE DEF j
  <2>2. <<j>> \in Seq({j})
    OBVIOUS
  <2>3. <<>> \o <<j>> = <<j>>
    BY <2>2, ConcatEmptySeq
  <2> QED
    BY <2>1, <2>3 DEF j
<1> QED
  BY <1>1, <1>2

LEMMA TurnedIs ==
  ASSUME NEW g, NEW s, IsState(s), NEW equal \in BOOLEAN, NEW kind \in {"EQ", "NEQ"}
  PROVE  /\ IsCode(Turned(kind))
         /\ Does(g, Turned(kind), Flagged(s, equal), Flagged(s, Decides(kind, equal)))
<1> DEFINE i == Ins("cfs", "", "")
           j == Assembled(i, g)
           t == Flagged(s, equal)
<1>1. CASE kind = "NEQ"
  <2>1. Is(j, "cfs", "", "", 0) /\ 0 \in Word16
    BY InsIs
  <2> HIDE DEF j
  <2>2. IsInstruction(j) /\ Allowed(t, j) /\ j.op \in StraightOps
    BY <2>1 DEF Is, IsInstruction, Allowed, StraightOps
  <2>3. After(t, j) = Flagged(t, ~t.cf)
    BY <2>1 DEF Is, After
  <2>4. Flagged(t, ~t.cf) = Flagged(s, ~equal)
    BY DEF Flagged
  <2>5. Executes(g, i, t, Flagged(s, ~equal))
    BY <2>2, <2>3, <2>4 DEF Executes, j
  <2> HIDE DEF i, t
  <2>6. Does(g, <<i>>, t, Flagged(s, ~equal)) /\ IsCode(<<i>>)
    BY <2>5, DoesOne, FewIs
  <2> QED
    BY <1>1, <2>6 DEF Turned, Decides, i, t
<1>2. CASE kind = "EQ"
  <2>1. Turned(kind) = <<>> /\ Decides(kind, equal) = equal
    BY <1>2 DEF Turned, Decides
  <2> QED
    BY <2>1, DoesNothing, FewIs
<1> QED
  BY <1>1, <1>2

LEMMA CodeStays ==
  ASSUME Execute
  PROVE  code' = code
BY DEF Execute, Mov, Compute, Load, Store, PushReg, PopReg, Compare, Cfs, Jumps, Call, Ret,
       Straight

(* The machine at a jeq.                                                   *)
LEMMA JeqJumps ==
  ASSUME Execute, code[pc].op = "jeq"
  PROVE  pc' = (IF cf THEN code[pc].n ELSE pc + 1) /\ Here' = Here
<1> DEFINE i == code[pc]
<1>1. Jumps(i)
  BY DEF Execute, Mov, Compute, Load, Store, PushReg, PopReg, Compare, Cfs, Call, Ret
<1> QED
  BY <1>1 DEF Jumps, Here

LEMMA ComparisonCode ==
  ASSUME NEW x, NEW vs, Len(vs) \in Nat, Sound(x, vs),
         NEW left \in 1 .. Len(vs), NEW right \in 1 .. Len(vs),
         NEW room \in Nat, 2 * left <= room, 2 * right <= room, NEW s, Fits(x, s, room)
  PROVE  IsCode(EmitCmp(x.e, vs, Codes(x.e, vs), left, right))
<1> DEFINE a == Codes(x.e, vs)[left]["r5"]
           b == Codes(x.e, vs)[right]["r6"]
<1>1. 2 * left \in Nat /\ 2 * right \in Nat
  OBVIOUS
<1>2. Fits(x, s, 2 * left) /\ Fits(x, s, 2 * right)
  BY <1>1, FitsLess
<1>3. Computable(x.e, vs, vs[left], "r5") /\ Computable(x.e, vs, vs[right], "r6")
  BY DEF Computable
<1>4. IsCode(a) /\ IsCode(b)
  BY <1>2, <1>3, AllRight, RegistersAre DEF Right
<1> HIDE DEF a, b
<1>5. \A i : IsCode(a \o <<i>>) /\ IsCode(a \o (b \o <<i>>))
  BY <1>4, BothIs, FewIs
<1> QED
  BY <1>5 DEF EmitCmp, a, b

(* A condition sends the machine where it should: with the code of a       *)
(* comparison and of the jump behind it in memory, the machine that is     *)
(* through goes on at the label of the jump if the sides mean the same,    *)
(* for EQ, or do not, for NEQ, and behind the jump else; the memory and    *)
(* all registers but r4, r5 and r6 are as they were (emit_cmp, emit_jmp).  *)
THEOREM BranchTaken ==
  ASSUME NEW x, NEW vs, Len(vs) \in Nat, Sound(x, vs),
         NEW left \in 1 .. Len(vs), NEW right \in 1 .. Len(vs),
         NEW room \in Nat, 2 * left <= room, 2 * right <= room, NEW s, Fits(x, s, room),
         NEW kind \in {"EQ", "NEQ"}, NEW p \in Nat, NEW there,
         NEW c, c = EmitCmp(x.e, vs, Codes(x.e, vs), left, right) \o Turned(kind),
         there \notin p .. p + Len(c),
         NEW equal, equal = (Meaning(x, vs)[left] = Meaning(x, vs)[right])
  PROVE  /\ Lies(x.g, c, p) /\ pc = p /\ Here = s
         /\ code[p + Len(c)].op = "jeq" /\ code[p + Len(c)].n = there
         /\ [][Execute /\ pc \in p .. p + Len(c)]_machine
         => [](pc \notin p .. p + Len(c) =>
                 /\ pc = IF Decides(kind, equal) THEN there ELSE p + Len(c) + 1
                 /\ Keeps(s, Flagged(Here, s.cf), {"r4", "r5", "r6"}))
<1> DEFINE R == {"r4", "r5", "r6"}
           q == p + Len(c)
           a == EmitCmp(x.e, vs, Codes(x.e, vs), left, right)
<1>1. equal \in BOOLEAN
  OBVIOUS
<1>2. PICK t : Does(x.g, a, s, Flagged(t, equal)) /\ Keeps(s, t, R)
  <2>1. \E t : /\ Does(x.g, a, s, Flagged(t, Meaning(x, vs)[left] = Meaning(x, vs)[right]))
               /\ Keeps(s, t, R)
    BY ComparisonDone
  <2> QED
    BY <2>1
<1>3. IsCode(a)
  BY ComparisonCode
<1> HIDE DEF a, q
<1> DEFINE u == Flagged(t, Decides(kind, equal))
<1>4. IsState(t) /\ IsState(s)
  BY <1>2 DEF Keeps, Fits, HasRoom
<1>5. /\ IsCode(Turned(kind))
      /\ Does(x.g, Turned(kind), Flagged(t, equal), u)
  BY <1>1, <1>4, TurnedIs
<1>6. u.cf = Decides(kind, equal) /\ Keeps(s, Flagged(u, s.cf), R)
  <2>1. Flagged(u, s.cf) = t
    BY <1>2, <1>4 DEF Flagged, Keeps, IsState
  <2> QED
    BY <1>2, <2>1 DEF Flagged
<1> HIDE DEF u
<1>7. IsCode(c) /\ Does(x.g, c, s, u)
  <2>1. c = a \o Turned(kind)
    BY DEF a
  <2> QED
    BY <1>2, <1>3, <1>5, <2>1, BothIs, DoesBoth
<1>8. PICK f : /\ f[0] = s /\ f[Len(c)] = u
               /\ \A n \in 1 .. Len(c) : Executes(x.g, c[n], f[n - 1], f[n])
  BY <1>7 DEF Does
<1>9. Len(c) \in Nat /\ q \in Nat /\ q \in p .. q /\ q + 1 \notin p .. q
      /\ there \notin p .. q /\ (Inside(c, p) => pc \in p .. q /\ pc # q)
      /\ (pc \in p .. q /\ pc # q => Inside(c, p))
  <2>1. Len(c) \in Nat
    BY <1>7, BothIs
  <2>2. PICK l \in Nat : l = Len(c) /\ q = p + l
    BY <2>1 DEF q
  <2>3. Inside(c, p) <=> pc \in p .. p + l - 1
    BY <2>2 DEF Inside
  <2>4. \A n : n \in p .. p + l - 1 <=> n \in p .. p + l /\ n # p + l
    OBVIOUS
  <2>5. p + l \in Nat /\ p + l \in p .. p + l /\ p + l + 1 \notin p .. p + l
    OBVIOUS
  <2> QED
    BY <2>2, <2>3, <2>4, <2>5
<1> DEFINE On  == OnItsWay(x.g, c, p, f) /\ code[q].op = "jeq" /\ code[q].n = there
           Off == /\ pc \notin p .. q /\ Here = u
                  /\ pc = IF Decides(kind, equal) THEN there ELSE q + 1
           Inv == On \/ Off
<1>10. Lies(x.g, c, p) /\ pc = p /\ Here = s /\ code[q].op = "jeq" /\ code[q].n = there => Inv
  BY <1>4, <1>7, <1>8, WayThrough
<1>11. Inv /\ [Execute /\ pc \in p .. q]_machine => Inv'
  <2>1. ASSUME On, Execute, Inside(c, p) PROVE On'
    <3>1. OnItsWay(x.g, c, p, f)'
      BY <1>4, <1>7, <1>8, <2>1, WayThrough
    <3>2. code' = code
      BY <2>1, CodeStays
    <3> QED
      BY <2>1, <3>1, <3>2
  <2>2. ASSUME On, Execute, pc = q PROVE Off'
    <3>1. pc' = (IF cf THEN code[pc].n ELSE pc + 1) /\ Here' = Here
      BY <2>2, JeqJumps
    <3>2. Here = u
      BY <1>4, <1>7, <1>8, <2>2, WayThrough DEF q
    <3>3. cf = Decides(kind, equal)
      BY <1>6, <3>2 DEF Here
    <3> QED
      BY <1>9, <2>2, <3>1, <3>2, <3>3
  <2>3. ASSUME Inv, UNCHANGED machine PROVE Inv'
    BY <2>3 DEF machine, OnItsWay, Lies, Inside, Here
  <2>4. ASSUME Off, pc \in p .. q PROVE FALSE
    BY <2>4
  <2> QED
    BY <1>9, <2>1, <2>2, <2>3, <2>4
<1>12. Inv => (pc \notin p .. q =>
                 /\ pc = IF Decides(kind, equal) THEN there ELSE q + 1
                 /\ Keeps(s, Flagged(Here, s.cf), R))
  <2>1. On => pc \in p .. q
    BY <1>4, <1>7, <1>8, <1>9, WayThrough DEF q
  <2> QED
    BY <1>6, <2>1
<1> HIDE DEF Inv
<1> QED
  BY <1>10, <1>11, <1>12, PTL DEF q

-----------------------------------------------------------------------------
(* What a call returned and what a function was called with is stored from *)
(* its register to its place: nothing but the word there and r4 changes,   *)
(* so an argument does not disturb those behind it (emit_store_result,     *)
(* emit_store_arg).                                                        *)
THEOREM RegisterStored ==
  ASSUME NEW x, NEW s, Fits(x, s, 0), NEW b, b.index = <<>>, Writable(x, b, "", 0, 0),
         NEW reg \in General, reg # "r4"
  PROVE  \E t : /\ Does(x.g, RegisterInto(x.e, reg, "r4", b, "", 0, <<>>), s, t)
                /\ Written(s, t, Destination(x, b, "", 0, 0), s.regs[reg], {"r4"})
BY PlainStore DEF Wrote

=============================================================================
