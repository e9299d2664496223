------------------------------ MODULE CpuProofs ------------------------------
(***************************************************************************)
(* Proofs about the instructions of Cpu, for bytes and memories of every   *)
(* size, every program and every handler: registers and memory keep their  *)
(* widths, the stack keeps what was pushed, ret returns, and an            *)
(* instruction changes no register but its own.                            *)
(***************************************************************************)
EXTENDS Cpu, TLAPS

-----------------------------------------------------------------------------
(* Bytes and words.                                                        *)

LEMMA HalvesAreBytes ==
  ASSUME NEW n \in Int
  PROVE  Low(n) \in Byte /\ High(n) \in Byte
  BY CpuAssumption, SMT DEF Low, High, Byte

LEMMA Division ==
  ASSUME NEW n \in Nat
  PROVE  /\ n \div B \in Nat /\ n = B * (n \div B) + (n % B)
         /\ n < B => n % B = n
<1>1. n = B * (n \div B) + (n % B) /\ 0 <= n % B /\ n \div B \in Nat /\ n % B \in Int
  BY CpuAssumption, SMT
<1>2. ASSUME n < B, n \div B >= 1
      PROVE  FALSE
  <2>1. B * (n \div B) >= B
    BY <1>1, <1>2, CpuAssumption, SMT
  <2> QED BY <2>1, <1>1, <1>2, CpuAssumption, SMT
<1>3. n < B => n \div B = 0
  BY <1>1, <1>2
<1>4. n < B => B * (n \div B) = 0
  BY <1>3, CpuAssumption, SMT
<1> QED BY <1>1, <1>4, CpuAssumption, SMT

LEMMA BytesAreHalves ==
  ASSUME NEW n \in Word
  PROVE  Low(n) + B * High(n) = n
<1>1. n \in Nat /\ n <= B * B - 1
  BY CpuAssumption, SMT DEF Word, W
<1>2. n \div B < B
  <2> SUFFICES ASSUME n \div B >= B PROVE FALSE
    BY <1>1, Division, CpuAssumption
  <2>1. B * (n \div B) >= B * B
    BY <1>1, Division, CpuAssumption, SMT
  <2>2. n % B >= 0 /\ n % B \in Int
    BY <1>1, CpuAssumption, SMT
  <2> QED BY <2>1, <2>2, <1>1, Division, CpuAssumption, SMT
<1>3. (n \div B) % B = n \div B
  BY <1>1, <1>2, Division
<1>4. n = B * (n \div B) + (n % B) /\ n \div B \in Nat /\ n % B \in Int
  BY <1>1, Division, CpuAssumption, SMT
<1>5. B * (n \div B) \in Int
  BY <1>4, CpuAssumption, SMT
<1> QED BY <1>3, <1>4, <1>5 DEF Low, High

LEMMA WordOfBytes ==
  ASSUME NEW lo \in Byte, NEW hi \in Byte
  PROVE  lo + B * hi \in Word
<1>1. B * hi <= B * (B - 1) /\ B * hi >= 0 /\ B * hi \in Int
  BY CpuAssumption, SMT DEF Byte
<1>2. B * (B - 1) = B * B - B
  BY CpuAssumption, SMT
<1> QED BY <1>1, <1>2, CpuAssumption, SMT DEF Byte, Word, W

LEMMA Sizes ==
  /\ B \in Nat /\ W \in Nat /\ W > 4 /\ 0 \in Byte /\ Byte \subseteq Word
  /\ \A n \in Int : n % W \in Word
<1>1. B * B >= 3 * B
  BY CpuAssumption, SMT
<1>2. W \in Nat /\ W > 4 /\ W >= B
  BY <1>1, CpuAssumption, SMT DEF W
<1>3. ASSUME NEW n \in Int PROVE n % W \in Word
  BY <1>2, SMT DEF Word
<1> QED BY <1>2, <1>3, CpuAssumption DEF Byte, Word

LEMMA Integral == Byte \subseteq Int /\ Word \subseteq Int
  BY Sizes DEF Byte, Word

-----------------------------------------------------------------------------
(* Registers.                                                              *)

(* regptr stays inside of struct irid_reg, and only sp's own id reaches    *)
(* the bytes of sp.                                                        *)
LEMMA Offsets ==
  ASSUME NEW id \in Id
  PROVE  /\ Offset(id) \in 0 .. 20 /\ Offset(id) + 1 \in 0 .. 21
         /\ Half(id) <=> id \in Halves
         /\ id = SP => ~Half(id) /\ Offset(id) = 18
         /\ id # SP => Offset(id) \notin {18, 19}
         /\ id # SP /\ ~Half(id) => Offset(id) + 1 \notin {18, 19}
         /\ id = IP => ~Half(id) /\ Offset(id) = 16
<1>1. CASE id \in 0 .. 7
  BY <1>1, SMT DEF Offset, Half, Halves, IP, SP, BP
<1>2. CASE id \in 16 .. 19
  BY <1>2, SMT DEF Offset, Half, Halves, IP, SP, BP
<1>3. CASE id \in 32 .. 35
  BY <1>3, SMT DEF Offset, Half, Halves, IP, SP, BP
<1>4. CASE id \in {IP, SP, BP}
  BY <1>4, SMT DEF Offset, Half, Halves, IP, SP, BP
<1> QED BY <1>1, <1>2, <1>3, <1>4 DEF Id, Words, Halves

LEMMA Pointers == IP \in Id /\ SP \in Id /\ IP # SP /\ None \notin Id
  BY DEF IP, SP, BP, None, Id, Words, Halves

(* r_load gives a word.                                                    *)
LEMMA Loads ==
  ASSUME NEW rs \in RegFile, NEW id \in Id
  PROVE  GetWord(rs, id) \in Word /\ RLoad(rs, id) \in Word
<1>1. rs[Offset(id)] \in Byte /\ rs[Offset(id) + 1] \in Byte
  BY Offsets DEF RegFile
<1> QED BY <1>1, WordOfBytes, Sizes DEF GetWord, RLoad

(* r_store changes the bytes of its register and no other.                 *)
LEMMA Stores ==
  ASSUME NEW rs \in RegFile, NEW id \in Id, NEW n \in Int
  PROVE  /\ RStore(rs, id, n) \in RegFile
         /\ \A o \in 0 .. 21 \ Bytes(id) : RStore(rs, id, n)[o] = rs[o]
         /\ id # SP => GetWord(RStore(rs, id, n), SP) = GetWord(rs, SP)
         /\ ~Half(id) /\ n \in Word => GetWord(RStore(rs, id, n), id) = n
<1>1. Low(n) \in Byte /\ High(n) \in Byte
  BY HalvesAreBytes
<1>2. /\ Offset(id) \in 0 .. 21 /\ Offset(id) + 1 \in 0 .. 21
      /\ Offset(id) # Offset(id) + 1
  BY Offsets
<1>3. RStore(rs, id, n) \in RegFile
  BY <1>1, <1>2 DEF RStore, RegFile
<1>4. \A o \in 0 .. 21 \ Bytes(id) : RStore(rs, id, n)[o] = rs[o]
  BY <1>1, <1>2, Offsets DEF RStore, RegFile, Bytes
<1>5. id # SP => GetWord(RStore(rs, id, n), SP) = GetWord(rs, SP)
  <2> SUFFICES ASSUME id # SP PROVE GetWord(RStore(rs, id, n), SP) = GetWord(rs, SP)
    OBVIOUS
  <2>1. 18 \notin Bytes(id) /\ 19 \notin Bytes(id)
    BY Offsets DEF Bytes
  <2>2. Offset(SP) = 18
    BY Offsets, Pointers
  <2> QED BY <2>1, <2>2, <1>4 DEF GetWord
<1>6. ASSUME ~Half(id), n \in Word
      PROVE  GetWord(RStore(rs, id, n), id) = n
  <2>1. /\ RStore(rs, id, n)[Offset(id)] = Low(n)
        /\ RStore(rs, id, n)[Offset(id) + 1] = High(n)
    BY <1>2, <1>6 DEF RStore, RegFile
  <2> QED BY <2>1, <1>6, BytesAreHalves DEF GetWord
<1> QED BY <1>3, <1>4, <1>5, <1>6

LEMMA PointerStored ==
  ASSUME NEW rs \in RegFile, NEW n \in Word
  PROVE  RStore(rs, SP, n) \in RegFile /\ GetWord(RStore(rs, SP, n), SP) = n
<1>1. SP \in Id /\ ~Half(SP) /\ n \in Int
  BY Pointers, Offsets, Integral
<1> QED BY <1>1, Stores

LEMMA StepTypes ==
  ASSUME NEW rs \in RegFile
  PROVE  /\ Stepped(rs) \in RegFile
         /\ GetWord(Stepped(rs), SP) = GetWord(rs, SP)
         /\ \A o \in 0 .. 21 \ Bytes(IP) : Stepped(rs)[o] = rs[o]
<1>1. GetWord(rs, IP) \in Word
  BY Loads, Pointers
<1>2. Next4(GetWord(rs, IP)) \in Int
  BY <1>1, Sizes, CpuAssumption, SMT DEF Next4, Word
<1> QED BY <1>2, Stores, Pointers DEF Stepped

(* The operands of an instruction, and its destination.                    *)
LEMMA Operands ==
  ASSUME NEW i \in Code, regs \in RegFile
  PROVE  /\ i.src \in Operand /\ i.src.val \in Int
         /\ i.src.form = "reg" => i.src.val \in Id
         /\ Value(i.src) \in Word
         /\ i.op \notin {"push", "cfs", "jmp", "jeq", "call", "ret", "sti", "dsi", "rti"}
              => i.dst \in Id
<1>1. i.src \in Operand /\ i.dst \in Id \cup {None}
  BY CpuAssumption
<1>2. i.op \notin {"push", "cfs", "jmp", "jeq", "call", "ret", "sti", "dsi", "rti"}
        => i.dst \in Id
  BY <1>1, CpuAssumption
<1>3. i.src.form = "reg" => i.src.val \in Id
  BY <1>1 DEF Operand
<1>4. i.src.form # "reg" => i.src.val \in Word
  BY <1>1, Sizes DEF Operand
<1>5. Value(i.src) \in Word
  BY <1>3, <1>4, Loads DEF Value
<1>6. Id \subseteq Int /\ Word \subseteq Int
  BY Sizes, SMT DEF Id, Words, Halves, IP, SP, BP, Word
<1> QED BY <1>1, <1>2, <1>3, <1>4, <1>5, <1>6

LEMMA MemoryTypes ==
  ASSUME NEW a \in Word, mem \in [Word -> Byte]
  PROVE  /\ \A n \in Int, width \in {1, 2} : Stored(a, n, width) \in [Word -> Byte]
         /\ ~Behind(a) => Read16(a) \in Word
<1>1. \A n \in Int : Low(n) \in Byte /\ High(n) \in Byte
  BY HalvesAreBytes
<1>2. ~Behind(a) => a + 1 \in Word
  BY Sizes, SMT DEF Behind, Word
<1>3. ~Behind(a) => Read16(a) \in Word
  BY <1>2, WordOfBytes DEF Read16
<1> QED BY <1>1, <1>3 DEF Stored, Write16

-----------------------------------------------------------------------------
(* Stacks.                                                                 *)

LEMMA NewTypes ==
  ASSUME NEW sp \in Word
  PROVE  NewStack(sp) \in Stack
  BY DEF NewStack, Stack

LEMMA ShrunkTypes ==
  ASSUME NEW s \in Stack, NEW n \in {1, 2}, NEW sp \in Word
  PROVE  Shrunk(s, n, sp) \in Stack
<1>1. CASE n > Len(s.bytes)
  BY <1>1, NewTypes DEF Shrunk
<1>2. CASE ~(n > Len(s.bytes))
  <2>1. s.bytes \in Seq(Byte) /\ Len(s.bytes) \in Nat
    BY DEF Stack
  <2>2. SubSeq(s.bytes, 1, Len(s.bytes) - n) \in Seq(Byte)
    BY <2>1, <1>2
  <2> QED BY <1>2, <2>2 DEF Shrunk, Stack
<1> QED BY <1>1, <1>2

LEMMA WrittenTypes ==
  ASSUME NEW s \in Stack, NEW addrs, NEW sp \in Word
  PROVE  Written(s, addrs, sp) \in Stack
  BY NewTypes DEF Written

LEMMA GrownTypes ==
  ASSUME stack \in Stack, NEW n \in Int, NEW width \in {1, 2}
  PROVE  Grown(n, width) \in Stack
<1>1. Low(n) \in Byte /\ High(n) \in Byte
  BY HalvesAreBytes
<1>2. stack.bytes \in Seq(Byte)
  BY DEF Stack
<1>3. CASE width = 1
  <2>1. stack.bytes \o <<Low(n)>> \in Seq(Byte)
    BY <1>1, <1>2
  <2> QED BY <1>3, <2>1 DEF Grown, Stack
<1>4. CASE width = 2
  <2> DEFINE two == <<High(n), Low(n)>>
  <2>2. two \in Seq(Byte)
    BY <1>1
  <2> HIDE DEF two
  <2>1. stack.bytes \o two \in Seq(Byte)
    BY <2>2, <1>2
  <2>3. Grown(n, width) = [stack EXCEPT !.bytes = @ \o two]
    BY <1>4 DEF Grown, two
  <2> QED BY <2>1, <2>3 DEF Stack
<1> QED BY <1>3, <1>4

LEMMA NewKeeps ==
  ASSUME NEW m, NEW sp \in Word
  PROVE  Keeps(m, NewStack(sp), sp)
  BY Sizes, SMT DEF Keeps, NewStack, Word

(* What is below a stack can change.                                       *)
LEMMA FrameKeeps ==
  ASSUME NEW s \in Stack, NEW sp, NEW m, NEW m2, Keeps(m, s, sp),
         \A k \in 1 .. Len(s.bytes) : m2[s.base - k] = m[s.base - k]
  PROVE  Keeps(m2, s, sp)
  BY DEF Keeps

LEMMA WrittenKeeps ==
  ASSUME NEW s \in Stack, NEW sp \in Word, NEW m, NEW m2, NEW addrs, Keeps(m, s, sp),
         \A a \in Word \ addrs : m2[a] = m[a]
  PROVE  Keeps(m2, Written(s, addrs, sp), sp)
<1>1. CASE \E a \in addrs : s.base - Len(s.bytes) <= a /\ a < s.base
  BY <1>1, NewKeeps DEF Written
<1>2. CASE ~\E a \in addrs : s.base - Len(s.bytes) <= a /\ a < s.base
  <2>1. s.base \in Word /\ Len(s.bytes) \in Nat /\ sp = s.base - Len(s.bytes)
    BY DEF Stack, Keeps
  <2>2. ASSUME NEW k \in 1 .. Len(s.bytes)
        PROVE  m2[s.base - k] = m[s.base - k]
    <3>1. W \in Nat
      BY Sizes
    <3>2. /\ s.base - k \in Word
          /\ s.base - Len(s.bytes) <= s.base - k /\ s.base - k < s.base
      BY <3>1, <2>1 DEF Word
    <3> QED BY <3>2, <1>2
  <2>3. Keeps(m2, s, sp)
    BY <2>2, FrameKeeps
  <2> QED BY <1>2, <2>3 DEF Written
<1> QED BY <1>1, <1>2

LEMMA ShrunkKeeps ==
  ASSUME NEW s \in Stack, NEW sp \in Word, NEW m, NEW n \in {1, 2}, NEW sp2 \in Word,
         Keeps(m, s, sp), n <= Len(s.bytes) => sp2 = sp + n
  PROVE  Keeps(m, Shrunk(s, n, sp2), sp2)
<1>1. CASE n > Len(s.bytes)
  BY <1>1, NewKeeps DEF Shrunk
<1>2. CASE ~(n > Len(s.bytes))
  <2> DEFINE left == SubSeq(s.bytes, 1, Len(s.bytes) - n)
  <2>1. s.bytes \in Seq(Byte) /\ Len(s.bytes) \in Nat /\ s.base \in Int
    BY Sizes DEF Stack, Word
  <2>2. /\ Len(left) = Len(s.bytes) - n
        /\ \A k \in 1 .. Len(left) : left[k] = s.bytes[k]
    BY <2>1, <1>2
  <2> DEFINE t == [s EXCEPT !.bytes = left,
                            !.calls = {c \in @ : c.depth <= Len(s.bytes) - n}]
  <2>3. /\ Shrunk(s, n, sp2) = t
        /\ t.base = s.base /\ t.bytes = left
        /\ t.calls = {c \in s.calls : c.depth <= Len(s.bytes) - n}
    BY <1>2 DEF Shrunk, Stack
  <2>4. sp = s.base - Len(s.bytes) /\ sp2 = sp + n
    BY <1>2, <2>1 DEF Keeps
  <2> HIDE DEF left, t
  <2>5. t.base - Len(t.bytes) = sp2
    BY <2>1, <2>2, <2>3, <2>4, <1>2
  <2>6. \A k \in 1 .. Len(t.bytes) : m[t.base - k] = t.bytes[k]
    BY <2>1, <2>2, <2>3, <1>2 DEF Keeps
  <2>7. ASSUME NEW c \in t.calls
        PROVE  /\ c.depth \in 2 .. Len(t.bytes)
               /\ t.bytes[c.depth] = Low(c.to) /\ t.bytes[c.depth - 1] = High(c.to)
    <3>1. /\ c \in s.calls /\ c.depth <= Len(s.bytes) - n /\ c.depth \in 2 .. Len(s.bytes)
          /\ s.bytes[c.depth] = Low(c.to) /\ s.bytes[c.depth - 1] = High(c.to)
      BY <2>3 DEF Keeps
    <3>2. /\ c.depth \in 2 .. Len(left) /\ c.depth \in 1 .. Len(left)
          /\ c.depth - 1 \in 1 .. Len(left)
      BY <3>1, <2>1, <2>2, <1>2
    <3>3. left[c.depth] = s.bytes[c.depth] /\ left[c.depth - 1] = s.bytes[c.depth - 1]
      BY <3>2, <2>2
    <3> QED BY <3>1, <3>2, <3>3, <2>3
  <2> QED BY <2>3, <2>5, <2>6, <2>7 DEF Keeps
<1> QED BY <1>1, <1>2

(* More bytes on top, written right below sp.                              *)
LEMMA PushKeeps ==
  ASSUME NEW s \in Stack, NEW sp \in Word, NEW m, NEW m2, NEW t \in Stack,
         NEW top \in Seq(Byte), Keeps(m, s, sp), Len(top) <= sp,
         t.base = s.base, t.bytes = s.bytes \o top,
         \A a \in Word : a >= sp => m2[a] = m[a],
         \A k \in 1 .. Len(top) : m2[sp - k] = top[k],
         \A c \in t.calls \ s.calls :
           /\ c.depth = Len(t.bytes) /\ Len(top) = 2
           /\ top[2] = Low(c.to) /\ top[1] = High(c.to)
  PROVE  Keeps(m2, t, sp - Len(top))
<1>1. /\ s.bytes \in Seq(Byte) /\ Len(s.bytes) \in Nat /\ s.base \in Word
      /\ sp = s.base - Len(s.bytes) /\ Len(top) \in Nat
  BY DEF Stack, Keeps
<1>2. /\ Len(t.bytes) = Len(s.bytes) + Len(top)
      /\ \A k \in 1 .. Len(s.bytes) : t.bytes[k] = s.bytes[k]
      /\ \A k \in 1 .. Len(top) : t.bytes[Len(s.bytes) + k] = top[k]
  BY <1>1
<1>3. W \in Nat /\ \A a \in Word : a \in Nat /\ a < W
  BY Sizes DEF Word
<1>4. s.base \in Nat /\ s.base < W /\ sp \in Nat
  BY <1>1, <1>3
<1>5. t.base - Len(t.bytes) = sp - Len(top)
  BY <1>1, <1>2, <1>4
<1>6. ASSUME NEW k \in 1 .. Len(t.bytes)
      PROVE  m2[t.base - k] = t.bytes[k]
  <2>1. CASE k <= Len(s.bytes)
    <3>1. k \in 1 .. Len(s.bytes) /\ s.base - k \in Word /\ s.base - k >= sp
      BY <2>1, <1>1, <1>2, <1>3, <1>4 DEF Word
    <3>2. m[s.base - k] = s.bytes[k]
      BY <3>1 DEF Keeps
    <3> QED BY <3>1, <3>2, <1>2
  <2>2. CASE k > Len(s.bytes)
    <3> DEFINE j == k - Len(s.bytes)
    <3>1. /\ j \in 1 .. Len(top) /\ k = Len(s.bytes) + j
          /\ s.base - k = sp - j
      BY <2>2, <1>1, <1>2, <1>4
    <3> HIDE DEF j
    <3>2. m2[sp - j] = top[j] /\ t.bytes[Len(s.bytes) + j] = top[j]
      BY <3>1, <1>2
    <3> QED BY <3>1, <3>2
  <2> QED BY <2>1, <2>2, <1>1, <1>2
<1>7. ASSUME NEW c \in t.calls
      PROVE  /\ c.depth \in 2 .. Len(t.bytes)
             /\ t.bytes[c.depth] = Low(c.to) /\ t.bytes[c.depth - 1] = High(c.to)
  <2>1. CASE c \in s.calls
    <3>1. /\ c.depth \in 2 .. Len(s.bytes)
          /\ s.bytes[c.depth] = Low(c.to) /\ s.bytes[c.depth - 1] = High(c.to)
      BY <2>1 DEF Keeps
    <3>2. /\ c.depth \in 1 .. Len(s.bytes) /\ c.depth - 1 \in 1 .. Len(s.bytes)
          /\ c.depth \in 2 .. Len(t.bytes)
      BY <3>1, <1>1, <1>2
    <3> QED BY <3>1, <3>2, <1>2
  <2>2. CASE c \notin s.calls
    <3>1. /\ c.depth = Len(t.bytes) /\ Len(top) = 2
          /\ top[2] = Low(c.to) /\ top[1] = High(c.to)
      BY <2>2
    <3>2. /\ c.depth = Len(s.bytes) + 2 /\ c.depth - 1 = Len(s.bytes) + 1
          /\ c.depth \in 2 .. Len(t.bytes)
      BY <3>1, <1>1, <1>2
    <3>3. t.bytes[Len(s.bytes) + 2] = top[2] /\ t.bytes[Len(s.bytes) + 1] = top[1]
      BY <3>1, <1>2
    <3> QED BY <3>1, <3>2, <3>3
  <2> QED BY <2>1, <2>2
<1> QED BY <1>5, <1>6, <1>7 DEF Keeps

-----------------------------------------------------------------------------
(* sp does not wrap: neither where a push writes nor where a pop leaves it.*)

LEMMA Wraps ==
  ASSUME NEW sp \in Word
  PROVE  /\ \A w \in {1, 2} : sp >= w => (sp - w) % W = sp - w
         /\ \A w \in {1, 2} : sp + w < W => (sp + w) % W = sp + w
         /\ sp # 0 /\ ~Behind((sp - 2) % W) => sp >= 2
<1>1. W \in Nat /\ W > 4 /\ sp \in 0 .. W - 1
  BY Sizes DEF Word
<1>2. ASSUME NEW n \in 0 .. W - 1 PROVE n % W = n
  <2>1. /\ n = W * (n \div W) + (n % W) /\ 0 <= n % W /\ n \div W \in Nat
        /\ n % W \in Int
    BY <1>1, SMT
  <2>2. ASSUME n \div W >= 1 PROVE FALSE
    <3>1. W * (n \div W) >= W
      BY <2>1, <2>2, <1>1, SMT
    <3> QED BY <3>1, <2>1, <1>1, SMT
  <2>3. W * (n \div W) = 0
    BY <2>1, <2>2, <1>1, SMT
  <2> QED BY <2>1, <2>3, <1>1, SMT
<1>3. (-1) % W = W - 1
  <2> DEFINE q == (-1) \div W
  <2>1. /\ -1 = W * q + ((-1) % W) /\ 0 <= (-1) % W /\ (-1) % W <= W - 1
        /\ q \in Int /\ (-1) % W \in Int
    BY <1>1, SMT
  <2> HIDE DEF q
  <2>2. ASSUME q >= 0 PROVE FALSE
    <3>1. W * q >= 0
      BY <2>1, <2>2, <1>1, SMT
    <3> QED BY <3>1, <2>1, <1>1, SMT
  <2>3. ASSUME q <= -2 PROVE FALSE
    <3>1. W * q <= -2 * W
      BY <2>1, <2>3, <1>1, SMT
    <3> QED BY <3>1, <2>1, <1>1, SMT
  <2>4. q = -1
    BY <2>1, <2>2, <2>3
  <2> QED BY <2>1, <2>4, <1>1, SMT
<1>4. \A w \in {1, 2} : sp >= w => (sp - w) % W = sp - w
  BY <1>1, <1>2
<1>5. \A w \in {1, 2} : sp + w < W => (sp + w) % W = sp + w
  BY <1>1, <1>2
<1>6. sp = 1 => Behind((sp - 2) % W)
  BY <1>3 DEF Behind
<1> QED BY <1>1, <1>4, <1>5, <1>6

-----------------------------------------------------------------------------
(* Types.                                                                  *)

LEMMA PointerTypes ==
  ASSUME TypeOK
  PROVE  /\ regs \in RegFile /\ cache.regs \in RegFile
         /\ Sp \in Word /\ Ip \in Word /\ GetWord(cache.regs, SP) \in Word
         /\ Next4(Ip) \in Word
         /\ \A width \in {1, 2} : Sp - width \in Int /\ (Sp - width) % W \in Word
                                    /\ (Sp + width) % W \in Word
<1>1. /\ regs \in RegFile /\ cache.regs \in RegFile
      /\ Sp \in Word /\ Ip \in Word /\ GetWord(cache.regs, SP) \in Word
  BY Loads, Pointers DEF TypeOK, Sp, Ip
<1>2. Ip \in Int /\ Sp \in Int
  BY <1>1, Sizes DEF Word
<1>3. Next4(Ip) \in Word
  BY <1>2, Sizes, CpuAssumption DEF Next4
<1>4. ASSUME NEW width \in {1, 2}
      PROVE  /\ Sp - width \in Int /\ (Sp - width) % W \in Word
             /\ (Sp + width) % W \in Word
  <2>1. Sp - width \in Int /\ Sp + width \in Int
    BY <1>2
  <2> QED BY <2>1, Sizes
<1> QED BY <1>1, <1>3, <1>4

LEMMA EndTypes ==
  ASSUME TypeOK, NEW how \in {"fault", "wild"}, End(how), steps' \in 0 .. MaxSteps
  PROVE  TypeOK'
  BY DEF TypeOK, End, machine

LEMMA SetRegsTypes ==
  ASSUME TypeOK, NEW rs \in RegFile, NEW dst, SetRegs(rs, dst), cf' \in {0, 1},
         steps' \in 0 .. MaxSteps
  PROVE  TypeOK'
<1>1. GetWord(rs, SP) \in Word
  BY Loads, Pointers
<1>2. stack' \in Stack
  BY <1>1, NewTypes DEF SetRegs, TypeOK
<1> QED BY <1>2 DEF TypeOK, SetRegs, Control

LEMMA StepBound ==
  ASSUME TypeOK, NEW i, NEW op, Execute(i, op)
  PROVE  steps' \in 0 .. MaxSteps /\ phase = "run"
  BY CpuAssumption DEF TypeOK, Execute

LEMMA PushedTypes ==
  ASSUME TypeOK, NEW n \in Int, NEW width \in {1, 2}, NEW ip \in Int,
         PushedMachine(n, width, ip), stack' \in Stack, steps' \in 0 .. MaxSteps
  PROVE  TypeOK'
<1>1. /\ Sp - width \in Int /\ Top(width) \in Word
      /\ GetWord(cache.regs, SP) \in Word
  BY PointerTypes DEF Top
<1>2. RStore(RStore(regs, SP, Sp - width), IP, ip) \in RegFile
  BY <1>1, Stores, Pointers DEF TypeOK
<1>3. mem' \in [Word -> Byte]
  BY <1>1, MemoryTypes DEF PushedMachine, TypeOK
<1>4. saved' \in Stack
  BY <1>1, WrittenTypes DEF PushedMachine, TypeOK
<1> QED BY <1>2, <1>3, <1>4 DEF PushedMachine, TypeOK, Control

(* Every instruction keeps the types.                                      *)
LEMMA PushTypes ==
  ASSUME TypeOK, NEW i \in Code, Push(i)
  PROVE  TypeOK'
<1>1. steps' \in 0 .. MaxSteps
  BY StepBound DEF Push
<1>2. CASE End("fault") \/ End("wild")
  BY <1>1, <1>2, EndTypes
<1>3. CASE /\ PushedMachine(Value(i.src), Width(i.src), Next4(Ip))
           /\ stack' = Grown(Value(i.src), Width(i.src))
  <2>1. Value(i.src) \in Int /\ Next4(Ip) \in Int
    BY PointerTypes, Operands, Sizes DEF Word
  <2>2. Width(i.src) \in {1, 2}
    BY DEF Width
  <2>3. stack' \in Stack
    BY <1>3, <2>1, <2>2, GrownTypes DEF TypeOK
  <2> QED BY <1>1, <1>3, <2>1, <2>2, <2>3, PushedTypes
<1> QED BY <1>2, <1>3 DEF Push

LEMMA PopTypes ==
  ASSUME TypeOK, NEW i \in Code, Pop(i)
  PROVE  TypeOK'
<1>1. steps' \in 0 .. MaxSteps
  BY StepBound DEF Pop
<1>2. CASE End("wild")
  BY <1>1, <1>2, EndTypes
<1>3. CASE ~End("wild")
  <2> DEFINE width == IF Half(i.dst) THEN 1 ELSE 2
             sp == (Sp + width) % W
             n == IF width = 1 THEN mem[Sp] ELSE Read16(Sp)
  <2>1. width \in {1, 2} /\ sp \in Word /\ sp \in Int
    BY PointerTypes, Sizes DEF Word
  <2>2. i.op = "pop" /\ i.dst \in Id
    BY Operands DEF Pop, Execute, TypeOK
  <2>3. /\ ~(width = 2 /\ Behind(Sp))
        /\ regs' = Stepped(RStore(RStore(regs, SP, sp), i.dst, n))
        /\ stack' = IF i.dst = SP THEN NewStack(GetWord(regs', SP))
                    ELSE Shrunk(stack, width, sp)
        /\ UNCHANGED <<cf, mem, Control, phase, saved>>
    BY <1>3 DEF Pop
  <2>4. n \in Int
    <3>1. Sp \in Word /\ mem[Sp] \in Byte
      BY PointerTypes DEF TypeOK
    <3>2. width = 2 => Read16(Sp) \in Word
      BY <2>3, <3>1, MemoryTypes DEF TypeOK
    <3> QED BY <2>1, <3>1, <3>2, Integral
  <2> HIDE DEF width, sp, n
  <2>5. regs' \in RegFile
    <3>1. RStore(RStore(regs, SP, sp), i.dst, n) \in RegFile
      BY <2>1, <2>2, <2>4, Stores, Pointers DEF TypeOK
    <3> QED BY <3>1, <2>3, StepTypes
  <2>6. stack' \in Stack
    <3>1. GetWord(regs', SP) \in Word
      BY <2>5, Loads, Pointers
    <3>2. Shrunk(stack, width, sp) \in Stack
      BY <2>1, ShrunkTypes DEF TypeOK
    <3> QED BY <2>3, <3>1, <3>2, NewTypes
  <2> QED BY <1>1, <2>3, <2>5, <2>6 DEF TypeOK, Control
<1> QED BY <1>2, <1>3

LEMMA CallTypes ==
  ASSUME TypeOK, NEW i \in Code, Call(i)
  PROVE  TypeOK'
<1>1. steps' \in 0 .. MaxSteps
  BY StepBound DEF Call
<1>2. CASE End("fault") \/ End("wild")
  BY <1>1, <1>2, EndTypes
<1>3. CASE ~(End("fault") \/ End("wild"))
  <2> DEFINE to == IF i.src.form = "reg" THEN GetWord(RStore(regs, SP, Sp - 2), i.src.val)
                   ELSE i.src.val
             more == [depth |-> Len(stack.bytes) + 2, to |-> Next4(Ip)]
  <2>1. /\ PushedMachine(ReturnAddress, 2, to)
        /\ stack' = [Grown(ReturnAddress, 2) EXCEPT !.calls = @ \cup {more}]
    BY <1>3 DEF Call
  <2>2. ReturnAddress \in Int /\ Next4(Ip) \in Word
    BY PointerTypes, Sizes DEF ReturnAddress, Word
  <2>3. to \in Int
    <3>1. RStore(regs, SP, Sp - 2) \in RegFile
      BY PointerTypes, Stores, Pointers
    <3>2. i.src.form = "reg" => GetWord(RStore(regs, SP, Sp - 2), i.src.val) \in Int
      BY <3>1, Operands, Loads, Integral DEF TypeOK
    <3> QED BY <3>2, Operands DEF TypeOK
  <2>4. more \in [depth : Nat, to : Word]
    BY <2>2 DEF TypeOK, Stack
  <2>5. Grown(ReturnAddress, 2) \in Stack
    BY <2>2, GrownTypes DEF TypeOK
  <2> HIDE DEF to, more
  <2>6. stack' \in Stack
    BY <2>1, <2>4, <2>5 DEF Stack
  <2> QED BY <1>1, <2>1, <2>2, <2>3, <2>6, PushedTypes
<1> QED BY <1>2, <1>3

LEMMA RetTypes ==
  ASSUME TypeOK, NEW i \in Code, Ret(i)
  PROVE  TypeOK'
<1>1. steps' \in 0 .. MaxSteps
  BY StepBound DEF Ret
<1>2. CASE End("wild")
  BY <1>1, <1>2, EndTypes
<1>3. CASE ~End("wild")
  <2> DEFINE sp == (Sp + 2) % W
  <2>1. sp \in Word /\ sp \in Int
    BY PointerTypes, Sizes DEF Word
  <2>2. /\ ~Behind(Sp)
        /\ regs' = RStore(RStore(regs, IP, Read16(Sp)), SP, sp)
        /\ stack' = Shrunk(stack, 2, sp)
        /\ UNCHANGED <<cf, mem, Control, phase, saved>>
    BY <1>3 DEF Ret
  <2> HIDE DEF sp
  <2>3. Read16(Sp) \in Int
    <3>1. Read16(Sp) \in Word
      BY <2>2, PointerTypes, MemoryTypes DEF TypeOK
    <3> QED BY <3>1, Integral
  <2>4. regs' \in RegFile
    BY <2>1, <2>2, <2>3, Stores, Pointers DEF TypeOK
  <2>5. stack' \in Stack
    BY <2>1, <2>2, ShrunkTypes DEF TypeOK
  <2> QED BY <1>1, <2>2, <2>4, <2>5 DEF TypeOK, Control
<1> QED BY <1>2, <1>3

LEMMA StoreTypes ==
  ASSUME TypeOK, NEW i \in Code, Store(i)
  PROVE  TypeOK'
<1>1. steps' \in 0 .. MaxSteps
  BY StepBound DEF Store
<1>2. CASE End("fault") \/ End("wild")
  BY <1>1, <1>2, EndTypes
<1>3. CASE ~(End("fault") \/ End("wild"))
  <2> DEFINE addr == Value(i.src)
             width == IF Half(i.dst) THEN 1 ELSE 2
             n == RLoad(regs, i.dst)
  <2>1. /\ mem' = Stored(addr, n, width)
        /\ regs' = Stepped(regs)
        /\ stack' = Written(stack, addr .. addr + width - 1, Sp)
        /\ saved' = Written(saved, addr .. addr + width - 1, GetWord(cache.regs, SP))
        /\ UNCHANGED <<cf, Control, phase>>
    BY <1>3 DEF Store
  <2>2. addr \in Word /\ n \in Int
    <3>1. i.op = "store" /\ i.dst \in Id
      BY Operands DEF Store, Execute, TypeOK
    <3>2. Value(i.src) \in Word /\ RLoad(regs, i.dst) \in Word
      BY <3>1, Operands, Loads DEF TypeOK
    <3> QED BY <3>2, Integral
  <2>3. mem' \in [Word -> Byte]
    <3>1. mem \in [Word -> Byte] /\ width \in {1, 2}
      BY DEF TypeOK
    <3> QED BY <2>1, <2>2, <3>1, MemoryTypes
  <2>4. regs' \in RegFile /\ stack' \in Stack /\ saved' \in Stack
    BY <2>1, PointerTypes, StepTypes, WrittenTypes DEF TypeOK
  <2> QED BY <1>1, <2>1, <2>3, <2>4 DEF TypeOK, Control
<1> QED BY <1>2, <1>3

LEMMA ArithmeticTypes ==
  ASSUME TypeOK, NEW i \in Code, Arithmetic(i)
  PROVE  TypeOK'
<1>1. steps' \in 0 .. MaxSteps
  BY StepBound DEF Arithmetic
<1>2. PICK z \in Word : SetRegs(Stepped(RStore(regs, i.dst, z)), i.dst)
  BY DEF Arithmetic
<1>3. i.dst \in Id
  BY Operands DEF Arithmetic, Execute, TypeOK
<1>4. Stepped(RStore(regs, i.dst, z)) \in RegFile
  BY <1>3, Integral, Stores, StepTypes DEF TypeOK
<1>5. cf' \in {0, 1}
  BY DEF Arithmetic, TypeOK
<1> QED BY <1>1, <1>2, <1>4, <1>5, SetRegsTypes

(* mov, load and the instructions that only go on or jump.                 *)
LEMMA PlainTypes ==
  ASSUME TypeOK, NEW i \in Code,
         Mov(i) \/ Load(i) \/ Compare(i) \/ Cfs(i) \/ Jump(i)
  PROVE  TypeOK'
<1>1. regs \in RegFile /\ Value(i.src) \in Word /\ Value(i.src) \in Int
  BY Operands, Integral DEF TypeOK
<1>2. CASE Mov(i)
  <2>1. i.dst \in Id /\ steps' \in 0 .. MaxSteps
    BY <1>2, StepBound, Operands DEF Mov, Execute, TypeOK
  <2>2. Stepped(RStore(regs, i.dst, Value(i.src))) \in RegFile
    BY <1>1, <2>1, Stores, StepTypes
  <2>3. cf' \in {0, 1}
    BY <1>2 DEF Mov, TypeOK
  <2> QED BY <1>2, <2>1, <2>2, <2>3, SetRegsTypes DEF Mov
<1>3. CASE Load(i)
  <2>1. i.dst \in Id /\ steps' \in 0 .. MaxSteps
    BY <1>3, StepBound, Operands DEF Load, Execute, TypeOK
  <2>2. CASE End("fault") \/ End("wild")
    BY <2>1, <2>2, EndTypes
  <2>3. CASE ~(End("fault") \/ End("wild"))
    <3>1. cf' = cf
      BY <1>3, <2>3 DEF Load
    <3>2. CASE Half(i.dst)
      <4>1. SetRegs(Stepped(RStore(regs, i.dst, mem[Value(i.src)])), i.dst)
        BY <1>3, <2>3, <3>2 DEF Load
      <4>2. mem[Value(i.src)] \in Int
        BY <1>1, Integral DEF TypeOK
      <4>3. Stepped(RStore(regs, i.dst, mem[Value(i.src)])) \in RegFile
        BY <1>1, <2>1, <4>2, Stores, StepTypes
      <4> QED BY <2>1, <3>1, <4>1, <4>3, SetRegsTypes DEF TypeOK
    <3>3. CASE ~Half(i.dst)
      <4>1. /\ ~Behind(Value(i.src))
            /\ SetRegs(Stepped(RStore(regs, i.dst, Read16(Value(i.src)))), i.dst)
        BY <1>3, <2>3, <3>3 DEF Load
      <4>2. Read16(Value(i.src)) \in Int
        BY <1>1, <4>1, MemoryTypes, Integral DEF TypeOK
      <4>3. Stepped(RStore(regs, i.dst, Read16(Value(i.src)))) \in RegFile
        BY <1>1, <2>1, <4>2, Stores, StepTypes
      <4> QED BY <2>1, <3>1, <4>1, <4>3, SetRegsTypes DEF TypeOK
    <3> QED BY <3>2, <3>3
  <2> QED BY <2>2, <2>3
<1>4. CASE Compare(i) \/ Cfs(i)
  <2>1. steps' \in 0 .. MaxSteps
    BY <1>4, StepBound DEF Compare, Cfs
  <2>2. cf' \in {0, 1}
    BY <1>4 DEF Compare, Cfs, TypeOK
  <2>3. SetRegs(Stepped(regs), None)
    BY <1>4 DEF Compare, Cfs
  <2> QED BY <1>1, <2>1, <2>2, <2>3, StepTypes, SetRegsTypes
<1>5. CASE Jump(i)
  <2> DEFINE to == IF Taken(i) THEN i.src.val ELSE Next4(Ip)
  <2>1. steps' \in 0 .. MaxSteps /\ cf' \in {0, 1} /\ SetRegs(RStore(regs, IP, to), None)
    BY <1>5, StepBound DEF Jump, TypeOK
  <2>2. i.src.val \in Int /\ Next4(Ip) \in Int
    BY Operands, PointerTypes, Integral DEF TypeOK
  <2>3. to \in Int
    BY <2>2
  <2> HIDE DEF to
  <2>4. RStore(regs, IP, to) \in RegFile
    BY <1>1, <2>3, Stores, Pointers
  <2> QED BY <2>1, <2>4, SetRegsTypes
<1> QED BY <1>2, <1>3, <1>4, <1>5

LEMMA InterruptTypes ==
  ASSUME TypeOK, (\E h \in Handlers : Interrupt(h))
                   \/ (\E i \in Code : SetInterrupts(i) \/ Rti(i) \/ WildFetch(i)) \/ Halted
  PROVE  TypeOK'
<1>1. CASE \E h \in Handlers : Interrupt(h)
  <2>1. PICK h \in Handlers : Interrupt(h)
    BY <1>1
  <2>2. h \in Int
    BY CpuAssumption, Integral
  <2>3. RStore(regs, IP, h) \in RegFile /\ NewStack(Sp) \in Stack
    BY <2>2, Stores, Pointers, PointerTypes, NewTypes
  <2> QED BY <2>1, <2>3 DEF Interrupt, Cached, TypeOK
<1>2. CASE \E i \in Code : SetInterrupts(i)
  <2>1. PICK i \in Code : SetInterrupts(i)
    BY <1>2
  <2>2. steps' \in 0 .. MaxSteps
    BY <2>1, StepBound DEF SetInterrupts
  <2> QED BY <2>1, <2>2, StepTypes DEF SetInterrupts, TypeOK
<1>3. CASE \E i \in Code : Rti(i)
  <2>1. PICK i \in Code : Rti(i)
    BY <1>3
  <2>2. steps' \in 0 .. MaxSteps
    BY <2>1, StepBound DEF Rti
  <2>3. NewStack(GetWord(cache.regs, SP)) \in Stack
    BY PointerTypes, NewTypes
  <2> QED BY <2>1, <2>2, <2>3 DEF Rti, TypeOK
<1>4. CASE \E i \in Code : WildFetch(i)
  BY <1>4, EndTypes DEF WildFetch, TypeOK
<1>5. CASE Halted
  BY <1>5 DEF Halted, vars, machine, TypeOK
<1> QED BY <1>1, <1>2, <1>3, <1>4, <1>5

(* Every register and every byte of memory keeps its width, whatever the   *)
(* program does and whenever it is interrupted.                            *)
THEOREM TypeCorrect == Spec => []TypeOK
<1>1. Init => TypeOK
  <2> SUFFICES ASSUME Init PROVE TypeOK
    OBVIOUS
  <2>1. regs \in RegFile
    BY CpuAssumption DEF Init
  <2>2. GetWord(regs, SP) \in Word
    BY <2>1, Loads, Pointers
  <2>3. stack \in Stack /\ saved \in Stack
    BY <2>2, NewTypes, Sizes DEF Init
  <2>4. [a \in Word |-> 0] \in [Word -> Byte]
    BY Sizes
  <2>5. cache \in [regs : RegFile, cf : {0, 1}]
    BY CpuAssumption DEF Init
  <2>6. mem \in [Word -> Byte] /\ steps \in 0 .. MaxSteps
    BY <2>4, CpuAssumption DEF Init
  <2> QED BY <2>1, <2>3, <2>5, <2>6 DEF Init, TypeOK
<1>2. TypeOK /\ [Next]_vars => TypeOK'
  <2> SUFFICES ASSUME TypeOK, [Next]_vars PROVE TypeOK'
    OBVIOUS
  <2>1. CASE UNCHANGED vars
    BY <2>1 DEF vars, machine, TypeOK
  <2>2. CASE \E i \in Code : Push(i) \/ Pop(i) \/ Call(i) \/ Ret(i) \/ Store(i)
                               \/ Arithmetic(i)
    BY <2>2, PushTypes, PopTypes, CallTypes, RetTypes, StoreTypes, ArithmeticTypes
  <2>3. CASE \E i \in Code : Mov(i) \/ Load(i) \/ Compare(i) \/ Cfs(i) \/ Jump(i)
    BY <2>3, PlainTypes
  <2>4. CASE (\E h \in Handlers : Interrupt(h))
               \/ (\E i \in Code : SetInterrupts(i) \/ Rti(i) \/ WildFetch(i)) \/ Halted
    BY <2>4, InterruptTypes
  <2> QED BY <2>1, <2>2, <2>3, <2>4 DEF Next, Instruction
<1> QED BY <1>1, <1>2, PTL DEF Spec

-----------------------------------------------------------------------------
(* The stack.                                                              *)

LEMMA Writes ==
  ASSUME mem \in [Word -> Byte], NEW a \in Word, NEW n \in Int, NEW width \in {1, 2},
         ~(width = 2 /\ Behind(a))
  PROVE  /\ \A b \in Word \ (a .. a + width - 1) : Stored(a, n, width)[b] = mem[b]
         /\ Stored(a, n, width)[a] = Low(n)
         /\ width = 2 => Stored(a, n, width)[a + 1] = High(n)
<1>1. W \in Nat /\ \A b \in Word : b \in Int /\ 0 <= b /\ b < W
  BY Sizes DEF Word
<1>2. CASE width = 1
  BY <1>1, <1>2 DEF Stored
<1>3. CASE width = 2
  <2>1. a + 1 \in Word /\ a # a + 1
    BY <1>1, <1>3 DEF Behind, Word
  <2>2. a \in a .. a + width - 1 /\ a + 1 \in a .. a + width - 1
    BY <1>1, <1>3
  <2>3. Stored(a, n, width) = [mem EXCEPT ![a] = Low(n), ![a + 1] = High(n)]
    BY <1>3 DEF Stored, Write16
  <2> QED BY <2>1, <2>2, <2>3, <1>3
<1> QED BY <1>2, <1>3

LEMMA SetRegsKeeps ==
  ASSUME TypeOK, StackIntact, NEW rs \in RegFile, NEW dst, SetRegs(rs, dst),
         dst # SP => GetWord(rs, SP) = Sp
  PROVE  StackIntact'
<1>1. GetWord(rs, SP) \in Word
  BY Loads, Pointers
<1>2. /\ regs' = rs /\ UNCHANGED <<mem, cache, inInterrupt, saved>>
      /\ stack' = IF dst = SP THEN NewStack(GetWord(rs, SP)) ELSE stack
  BY DEF SetRegs, Control
<1>3. Keeps(mem', stack', Sp')
  BY <1>1, <1>2, NewKeeps DEF StackIntact, Sp
<1>4. inInterrupt' => Keeps(mem', saved', GetWord(cache.regs, SP)')
  BY <1>2 DEF StackIntact
<1> QED BY <1>3, <1>4 DEF StackIntact

(* A push finds the stack pointer far enough from 0, and writes right      *)
(* below it.                                                               *)
LEMMA PushedKeeps ==
  ASSUME TypeOK, StackIntact, NEW n \in Int, NEW width \in {1, 2}, NEW ip \in Int,
         PushedMachine(n, width, ip), Sp # 0, ~(width = 2 /\ Behind(Top(2))),
         NEW top \in Seq(Byte), Len(top) = width, stack' \in Stack,
         width = 1 => top[1] = Low(n),
         width = 2 => top[1] = High(n) /\ top[2] = Low(n),
         stack'.base = stack.base, stack'.bytes = stack.bytes \o top,
         \A c \in stack'.calls \ stack.calls :
           /\ c.depth = Len(stack'.bytes) /\ width = 2
           /\ Low(n) = Low(c.to) /\ High(n) = High(c.to)
  PROVE  StackIntact'
<1>1. /\ Sp \in Word /\ GetWord(cache.regs, SP) \in Word
      /\ stack \in Stack /\ saved \in Stack /\ mem \in [Word -> Byte]
  BY PointerTypes DEF TypeOK
<1>2. W \in Nat /\ \A b \in Word : b \in Int /\ 0 <= b /\ b < W
  BY Sizes DEF Word
<1>3. width = 2 => Sp >= 2
  BY <1>1, Wraps DEF Top
<1>4. Sp >= width
  BY <1>1, <1>2, <1>3
<1>5. Top(width) = Sp - width
  BY <1>1, <1>4, Wraps DEF Top
<1>6. Sp - width \in Word /\ Sp - width \in Int
  BY <1>1, <1>2, <1>4 DEF Word
<1> DEFINE addrs == (Sp - width) .. (Sp - width) + width - 1
<1>7. /\ \A b \in Word \ addrs : mem'[b] = mem[b]
      /\ mem'[Sp - width] = Low(n)
      /\ width = 2 => mem'[(Sp - width) + 1] = High(n)
  <2>1. mem' = Stored(Sp - width, n, width)
    BY <1>5 DEF PushedMachine
  <2>2. ~(width = 2 /\ Behind(Sp - width))
    BY <1>5
  <2> QED BY <1>1, <1>6, <2>1, <2>2, Writes
<1>8. Sp' = Sp - width
  <2>1. RStore(regs, SP, Sp - width) \in RegFile
    BY <1>6, Stores, Pointers DEF TypeOK
  <2>2. GetWord(RStore(regs, SP, Sp - width), SP) = Sp - width
    BY <1>6, PointerStored DEF TypeOK
  <2>3. GetWord(RStore(RStore(regs, SP, Sp - width), IP, ip), SP) = Sp - width
    BY <2>1, <2>2, Stores, Pointers
  <2> QED BY <2>3 DEF PushedMachine, Sp
<1>9. Keeps(mem', stack', Sp')
  <2>1. \A a \in Word : a >= Sp => mem'[a] = mem[a]
    BY <1>1, <1>2, <1>7
  <2>2. \A k \in 1 .. Len(top) : mem'[Sp - k] = top[k]
    <3>1. CASE width = 1
      BY <3>1, <1>7
    <3>2. CASE width = 2
      <4>1. (Sp - width) + 1 = Sp - 1
        BY <3>2, <1>1, <1>2
      <4> QED BY <3>2, <4>1, <1>7
    <3> QED BY <3>1, <3>2
  <2>3. \A c \in stack'.calls \ stack.calls :
          /\ c.depth = Len(stack'.bytes) /\ Len(top) = 2
          /\ top[2] = Low(c.to) /\ top[1] = High(c.to)
    OBVIOUS
  <2>4. Keeps(mem, stack, Sp)
    BY DEF StackIntact
  <2>5. Keeps(mem', stack', Sp - Len(top))
    BY <1>1, <1>4, <2>1, <2>2, <2>3, <2>4, PushKeeps, ZenonT(60)
  <2> QED BY <2>5, <1>8
<1>10. ASSUME inInterrupt'
       PROVE  Keeps(mem', saved', GetWord(cache.regs, SP)')
  <2>1. /\ saved' = Written(saved, addrs, GetWord(cache.regs, SP))
        /\ inInterrupt' = inInterrupt /\ cache' = cache
    BY <1>5 DEF PushedMachine, Control
  <2>2. Keeps(mem, saved, GetWord(cache.regs, SP))
    BY <1>10, <2>1 DEF StackIntact
  <2> HIDE DEF addrs
  <2> QED BY <1>1, <1>7, <2>1, <2>2, WrittenKeeps
<1> QED BY <1>9, <1>10 DEF StackIntact

LEMMA StoreKeeps ==
  ASSUME TypeOK, StackIntact, NEW i \in Code, Store(i)
  PROVE  StackIntact'
<1>1. CASE End("fault") \/ End("wild")
  BY <1>1 DEF End, machine, StackIntact, Sp
<1>2. CASE ~(End("fault") \/ End("wild"))
  <2>1. PICK addr \in Word, n \in Int : addr = Value(i.src) /\ n = RLoad(regs, i.dst)
    <3>1. i.op = "store" /\ i.dst \in Id
      BY Operands DEF Store, Execute, TypeOK
    <3>2. Value(i.src) \in Word /\ RLoad(regs, i.dst) \in Word
      BY <3>1, Operands, Loads DEF TypeOK
    <3> QED BY <3>2, Integral
  <2>2. PICK width \in {1, 2} : width = IF Half(i.dst) THEN 1 ELSE 2
    OBVIOUS
  <2>3. /\ ~(width = 2 /\ Behind(addr))
        /\ mem' = Stored(addr, n, width)
    BY <1>2, <2>1, <2>2 DEF Store
  <2> DEFINE addrs == addr .. addr + width - 1
  <2>4. /\ regs' = Stepped(regs)
        /\ stack' = Written(stack, addrs, Sp)
        /\ saved' = Written(saved, addrs, GetWord(cache.regs, SP))
        /\ cache' = cache /\ inInterrupt' = inInterrupt
    BY <1>2, <2>1, <2>2 DEF Store, Control
  <2>5. Sp' = Sp
    BY <2>4, StepTypes DEF Sp, TypeOK
  <2>6. mem \in [Word -> Byte]
    BY DEF TypeOK
  <2>7. \A b \in Word \ addrs : mem'[b] = mem[b]
    <3>1. ~(width = 2 /\ Behind(addr))
      BY <2>3
    <3>2. \A b \in Word \ (addr .. addr + width - 1) : Stored(addr, n, width)[b] = mem[b]
      BY <2>6, <3>1, Writes
    <3> QED BY <2>3, <3>2
  <2> HIDE DEF addrs
  <2>8. /\ Sp \in Word /\ GetWord(cache.regs, SP) \in Word
        /\ stack \in Stack /\ saved \in Stack
    BY PointerTypes DEF TypeOK
  <2>9. Keeps(mem', stack', Sp')
    <3>1. Keeps(mem, stack, Sp)
      BY DEF StackIntact
    <3> QED BY <2>4, <2>5, <2>7, <2>8, <3>1, WrittenKeeps
  <2>10. ASSUME inInterrupt'
         PROVE  Keeps(mem', saved', GetWord(cache.regs, SP)')
    <3>1. Keeps(mem, saved, GetWord(cache.regs, SP))
      BY <2>4, <2>10 DEF StackIntact
    <3> QED BY <2>4, <2>7, <2>8, <3>1, WrittenKeeps
  <2> QED BY <2>9, <2>10 DEF StackIntact
<1> QED BY <1>1, <1>2

LEMMA EndKeeps ==
  ASSUME StackIntact, NEW how, End(how)
  PROVE  StackIntact'
  BY DEF End, machine, StackIntact, Sp

LEMMA PushStackKeeps ==
  ASSUME TypeOK, TypeOK', StackIntact, NEW i \in Code, Push(i)
  PROVE  StackIntact'
<1>1. CASE End("fault") \/ End("wild")
  BY <1>1, EndKeeps
<1>2. CASE ~(End("fault") \/ End("wild"))
  <2>1. PICK n \in Int, ip \in Int : n = Value(i.src) /\ ip = Next4(Ip)
    BY PointerTypes, Operands, Integral DEF TypeOK
  <2>2. PICK width \in {1, 2} : width = Width(i.src)
    BY DEF Width
  <2>3. /\ Sp # 0 /\ ~(width = 2 /\ Behind(Top(2)))
        /\ PushedMachine(n, width, ip) /\ stack' = Grown(n, width)
    BY <1>2, <2>1, <2>2 DEF Push
  <2>4. /\ stack'.base = stack.base
        /\ stack'.calls \ stack.calls = {}
        /\ stack'.bytes = stack.bytes \o (IF width = 1 THEN <<Low(n)>> ELSE <<High(n), Low(n)>>)
    BY <2>3 DEF Grown, TypeOK, Stack
  <2>5. Low(n) \in Byte /\ High(n) \in Byte /\ stack' \in Stack
    BY <2>1, HalvesAreBytes DEF TypeOK
  <2> DEFINE top == IF width = 1 THEN <<Low(n)>> ELSE <<High(n), Low(n)>>
  <2>6. /\ top \in Seq(Byte) /\ Len(top) = width
        /\ width = 1 => top[1] = Low(n)
        /\ width = 2 => top[1] = High(n) /\ top[2] = Low(n)
    BY <2>2, <2>5
  <2>7. stack'.bytes = stack.bytes \o top
    BY <2>4
  <2> HIDE DEF top
  <2> QED BY <2>1, <2>2, <2>3, <2>4, <2>5, <2>6, <2>7, PushedKeeps
<1> QED BY <1>1, <1>2

LEMMA CallStackKeeps ==
  ASSUME TypeOK, TypeOK', StackIntact, NEW i \in Code, Call(i)
  PROVE  StackIntact'
<1>1. CASE End("fault") \/ End("wild")
  BY <1>1, EndKeeps
<1>2. CASE ~(End("fault") \/ End("wild"))
  <2>1. PICK n \in Int : n = Next4(Ip)
    BY PointerTypes, Integral
  <2>2. PICK ip \in Int :
          ip = IF i.src.form = "reg" THEN GetWord(RStore(regs, SP, Sp - 2), i.src.val)
               ELSE i.src.val
    <3>1. RStore(regs, SP, Sp - 2) \in RegFile
      BY PointerTypes, Stores, Pointers
    <3>2. i.src.form = "reg" => GetWord(RStore(regs, SP, Sp - 2), i.src.val) \in Int
      BY <3>1, Operands, Loads, Integral DEF TypeOK
    <3> QED BY <3>2, Operands DEF TypeOK
  <2> DEFINE top == <<High(n), Low(n)>>
             more == [depth |-> Len(stack.bytes) + 2, to |-> n]
  <2>3. /\ Sp # 0 /\ ~Behind(Top(2))
        /\ PushedMachine(n, 2, ip)
        /\ stack' = [Grown(n, 2) EXCEPT !.calls = @ \cup {more}]
    BY <1>2, <2>1, <2>2 DEF Call, ReturnAddress
  <2>4. Low(n) \in Byte /\ High(n) \in Byte /\ stack' \in Stack
    BY <2>1, HalvesAreBytes DEF TypeOK
  <2>5. top \in Seq(Byte) /\ Len(top) = 2 /\ top[1] = High(n) /\ top[2] = Low(n)
    BY <2>4
  <2>6. Grown(n, 2) = [stack EXCEPT !.bytes = stack.bytes \o top]
    BY DEF Grown
  <2>7. more.depth = Len(stack.bytes) + 2 /\ more.to = n
    OBVIOUS
  <2> HIDE DEF top, more
  <2>8. /\ stack'.base = stack.base
        /\ stack'.calls \ stack.calls \subseteq {more}
        /\ stack'.bytes = stack.bytes \o top
    BY <2>3, <2>6 DEF TypeOK, Stack
  <2>9. Len(stack'.bytes) = Len(stack.bytes) + 2
    <3>1. stack.bytes \in Seq(Byte)
      BY DEF TypeOK, Stack
    <3>2. Len(stack.bytes \o top) = Len(stack.bytes) + Len(top)
      <4>1. top \in Seq(Byte)
        BY <2>5
      <4> QED BY <3>1, <4>1
    <3> QED BY <2>5, <2>8, <3>2
  <2>10. \A c \in stack'.calls \ stack.calls :
           c.depth = Len(stack'.bytes) /\ Low(n) = Low(c.to) /\ High(n) = High(c.to)
    BY <2>7, <2>8, <2>9
  <2> QED BY <2>1, <2>2, <2>3, <2>4, <2>5, <2>8, <2>10, PushedKeeps, ZenonT(60)
<1> QED BY <1>1, <1>2

(* A pop of n bytes leaves sp below the base, or takes more than there is. *)
LEMMA PoppedKeeps ==
  ASSUME TypeOK, StackIntact, NEW n \in {1, 2}, Sp' = (Sp + n) % W,
         stack' = Shrunk(stack, n, Sp'), mem' = mem, saved' = saved, cache' = cache,
         inInterrupt' = inInterrupt
  PROVE  StackIntact'
<1>1. Sp \in Word /\ Sp' \in Word /\ stack \in Stack
  BY PointerTypes DEF TypeOK
<1>2. Keeps(mem, stack, Sp)
  BY DEF StackIntact
<1>3. n <= Len(stack.bytes) => Sp' = Sp + n
  <2>1. /\ W \in Nat /\ stack.base \in Word /\ Len(stack.bytes) \in Nat
        /\ Sp = stack.base - Len(stack.bytes)
    BY <1>1, <1>2, Sizes DEF Keeps, Stack
  <2>2. n <= Len(stack.bytes) => Sp + n < W
    BY <2>1 DEF Word
  <2> QED BY <1>1, <2>2, Wraps
<1>4. Keeps(mem, Shrunk(stack, n, Sp'), Sp')
  BY <1>1, <1>2, <1>3, ShrunkKeeps
<1>5. inInterrupt' => Keeps(mem', saved', GetWord(cache.regs, SP)')
  BY DEF StackIntact
<1> QED BY <1>4, <1>5 DEF StackIntact

LEMMA RetStackKeeps ==
  ASSUME TypeOK, StackIntact, NEW i \in Code, Ret(i)
  PROVE  StackIntact'
<1>1. CASE End("wild")
  BY <1>1, EndKeeps
<1>2. CASE ~End("wild")
  <2>1. /\ ~Behind(Sp)
        /\ regs' = RStore(RStore(regs, IP, Read16(Sp)), SP, (Sp + 2) % W)
        /\ stack' = Shrunk(stack, 2, (Sp + 2) % W)
        /\ UNCHANGED <<mem, saved, cache, inInterrupt>>
    BY <1>2 DEF Ret, Control
  <2>2. Read16(Sp) \in Word /\ (Sp + 2) % W \in Word
    BY <2>1, PointerTypes, MemoryTypes DEF TypeOK
  <2>3. RStore(regs, IP, Read16(Sp)) \in RegFile
    BY <2>2, Stores, Pointers, Integral DEF TypeOK
  <2>4. GetWord(RStore(RStore(regs, IP, Read16(Sp)), SP, (Sp + 2) % W), SP) = (Sp + 2) % W
    BY <2>2, <2>3, PointerStored
  <2>5. Sp' = (Sp + 2) % W
    BY <2>1, <2>4 DEF Sp
  <2> QED BY <2>1, <2>5, PoppedKeeps
<1> QED BY <1>1, <1>2

LEMMA PopStackKeeps ==
  ASSUME TypeOK, TypeOK', StackIntact, NEW i \in Code, Pop(i)
  PROVE  StackIntact'
<1>1. CASE End("wild")
  BY <1>1, EndKeeps
<1>2. CASE ~End("wild")
  <2>1. i.op = "pop" /\ i.dst \in Id
    BY Operands DEF Pop, Execute, TypeOK
  <2>2. PICK width \in {1, 2} : width = IF Half(i.dst) THEN 1 ELSE 2
    OBVIOUS
  <2> DEFINE sp == (Sp + width) % W
             n == IF width = 1 THEN mem[Sp] ELSE Read16(Sp)
  <2>3. /\ ~(width = 2 /\ Behind(Sp))
        /\ regs' = Stepped(RStore(RStore(regs, SP, sp), i.dst, n))
        /\ stack' = IF i.dst = SP THEN NewStack(Sp') ELSE Shrunk(stack, width, sp)
        /\ UNCHANGED <<mem, saved, cache, inInterrupt>>
    BY <1>2, <2>2 DEF Pop, Control, Sp
  <2>4. sp \in Word
    BY <2>2, PointerTypes
  <2>5. n \in Int
    <3>1. mem[Sp] \in Int
      BY PointerTypes, Integral DEF TypeOK
    <3>2. ~Behind(Sp) => Read16(Sp) \in Int
      BY PointerTypes, MemoryTypes, Integral DEF TypeOK
    <3> QED BY <2>2, <2>3, <3>1, <3>2
  <2> HIDE DEF n
  <2>6. CASE i.dst = SP
    <3>1. Keeps(mem', stack', Sp')
      <4>1. Sp' \in Word
        BY Loads, Pointers DEF Sp, TypeOK
      <4> QED BY <2>3, <2>6, <4>1, NewKeeps
    <3>2. inInterrupt' => Keeps(mem', saved', GetWord(cache.regs, SP)')
      BY <2>3 DEF StackIntact
    <3> QED BY <3>1, <3>2 DEF StackIntact
  <2>7. CASE i.dst # SP
    <3>1. RStore(regs, SP, sp) \in RegFile /\ GetWord(RStore(regs, SP, sp), SP) = sp
      BY <2>4, PointerStored DEF TypeOK
    <3>2. /\ RStore(RStore(regs, SP, sp), i.dst, n) \in RegFile
          /\ GetWord(RStore(RStore(regs, SP, sp), i.dst, n), SP) = sp
      BY <2>1, <2>5, <2>7, <3>1, Stores
    <3>3. Sp' = sp
      BY <2>3, <3>2, StepTypes DEF Sp
    <3> QED BY <2>2, <2>3, <2>7, <3>3, PoppedKeeps
  <2> QED BY <2>6, <2>7
<1> QED BY <1>1, <1>2

(* Instructions that only set registers; each leaves sp alone unless sp is *)
(* its destination.                                                        *)
LEMMA PlainStackKeeps ==
  ASSUME TypeOK, StackIntact, NEW i \in Code,
         Mov(i) \/ Load(i) \/ Compare(i) \/ Cfs(i) \/ Jump(i) \/ Arithmetic(i)
  PROVE  StackIntact'
<1>1. regs \in RegFile /\ Value(i.src) \in Word /\ Value(i.src) \in Int
  BY Operands, Integral DEF TypeOK
<1>2. ASSUME NEW n \in Int, i.dst \in Id, SetRegs(Stepped(RStore(regs, i.dst, n)), i.dst)
      PROVE  StackIntact'
  <2>1. /\ RStore(regs, i.dst, n) \in RegFile
        /\ i.dst # SP => GetWord(RStore(regs, i.dst, n), SP) = Sp
    BY <1>1, <1>2, Stores DEF Sp
  <2>2. /\ Stepped(RStore(regs, i.dst, n)) \in RegFile
        /\ i.dst # SP => GetWord(Stepped(RStore(regs, i.dst, n)), SP) = Sp
    BY <2>1, StepTypes
  <2> QED BY <1>2, <2>2, SetRegsKeeps
<1>3. CASE Mov(i)
  <2>1. i.dst \in Id
    BY <1>3, Operands DEF Mov, Execute, TypeOK
  <2>2. SetRegs(Stepped(RStore(regs, i.dst, Value(i.src))), i.dst)
    BY <1>3 DEF Mov
  <2> QED BY <1>1, <1>2, <2>1, <2>2
<1>4. CASE Load(i)
  <2>1. i.dst \in Id
    BY <1>4, Operands DEF Load, Execute, TypeOK
  <2>2. CASE End("fault") \/ End("wild")
    BY <2>2, EndKeeps
  <2>3. CASE ~(End("fault") \/ End("wild")) /\ Half(i.dst)
    <3>1. SetRegs(Stepped(RStore(regs, i.dst, mem[Value(i.src)])), i.dst)
      BY <1>4, <2>3 DEF Load
    <3>2. mem[Value(i.src)] \in Int
      BY <1>1, Integral DEF TypeOK
    <3> QED BY <1>2, <2>1, <3>1, <3>2
  <2>4. CASE ~(End("fault") \/ End("wild")) /\ ~Half(i.dst)
    <3>1. /\ ~Behind(Value(i.src))
          /\ SetRegs(Stepped(RStore(regs, i.dst, Read16(Value(i.src)))), i.dst)
      BY <1>4, <2>4 DEF Load
    <3>2. Read16(Value(i.src)) \in Int
      BY <1>1, <3>1, MemoryTypes, Integral DEF TypeOK
    <3> QED BY <1>2, <2>1, <3>1, <3>2
  <2> QED BY <2>2, <2>3, <2>4
<1>5. CASE Arithmetic(i)
  <2>1. i.dst \in Id
    BY <1>5, Operands DEF Arithmetic, Execute, TypeOK
  <2>2. PICK z \in Word : SetRegs(Stepped(RStore(regs, i.dst, z)), i.dst)
    BY <1>5 DEF Arithmetic
  <2>3. z \in Int
    BY <2>2, Integral
  <2> QED BY <1>2, <2>1, <2>2, <2>3
<1>6. CASE Compare(i) \/ Cfs(i)
  <2>1. SetRegs(Stepped(regs), None)
    BY <1>6 DEF Compare, Cfs
  <2> QED BY <1>1, <2>1, StepTypes, SetRegsKeeps DEF Sp
<1>7. CASE Jump(i)
  <2> DEFINE to == IF Taken(i) THEN i.src.val ELSE Next4(Ip)
  <2>1. SetRegs(RStore(regs, IP, to), None)
    BY <1>7 DEF Jump
  <2>2. to \in Int
    <3>1. i.src.val \in Int /\ Next4(Ip) \in Int
      BY Operands, PointerTypes, Integral DEF TypeOK
    <3> QED BY <3>1
  <2> HIDE DEF to
  <2>3. RStore(regs, IP, to) \in RegFile /\ GetWord(RStore(regs, IP, to), SP) = Sp
    BY <1>1, <2>2, Stores, Pointers DEF Sp
  <2> QED BY <2>1, <2>3, SetRegsKeeps
<1> QED BY <1>3, <1>4, <1>5, <1>6, <1>7

(* An interrupt begins a stack of its own below that of the program, and   *)
(* rti gives the program its stack back.                                   *)
LEMMA InterruptStackKeeps ==
  ASSUME TypeOK, StackIntact,
         (\E h \in Handlers : Interrupt(h))
           \/ (\E i \in Code : SetInterrupts(i) \/ Rti(i) \/ WildFetch(i)) \/ Halted
  PROVE  StackIntact'
<1>1. CASE \E h \in Handlers : Interrupt(h)
  <2>1. PICK h \in Handlers : Interrupt(h)
    BY <1>1
  <2>2. h \in Int /\ regs \in RegFile
    BY CpuAssumption, Integral DEF TypeOK
  <2>3. GetWord(RStore(regs, IP, h), SP) = Sp
    BY <2>2, Stores, Pointers DEF Sp
  <2>4. Sp' = Sp
    BY <2>1, <2>3 DEF Interrupt, Cached, Sp
  <2>5. Keeps(mem', stack', Sp')
    <3>1. Keeps(mem, NewStack(Sp), Sp)
      BY PointerTypes, NewKeeps
    <3> QED BY <2>1, <2>4, <3>1 DEF Interrupt, Cached
  <2>6. Keeps(mem', saved', GetWord(cache.regs, SP)')
    <3>1. GetWord(cache'.regs, SP) = Sp /\ mem' = mem /\ saved' = stack
      BY <2>1 DEF Interrupt, Cached, Sp
    <3> QED BY <3>1 DEF StackIntact
  <2> QED BY <2>5, <2>6 DEF StackIntact
<1>2. CASE \E i \in Code : SetInterrupts(i)
  <2>1. PICK i \in Code : SetInterrupts(i)
    BY <1>2
  <2>2. Sp' = Sp
    BY <2>1, StepTypes DEF SetInterrupts, Sp, TypeOK
  <2> QED BY <2>1, <2>2 DEF SetInterrupts, StackIntact
<1>3. CASE \E i \in Code : Rti(i)
  <2>1. PICK i \in Code : Rti(i)
    BY <1>3
  <2>2. Sp' = GetWord(cache.regs, SP) /\ ~inInterrupt' /\ mem' = mem
    BY <2>1 DEF Rti, Sp
  <2>3. Keeps(mem, stack', Sp')
    <3>1. CASE inInterrupt
      BY <2>1, <2>2, <3>1 DEF Rti, StackIntact
    <3>2. CASE ~inInterrupt
      <4>1. stack' = NewStack(GetWord(cache.regs, SP))
        BY <2>1, <3>2 DEF Rti
      <4> QED BY <2>2, <4>1, PointerTypes, NewKeeps
    <3> QED BY <3>1, <3>2
  <2> QED BY <2>2, <2>3 DEF StackIntact
<1>4. CASE \E i \in Code : WildFetch(i)
  BY <1>4, EndKeeps DEF WildFetch
<1>5. CASE Halted
  BY <1>5 DEF Halted, vars, machine, StackIntact, Sp
<1> QED BY <1>1, <1>2, <1>3, <1>4, <1>5

(* What a program pushed is there until it pops it or stores over it, for  *)
(* every program, every memory and interrupts at every instruction; and a  *)
(* handler that takes no more than it brought gives the stack back whole.  *)
THEOREM StackHolds == Spec => []StackIntact
<1>1. Init => StackIntact
  <2> SUFFICES ASSUME Init PROVE StackIntact
    OBVIOUS
  <2>1. Sp \in Word
    BY CpuAssumption, Loads, Pointers DEF Init, Sp
  <2>2. Keeps(mem, stack, Sp)
    BY <2>1, NewKeeps DEF Init, Sp
  <2> QED BY <2>2 DEF Init, StackIntact
<1>2. TypeOK /\ TypeOK' /\ StackIntact /\ [Next]_vars => StackIntact'
  <2> SUFFICES ASSUME TypeOK, TypeOK', StackIntact, [Next]_vars PROVE StackIntact'
    OBVIOUS
  <2>1. CASE UNCHANGED vars
    BY <2>1 DEF vars, machine, StackIntact, Sp
  <2>2. CASE \E i \in Code : Push(i) \/ Pop(i) \/ Call(i) \/ Ret(i) \/ Store(i)
    BY <2>2, PushStackKeeps, PopStackKeeps, CallStackKeeps, RetStackKeeps, StoreKeeps
  <2>3. CASE \E i \in Code : \/ Mov(i) \/ Load(i) \/ Compare(i) \/ Cfs(i) \/ Jump(i)
                             \/ Arithmetic(i)
    BY <2>3, PlainStackKeeps
  <2>4. CASE (\E h \in Handlers : Interrupt(h))
               \/ (\E i \in Code : SetInterrupts(i) \/ Rti(i) \/ WildFetch(i)) \/ Halted
    BY <2>4, InterruptStackKeeps
  <2> QED BY <2>1, <2>2, <2>3, <2>4 DEF Next, Instruction
<1> QED BY <1>1, <1>2, TypeCorrect, PTL DEF Spec

(* ret goes on behind the call it belongs to.                              *)
THEOREM RetReturns == Spec => ReturnsToCaller
<1>1. ASSUME TypeOK, StackIntact, NEW i \in Code, NEW c \in stack.calls, Ret(i),
             c.depth = Len(stack.bytes)
      PROVE  GetWord(regs', IP) = c.to
  <2>1. /\ Sp = stack.base - Len(stack.bytes)
        /\ c.depth \in 2 .. Len(stack.bytes)
        /\ stack.bytes[c.depth] = Low(c.to) /\ stack.bytes[c.depth - 1] = High(c.to)
        /\ \A k \in 1 .. Len(stack.bytes) : mem[stack.base - k] = stack.bytes[k]
    BY <1>1 DEF StackIntact, Keeps
  <2>2. stack.base \in Word /\ Len(stack.bytes) \in Nat /\ c.to \in Word
    BY <1>1 DEF TypeOK, Stack
  <2>3. /\ Sp = stack.base - c.depth /\ Sp + 1 = stack.base - (c.depth - 1)
        /\ c.depth \in 1 .. Len(stack.bytes) /\ c.depth - 1 \in 1 .. Len(stack.bytes)
        /\ Sp <= W - 3
    <3>1. stack.base \in Int /\ stack.base <= W - 1 /\ W \in Int
      <4>1. W \in Nat /\ stack.base \in 0 .. W - 1
        BY <2>2, Sizes DEF Word
      <4> QED BY <4>1
    <3>2. c.depth \in Int /\ c.depth >= 2 /\ Sp = stack.base - c.depth
      BY <1>1, <2>1, <2>2
    <3> QED BY SMTT(30), <1>1, <2>2, <3>1, <3>2
  <2>4. Read16(Sp) = c.to
    <3>1. mem[Sp] = Low(c.to) /\ mem[Sp + 1] = High(c.to)
      BY <2>1, <2>3
    <3> QED BY <2>2, <3>1, BytesAreHalves DEF Read16
  <2>5. regs' = RStore(RStore(regs, IP, c.to), SP, (Sp + 2) % W)
    <3>1. ~Behind(Sp)
      BY <2>3, Sizes DEF Behind
    <3> QED BY <1>1, <2>4, <3>1 DEF Ret
  <2> DEFINE rs == RStore(regs, IP, c.to)
  <2>6. rs \in RegFile /\ GetWord(rs, IP) = c.to
    BY <1>1, <2>2, Stores, Pointers, Offsets, Integral DEF TypeOK
  <2>7. (Sp + 2) % W \in Int
    BY <1>1, PointerTypes, Integral
  <2> HIDE DEF rs
  <2>8. GetWord(RStore(rs, SP, (Sp + 2) % W), IP) = GetWord(rs, IP)
    <3>1. Offset(IP) = 16 /\ Bytes(SP) = {18, 19}
      BY Offsets, Pointers, SMT DEF Bytes, Halves, SP
    <3>2. \A o \in 0 .. 21 \ Bytes(SP) : RStore(rs, SP, (Sp + 2) % W)[o] = rs[o]
      BY <2>6, <2>7, Stores, Pointers
    <3>3. 16 \in 0 .. 21 \ Bytes(SP) /\ 17 \in 0 .. 21 \ Bytes(SP)
      BY <3>1
    <3>4. Offset(IP) + 1 = 17
      BY <3>1
    <3> QED BY <3>1, <3>2, <3>3, <3>4 DEF GetWord
  <2> QED BY <2>5, <2>6, <2>8 DEF rs
<1>2. TypeOK /\ StackIntact =>
        [\A i \in Code, c \in stack.calls :
           Ret(i) /\ c.depth = Len(stack.bytes) => GetWord(regs', IP) = c.to]_vars
  BY <1>1
<1> QED BY <1>2, TypeCorrect, StackHolds, PTL DEF Spec, ReturnsToCaller

(* An instruction writes the bytes of its destination, of ip and, a pop,   *)
(* of sp, and no others.                                                   *)
THEOREM DestinationOnly == Spec => NoSpill
<1> DEFINE Own(i) == Bytes(i.dst) \cup Bytes(IP) \cup IF i.op = "pop" THEN Bytes(SP) ELSE {}
<1>1. ASSUME TypeOK, NEW i \in Code, NEW n \in Int, i.dst \in Id,
             regs' = Stepped(RStore(regs, i.dst, n)), NEW o \in 0 .. 21 \ Own(i)
      PROVE  regs'[o] = regs[o]
  <2>1. o \in 0 .. 21 \ Bytes(i.dst) /\ o \in 0 .. 21 \ Bytes(IP)
    OBVIOUS
  <2>2. /\ RStore(regs, i.dst, n) \in RegFile
        /\ RStore(regs, i.dst, n)[o] = regs[o]
    BY <1>1, <2>1, Stores DEF TypeOK
  <2> QED BY <1>1, <2>1, <2>2, StepTypes
<1>2. ASSUME TypeOK, NEW i \in Code, Mov(i) \/ Load(i) \/ Pop(i) \/ Arithmetic(i),
             NEW o \in 0 .. 21 \ Own(i)
      PROVE  regs'[o] = regs[o]
  <2>1. /\ regs \in RegFile /\ mem \in [Word -> Byte]
        /\ Value(i.src) \in Word /\ Value(i.src) \in Int
    BY <1>2, Operands, Integral DEF TypeOK
  <2>2. CASE End("fault") \/ End("wild")
    BY <2>2 DEF End, machine
  <2>3. CASE Mov(i)
    <3>1. i.dst \in Id /\ regs' = Stepped(RStore(regs, i.dst, Value(i.src)))
      BY <2>1, <2>3, Operands DEF Mov, Execute, SetRegs
    <3> QED BY <1>1, <1>2, <2>1, <3>1
  <2>4. CASE Load(i) /\ ~(End("fault") \/ End("wild"))
    <3>1. i.dst \in Id
      BY <2>1, <2>4, Operands DEF Load, Execute
    <3>2. CASE Half(i.dst)
      <4>1. regs' = Stepped(RStore(regs, i.dst, mem[Value(i.src)]))
        BY <2>4, <3>2 DEF Load, SetRegs
      <4>2. mem[Value(i.src)] \in Int
        BY <2>1, Integral
      <4> QED BY <1>1, <1>2, <3>1, <4>1, <4>2
    <3>3. CASE ~Half(i.dst)
      <4>1. /\ ~Behind(Value(i.src))
            /\ regs' = Stepped(RStore(regs, i.dst, Read16(Value(i.src))))
        BY <2>4, <3>3 DEF Load, SetRegs
      <4>2. Read16(Value(i.src)) \in Int
        BY <2>1, <4>1, MemoryTypes, Integral
      <4> QED BY <1>1, <1>2, <3>1, <4>1, <4>2
    <3> QED BY <3>2, <3>3
  <2>5. CASE Arithmetic(i)
    <3>1. i.dst \in Id
      BY <2>1, <2>5, Operands DEF Arithmetic, Execute
    <3>2. PICK z \in Word : regs' = Stepped(RStore(regs, i.dst, z))
      BY <2>5 DEF Arithmetic, SetRegs
    <3>3. z \in Int
      BY <3>2, Integral
    <3> QED BY <1>1, <1>2, <3>1, <3>2, <3>3
  <2>6. CASE Pop(i) /\ ~(End("fault") \/ End("wild"))
    <3>1. i.op = "pop" /\ i.dst \in Id
      BY <2>1, <2>6, Operands DEF Pop, Execute
    <3>2. PICK width \in {1, 2} : width = IF Half(i.dst) THEN 1 ELSE 2
      OBVIOUS
    <3> DEFINE sp == (Sp + width) % W
               n == IF width = 1 THEN mem[Sp] ELSE Read16(Sp)
    <3>3. /\ ~(width = 2 /\ Behind(Sp))
          /\ regs' = Stepped(RStore(RStore(regs, SP, sp), i.dst, n))
      BY <2>6, <3>2 DEF Pop
    <3>4. sp \in Int
      BY <1>2, <3>2, PointerTypes, Integral
    <3>5. n \in Int
      <4>1. Sp \in Word /\ mem[Sp] \in Int
        BY <1>2, <2>1, PointerTypes, Integral
      <4>2. ~Behind(Sp) => Read16(Sp) \in Int
        BY <2>1, <4>1, MemoryTypes, Integral
      <4> QED BY <3>2, <3>3, <4>1, <4>2
    <3> HIDE DEF sp, n
    <3>6. /\ o \in 0 .. 21 \ Bytes(i.dst) /\ o \in 0 .. 21 \ Bytes(IP)
          /\ o \in 0 .. 21 \ Bytes(SP)
      BY <1>2, <3>1
    <3>7. RStore(regs, SP, sp) \in RegFile /\ RStore(regs, SP, sp)[o] = regs[o]
      BY <2>1, <3>4, <3>6, Stores, Pointers
    <3>8. /\ RStore(RStore(regs, SP, sp), i.dst, n) \in RegFile
          /\ RStore(RStore(regs, SP, sp), i.dst, n)[o] = RStore(regs, SP, sp)[o]
      BY <3>1, <3>5, <3>6, <3>7, Stores
    <3> QED BY <3>3, <3>6, <3>7, <3>8, StepTypes
  <2> QED BY <1>2, <2>2, <2>3, <2>4, <2>5, <2>6
<1>3. TypeOK =>
        [\A i \in Code :
           Mov(i) \/ Load(i) \/ Pop(i) \/ Arithmetic(i) =>
             \A o \in 0 .. 21 \ (Bytes(i.dst) \cup Bytes(IP)
                                     \cup IF i.op = "pop" THEN Bytes(SP) ELSE {}) :
               regs'[o] = regs[o]]_vars
  BY <1>2
<1> QED BY <1>3, TypeCorrect, PTL DEF Spec, NoSpill

-----------------------------------------------------------------------------
(* The interrupts keep the promise CpuControl was shown to keep, register  *)
(* by register.                                                            *)

LEMMA SeenTypes ==
  ASSUME NEW rs \in RegFile, NEW c \in {0, 1}
  PROVE  Seen(rs, c) \in Promise!Reg
<1>1. GetWord(rs, IP) \in Word
  BY Loads, Pointers
<1>2. Rest \subseteq 0 .. 21
  BY DEF Rest
<1>3. [o \in Rest |-> rs[o]] \in [Rest -> Byte]
  BY <1>2 DEF RegFile
<1> QED
  BY <1>1, <1>3 DEF Seen, Promise!Reg

LEMMA SeenMoved ==
  ASSUME NEW rs, NEW qs, NEW c, NEW h, GetWord(rs, IP) = h, \A o \in Rest : rs[o] = qs[o]
  PROVE  Seen(rs, c) = [Seen(qs, c) EXCEPT !.ip = h]
<1> DEFINE gp == [bytes |-> [o \in Rest |-> qs[o]], cf |-> c]
<1>1. [o \in Rest |-> rs[o]] = [o \in Rest |-> qs[o]]
  OBVIOUS
<1>2. Seen(rs, c) = [ip |-> h, gp |-> gp]
  BY <1>1 DEF Seen
<1>3. Seen(qs, c) = [ip |-> GetWord(qs, IP), gp |-> gp]
  BY DEF Seen
<1> HIDE DEF gp
<1> QED
  BY <1>2, <1>3

(* No instruction but rti touches what an interrupt saved.                 *)
LEMMA SavedIsLeft ==
  ASSUME NEW i \in Code, Instruction(i), ~Rti(i)
  PROVE  cache' = cache /\ inInterrupt' = inInterrupt
<1>1. CASE Push(i) \/ Call(i)
  BY <1>1 DEF Push, Call, PushedMachine, End, machine, Control
<1>2. CASE Pop(i) \/ Ret(i)
  BY <1>2 DEF Pop, Ret, End, machine, Control
<1>3. CASE Mov(i) \/ Compare(i) \/ Cfs(i) \/ Jump(i) \/ Arithmetic(i)
  BY <1>3 DEF Mov, Compare, Cfs, Jump, Arithmetic, SetRegs, Control
<1>4. CASE Load(i)
  BY <1>4 DEF Load, SetRegs, End, machine, Control
<1>5. CASE Store(i) \/ SetInterrupts(i) \/ WildFetch(i)
  BY <1>5 DEF Store, SetInterrupts, WildFetch, End, machine, Control
<1> QED
  BY <1>1, <1>2, <1>3, <1>4, <1>5 DEF Instruction

(* A step that leaves what was saved alone is one of the program's or the  *)
(* handler's.                                                              *)
LEMMA IsRun ==
  ASSUME TypeOK', cache' = cache, inInterrupt' = inInterrupt
  PROVE  Promise!Run
<1>1. Seen(regs', cf') \in Promise!Reg
  BY SeenTypes DEF TypeOK
<1>2. interrupts' \in BOOLEAN
  BY DEF TypeOK
<1> QED
  BY <1>1, <1>2 DEF Promise!Run

LEMMA InterruptPromised ==
  ASSUME TypeOK, NEW h \in Handlers, Interrupt(h)
  PROVE  Promise!Interrupt
<1>1. h \in Word \ {0} /\ regs \in RegFile
  BY CpuAssumption DEF TypeOK
<1>2. regs' = RStore(regs, IP, h) /\ cf' = cf /\ interrupts' = interrupts
  BY DEF Interrupt, Cached
<1>3. GetWord(regs', IP) = h
  <2>1. IP \in Id /\ ~Half(IP)
    BY Pointers, SMT DEF Half, IP
  <2> QED
    BY <1>1, <1>2, <2>1, Stores, Integral
<1>4. \A o \in Rest : regs'[o] = regs[o]
  <2>1. Rest = 0 .. 21 \ Bytes(IP)
    BY Pointers, Offsets, SMT DEF Rest, Bytes, Halves, IP
  <2> QED
    BY <1>1, <1>2, <2>1, Stores, Pointers, Integral
<1>5. Seen(regs', cf') = [Seen(regs, cf) EXCEPT !.ip = h]
  BY <1>2, <1>3, <1>4, SeenMoved
<1>6. /\ interrupts /\ ~inInterrupt /\ inInterrupt'
      /\ cache'.regs = regs /\ cache'.cf = cf
  BY DEF Interrupt, Cached
<1> QED
  BY <1>1, <1>2, <1>5, <1>6 DEF Promise!Interrupt

LEMMA RtiPromised ==
  ASSUME TypeOK, TypeOK', NEW i \in Code, Rti(i)
  PROVE  Promise!Run \/ Promise!Return
<1>1. /\ cache' = cache /\ ~inInterrupt' /\ interrupts' = interrupts
      /\ regs' = cache.regs /\ cf' = cache.cf
  BY DEF Rti
<1>2. CASE inInterrupt
  BY <1>1, <1>2 DEF Promise!Return
<1>3. CASE ~inInterrupt
  BY <1>1, <1>3, IsRun DEF TypeOK
<1> QED
  BY <1>2, <1>3

(* An interrupt takes the CPU from a program that accepts them and is no   *)
(* handler, no instruction of the handler touches what was saved, and rti  *)
(* gives back every register and the flag (issue_interrupt, rti): the      *)
(* instruction set keeps the promise of the control.                       *)
THEOREM KeepsThePromise == Spec => KeepsPromise
<1>1. TypeOK /\ TypeOK' /\ [Next]_vars => [Promise!Next]_(Promise!vars)
  <2> SUFFICES ASSUME TypeOK, TypeOK', [Next]_vars
               PROVE  [Promise!Next]_(Promise!vars)
    OBVIOUS
  <2>1. CASE UNCHANGED vars \/ Halted
    BY <2>1 DEF vars, machine, Halted, Promise!vars
  <2>2. ASSUME NEW i \in Code, Instruction(i), ~Rti(i)
        PROVE  Promise!Run
    BY <2>2, SavedIsLeft, IsRun
  <2>3. ASSUME NEW i \in Code, Rti(i)
        PROVE  Promise!Run \/ Promise!Return
    BY <2>3, RtiPromised
  <2>4. ASSUME NEW h \in Handlers, Interrupt(h)
        PROVE  Promise!Interrupt
    BY <2>4, InterruptPromised
  <2> QED
    BY <2>1, <2>2, <2>3, <2>4 DEF Next, Promise!Next
<1> QED
  BY <1>1, TypeCorrect, PTL DEF Spec, KeepsPromise

=============================================================================
