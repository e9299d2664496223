------------------------------- MODULE MCCpu -------------------------------
(* A machine with bytes of two bits, so that a word has four and the       *)
(* memory sixteen bytes, and one or two instructions of every operation.   *)
EXTENDS Cpu

None0    == [form |-> "none", val |-> 0]
Reg(id)  == [form |-> "reg", val |-> id]
Imm8(n)  == [form |-> "imm8", val |-> n]
Imm16(n) == [form |-> "imm16", val |-> n]
I(op, dst, src) == [op |-> op, dst |-> dst, src |-> src]

R0 == 0    R4 == 4    H0 == 16    L0 == 32    L3 == 35

Stacking ==
  {I("push", None, Reg(R0)), I("push", None, Reg(L3)), I("push", None, Imm16(6)),
   I("pop", R4, None0), I("pop", L3, None0), I("pop", SP, None0),
   I("call", None, Imm16(8)), I("call", None, Reg(SP)), I("ret", None, None0),
   I("sti", None, None0), I("rti", None, None0), I("store", R0, Reg(R0))}

Plain ==
  {I("mov", SP, Imm8(3)), I("load", L3, Imm16(6)), I("load", R0, Reg(H0)),
   I("cfs", None, None0), I("jeq", None, Imm16(12)),
   I("add", L3, Imm8(3)), I("mul", L3, Reg(R0)),
   I("cmp", R0, Imm8(1)), I("and", R0, Imm8(3)),
   I("shl", L3, Reg(R0))}

AllCode == Stacking \cup Plain

(* Register r0 with n, l3 with its highest value, and sp set.              *)
Files == {[o \in 0 .. 21 |-> CASE o = 0 -> n % B [] o = 1 -> n \div B
                              [] o = 7 -> B - 1
                              [] o = 18 -> sp % B [] o = 19 -> sp \div B
                              [] OTHER -> 0] : n \in {7}, sp \in {1, 9}}

(* Memory that was used before.                                            *)
Used == {[o \in 0 .. 21 |-> B - 1]}

=============================================================================
