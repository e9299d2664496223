-------------------------- MODULE InterruptPromise --------------------------
(***************************************************************************)
(* What the interrupts of the irid CPU promise a program, whatever the     *)
(* devices and the order they are polled in: an interrupt takes the CPU    *)
(* from a program that enabled interrupts and is not a handler, keeps all  *)
(* its registers, and rti gives them back; a restart forgets them.         *)
(*                                                                         *)
(* CpuControl implements it for the programs that keep one device armed.   *)
(* The instructions of Cpu keep it, step for step.                         *)
(***************************************************************************)
CONSTANTS
  Addr,               \* where code can be
  Contents,           \* contents of the registers other than ip
  Reset               \* the registers of a CPU that starts

VARIABLES
  reg,                \* the registers
  interrupts,         \* whether the program accepts interrupts
  saved               \* the interrupted program: {} or the set of its registers

vars == <<reg, interrupts, saved>>

Reg == [ip : Addr, gp : Contents]

Init ==
  /\ reg = Reset
  /\ interrupts = FALSE
  /\ saved = {}

(* The program, or the handler, executes an instruction.                   *)
Run ==
  /\ reg' \in Reg
  /\ interrupts' \in BOOLEAN
  /\ UNCHANGED saved

(* The CPU is taken from the program: the handler starts with its          *)
(* registers, at an address that is not 0.                                 *)
Interrupt ==
  /\ interrupts
  /\ saved = {}
  /\ saved' = {reg}
  /\ \E handler \in Addr \ {0} : reg' = [reg EXCEPT !.ip = handler]
  /\ UNCHANGED interrupts

(* The handler returns, and the program finds the registers it had.        *)
Return ==
  /\ saved = {reg'}
  /\ saved' = {}
  /\ UNCHANGED interrupts

(* The program starts over, with interrupts as it left them.               *)
Restart ==
  /\ reg' = Reset
  /\ saved' = {}
  /\ UNCHANGED interrupts

Next == Run \/ Interrupt \/ Return \/ Restart

Spec == Init /\ [][Next]_vars

=============================================================================
