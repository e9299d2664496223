----------------------------- MODULE CpuControl -----------------------------
(***************************************************************************)
(* The control of the irid emulator (emul/src/cpu.cc): the main loop, the  *)
(* poll of the devices before each instruction, the delivery of an         *)
(* interrupt, rti, and the CPU calls that change what the loop does next.  *)
(*                                                                         *)
(* The program is arbitrary: an instruction that is not one of the control *)
(* instructions may leave any register file behind.  Input arrives at a    *)
(* device at any moment, also between the polls of two devices of the same *)
(* scan.                                                                   *)
(***************************************************************************)
EXTENDS Integers

CONSTANTS
  NDevices,   (* devices added by main.cc: the console, then the serials   *)
  MemSize,    (* bytes of memory; 65536 in the code                        *)
  InstrLen,   (* bytes of an instruction; 4 in the code                    *)
  Value       (* contents of the registers other than ip                   *)

ASSUME ControlAssumption ==
  /\ NDevices \in Nat \ {0}
  /\ MemSize  \in Nat \ {0}
  /\ InstrLen \in Nat
  /\ 0 \in Value

Device == 1 .. NDevices            \* the order of m_devices
Addr   == 0 .. MemSize - 1

(***************************************************************************)
(* struct irid_reg.  ip is kept apart, since the control reads and writes  *)
(* it; gp stands for r0-r7, sp, bp and the flags.                          *)
(***************************************************************************)
Reg == [ip : Addr, gp : Value]

(* cpu::initialize: memset(&m_reg, 0).                                     *)
ResetReg == [ip |-> 0, gp |-> 0]

VARIABLES
  reg,           (* m_reg                                                  *)
  regCache,      (* m_reg_cache: not initialised by the constructor        *)
  interrupts,    (* m_interrupts, set by sti and cleared by dsi            *)
  inInterrupt,   (* m_in_interrupt                                         *)
  interruptPtr,  (* device.interrupt_ptr; 0 when no handler is installed   *)
  ready,         (* what the poll function of the device would answer      *)
  phase,         (* where the loop is: "top", "poll", "exec", "off", "dead"*)
  slot,          (* i, the device poll_devices looks at next               *)
  task,          (* history: the interrupted program, {} when there is none*)
  due            (* history: the armed devices ready when the scan began   *)

cpuVars == <<reg, regCache, interrupts, inInterrupt, interruptPtr, ready>>
vars    == <<cpuVars, phase, slot, task, due>>

-----------------------------------------------------------------------------
Armed(d) == interruptPtr[d] # 0

(* Mutant of MayPoll: a handler can be interrupted too.                    *)
MayPollNested == interrupts

(* The scan runs only with interrupts on and outside a handler.            *)
MayPoll == interrupts /\ ~inInterrupt

(* Mutant of Stepped: ip is wider than the memory.                         *)
SteppedNoWrap(r) == [r EXCEPT !.ip = @ + InstrLen]

(* ip += 4, with the wrap of a 16-bit register.                            *)
Stepped(r) == [r EXCEPT !.ip = (@ + InstrLen) % MemSize]

Init ==
  /\ reg          = ResetReg
  /\ regCache     \in Reg
  /\ interrupts   = FALSE
  /\ inInterrupt  = FALSE
  /\ interruptPtr = [d \in Device |-> 0]
  /\ ready        \in [Device -> BOOLEAN]
  /\ phase        = "top"
  /\ slot         = 1
  /\ task         = {}
  /\ due          = {}

-----------------------------------------------------------------------------
(* The outside world: a byte, or the end of the input, reaches device d.   *)
Arrive(d) ==
  /\ ~ready[d]
  /\ ready' = [ready EXCEPT ![d] = TRUE]
  /\ UNCHANGED <<reg, regCache, interrupts, inInterrupt, interruptPtr,
                 phase, slot, task, due>>

(* The head of the loop decides whether the devices are polled.            *)
CycleStart ==
  /\ phase = "top"
  /\ IF MayPoll
       THEN /\ phase' = "poll"
            /\ slot'  = 1
            /\ due'   = {d \in Device : Armed(d) /\ ready[d]}
       ELSE /\ phase' = "exec"
            /\ due'   = {}
            /\ UNCHANGED slot
  /\ UNCHANGED <<cpuVars, task>>

(* Mutant of NextSlot: the loop stops at the first device.                 *)
NextSlotFirstOnly ==
  /\ phase' = "exec"
  /\ UNCHANGED slot

(* poll_devices goes on to the next device, or returns to the loop.        *)
NextSlot ==
  IF slot = NDevices
    THEN /\ phase' = "exec"
         /\ UNCHANGED slot
    ELSE /\ slot' = slot + 1
         /\ UNCHANGED phase

PollSkips ==
  /\ phase = "poll"
  /\ ~(Armed(slot) /\ ready[slot])
  /\ NextSlot
  /\ UNCHANGED <<cpuVars, task, due>>

(* Mutant of IssueInterrupt: the jump is made before the registers are     *)
(* cached.                                                                 *)
IssueInterruptJumpFirst(addr) ==
  /\ inInterrupt' = TRUE
  /\ regCache'    = [reg EXCEPT !.ip = addr]
  /\ reg'         = [reg EXCEPT !.ip = addr]
  /\ task'        = IF inInterrupt THEN task ELSE {reg}

(* issue_interrupt(addr): the registers go to the cache and ip to addr.    *)
IssueInterrupt(addr) ==
  /\ inInterrupt' = TRUE
  /\ regCache'    = reg
  /\ reg'         = [reg EXCEPT !.ip = addr]
  /\ task'        = IF inInterrupt THEN task ELSE {reg}

(* The loop of poll_devices does not stop at the first device it serves.   *)
PollIssues ==
  /\ phase = "poll"
  /\ Armed(slot) /\ ready[slot]
  /\ IssueInterrupt(interruptPtr[slot])
  /\ NextSlot
  /\ UNCHANGED <<interrupts, interruptPtr, ready, due>>

-----------------------------------------------------------------------------
(* One instruction is executed and the loop returns to its head.           *)
Execute ==
  /\ phase  = "exec"
  /\ phase' = "top"
  /\ UNCHANGED slot
  /\ due'   = {}

(* Any instruction that touches only registers and memory: moves, loads,   *)
(* the stack, arithmetic, comparisons, jumps, calls, and the CPU calls     *)
(* that list, describe and poll the devices.                               *)
Compute ==
  /\ Execute
  /\ \E r \in Reg : reg' = r
  /\ UNCHANGED <<regCache, interrupts, inInterrupt, interruptPtr, ready, task>>

Sti ==
  /\ Execute
  /\ interrupts' = TRUE
  /\ reg' = Stepped(reg)
  /\ UNCHANGED <<regCache, inInterrupt, interruptPtr, ready, task>>

Dsi ==
  /\ Execute
  /\ interrupts' = FALSE
  /\ reg' = Stepped(reg)
  /\ UNCHANGED <<regCache, inInterrupt, interruptPtr, ready, task>>

(* rti restores the cache whether or not a handler is running.             *)
Rti ==
  /\ Execute
  /\ inInterrupt' = FALSE
  /\ reg'  = regCache
  /\ task' = {}
  /\ UNCHANGED <<regCache, interrupts, interruptPtr, ready>>

(* cpucall 0x15.  A handler of 0 uninstalls; an unknown id does nothing.   *)
DeviceIntr(id, handler) ==
  /\ Execute
  /\ interruptPtr' = [d \in Device |-> IF d = id THEN handler
                                                 ELSE interruptPtr[d]]
  /\ reg' = Stepped(reg)
  /\ UNCHANGED <<regCache, interrupts, inInterrupt, ready, task>>

(* cpucall 0x21.  The byte lands in h2; more input may be left.            *)
DeviceRead(id) ==
  /\ Execute
  /\ \E v \in Value, more \in BOOLEAN :
       /\ reg'   = [Stepped(reg) EXCEPT !.gp = v]
       /\ ready' = [d \in Device |-> IF d = id THEN ready[d] /\ more
                                               ELSE ready[d]]
  /\ UNCHANGED <<regCache, interrupts, inInterrupt, interruptPtr, task>>

(* cpucall 0x20.  The console (device 1) may queue an answer to read.      *)
DeviceWrite(id) ==
  /\ Execute
  /\ \E answers \in BOOLEAN :
       ready' = [d \in Device |-> ready[d] \/ (d = 1 /\ d = id /\ answers)]
  /\ reg' = Stepped(reg)
  /\ UNCHANGED <<regCache, interrupts, inInterrupt, interruptPtr, task>>

(* cpucall 0x11: start() catches the request and calls initialize, which   *)
(* clears the registers and nothing else; the program starts over.         *)
Restart ==
  /\ Execute
  /\ reg'  = ResetReg
  /\ task' = {}
  /\ UNCHANGED <<regCache, interrupts, inInterrupt, interruptPtr, ready>>

(* cpucall 0x10 leaves start(); a fault ends the process.                  *)
Stop(how) ==
  /\ phase  = "exec"
  /\ phase' = how
  /\ UNCHANGED <<cpuVars, slot, task, due>>

PowerOff == Stop("off")
Fault    == Stop("dead")

(* Nothing runs after the end.                                             *)
Halted ==
  /\ phase \in {"off", "dead"}
  /\ UNCHANGED vars

-----------------------------------------------------------------------------
Cpucall ==
  \/ \E id \in Device \cup {0}, handler \in Addr : DeviceIntr(id, handler)
  \/ \E id \in Device \cup {0} : DeviceRead(id) \/ DeviceWrite(id)
  \/ Restart \/ PowerOff

Instruction == Compute \/ Sti \/ Dsi \/ Rti \/ Cpucall \/ Fault

Cycle == CycleStart \/ PollSkips \/ PollIssues \/ Instruction

Next == Cycle \/ Halted \/ \E d \in Device : Arrive(d)

Spec == Init /\ [][Next]_vars

(* The emulator never blocks: every device function it calls is            *)
(* non-blocking, so the loop goes on as long as it can.                    *)
FairSpec == Spec /\ WF_vars(Cycle)

(* The programs that keep a handler on one device at a time.               *)
AtMostOneArmed == \A d, e \in Device : Armed(d) /\ Armed(e) => d = e

OneArmedNext == Next /\ AtMostOneArmed'

OneArmedSpec == Init /\ [][OneArmedNext]_vars

(* What the interrupts promise the program, with the interrupted program   *)
(* as the saved context.                                                   *)
Promise == INSTANCE InterruptPromise WITH
  Contents <- Value, saved <- task, Reset <- ResetReg

PromiseSpec == Promise!Spec

-----------------------------------------------------------------------------
TypeOK ==
  /\ reg          \in Reg
  /\ regCache     \in Reg
  /\ interrupts   \in BOOLEAN
  /\ inInterrupt  \in BOOLEAN
  /\ interruptPtr \in [Device -> Addr]
  /\ ready        \in [Device -> BOOLEAN]
  /\ phase        \in {"top", "poll", "exec", "off", "dead"}
  /\ slot         \in Device
  /\ task         \subseteq Reg
  /\ due          \subseteq Device

(* What rti is going to restore is the program the interrupt took the CPU  *)
(* from: "the CPU caches all registers to be restored when rti is called"  *)
(* (issue_interrupt).                                                      *)
CacheIsTask == task \subseteq {regCache}

(* Every device that was armed and ready when the scan began has been      *)
(* noticed before the next instruction: the CPU enters a handler, that of  *)
(* the last such device or of a later one that became ready meanwhile.     *)
DueIsServed ==
  phase = "exec" /\ due # {} =>
    /\ inInterrupt
    /\ \E d \in Device : (\A e \in due : e <= d) /\ reg.ip = interruptPtr[d]

(* An interrupt is taken only by a program that enabled interrupts and is  *)
(* not itself a handler (the condition at the head of the loop).           *)
NoNestedInterrupt == [][PollIssues => interrupts /\ ~inInterrupt]_vars

(* A ready armed device is served when the loop comes round with           *)
(* interrupts on and no handler running.                                   *)
ReadyIsServed ==
  \A d \in Device :
    phase = "top" /\ MayPoll /\ Armed(d) /\ ready[d] ~> inInterrupt

-----------------------------------------------------------------------------
(* The inductive invariants behind CacheIsTask and DueIsServed.            *)

(* While a handler runs the rest of the scan finds no armed device.        *)
ScanIsOver ==
  phase = "poll" => /\ interrupts
                    /\ inInterrupt => \A d \in slot .. NDevices : ~Armed(d)

(* With one device armed at a time, the cache holds the interrupted        *)
(* program for as long as there is one: cpu.cc saves it once and the       *)
(* handler is not interrupted.                                             *)
OneArmedInv ==
  /\ TypeOK
  /\ CacheIsTask
  /\ task # {} => inInterrupt
  /\ AtMostOneArmed
  /\ ScanIsOver

(* In the middle of a scan: the devices that were due still are, and those *)
(* the scan has passed have put the CPU into a handler.                    *)
ScanProgress ==
  phase = "poll" =>
    /\ \A e \in due : Armed(e) /\ ready[e]
    /\ (\E e \in due : e < slot) =>
         /\ inInterrupt
         /\ \E d \in Device : /\ d < slot
                              /\ \A e \in due : e < slot => e <= d
                              /\ reg.ip = interruptPtr[d]

DueInv == TypeOK /\ DueIsServed /\ ScanProgress

=============================================================================
