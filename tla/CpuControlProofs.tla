-------------------------- MODULE CpuControlProofs --------------------------
(***************************************************************************)
(* Theorems about the control of the emulator, for every number of         *)
(* devices, every memory size and every program.                           *)
(***************************************************************************)
EXTENDS CpuControl, TLAPS

(* An instruction pointer stays in memory when it steps.                   *)
LEMMA SteppedInReg ==
  ASSUME NEW r \in Reg
  PROVE  Stepped(r) \in Reg
<1>1. (r.ip + InstrLen) % MemSize \in Addr
  BY ControlAssumption DEF Reg, Addr
<1>2. QED
  BY <1>1 DEF Stepped, Reg

LEMMA ResetInReg == ResetReg \in Reg
BY ControlAssumption DEF ResetReg, Reg, Addr

(* Every state of the emulator is well typed: no step takes the loop, the  *)
(* registers or the handlers out of their ranges (mainloop, poll_devices,  *)
(* cpucall).                                                               *)
LEMMA TypeInit == Init => TypeOK
<1>1. 0 \in Addr /\ 1 \in Device
  BY ControlAssumption DEF Addr, Device
<1>2. Init => interruptPtr \in [Device -> Addr]
  BY <1>1 DEF Init
<1>3. QED
  BY <1>1, <1>2, ResetInReg DEF Init, TypeOK

LEMMA TypeNext == TypeOK /\ [Next]_vars => TypeOK'
<1> SUFFICES ASSUME TypeOK, [Next]_vars
             PROVE  TypeOK'
  OBVIOUS
<1> USE DEF TypeOK
<1>1. Stepped(reg) \in Reg /\ ResetReg \in Reg
  BY SteppedInReg, ResetInReg
<1>2. ASSUME NEW a \in Addr
      PROVE  [reg EXCEPT !.ip = a] \in Reg
  BY DEF Reg
<1>3. ASSUME NEW v \in Value
      PROVE  [Stepped(reg) EXCEPT !.gp = v] \in Reg
  BY <1>1 DEF Reg
<1>4. ASSUME NEW d \in Device, Arrive(d)
      PROVE  TypeOK'
  BY <1>4 DEF Arrive
<1>5. CASE CycleStart
  BY <1>5, ControlAssumption DEF CycleStart, cpuVars, Device
<1>6. ASSUME phase = "poll", NextSlot
      PROVE  slot' \in Device /\ phase' \in {"poll", "exec"}
  BY <1>6, ControlAssumption DEF NextSlot, Device
<1>7. CASE PollSkips
  BY <1>7, <1>6 DEF PollSkips, cpuVars
<1>8. CASE PollIssues
  <2>1. interruptPtr[slot] \in Addr
    OBVIOUS
  <2>2. task' \subseteq Reg
    BY <1>8 DEF PollIssues, IssueInterrupt
  <2>3. reg' \in Reg /\ regCache' \in Reg /\ inInterrupt' \in BOOLEAN
    BY <1>8, <1>2, <2>1 DEF PollIssues, IssueInterrupt
  <2>4. QED
    BY <1>8, <1>6, <2>2, <2>3 DEF PollIssues
<1>9. CASE Compute
  BY <1>9 DEF Compute, Execute
<1>10. CASE Sti \/ Dsi
  BY <1>10, <1>1 DEF Sti, Dsi, Execute
<1>11. CASE Rti
  BY <1>11 DEF Rti, Execute
<1>12. ASSUME NEW id \in Device \cup {0}, NEW handler \in Addr,
              DeviceIntr(id, handler)
       PROVE  TypeOK'
  BY <1>12, <1>1 DEF DeviceIntr, Execute
<1>13. ASSUME NEW id \in Device \cup {0}, DeviceRead(id)
       PROVE  TypeOK'
  <2>1. PICK v \in Value, more \in BOOLEAN :
          /\ reg'   = [Stepped(reg) EXCEPT !.gp = v]
          /\ ready' = [d \in Device |-> IF d = id THEN ready[d] /\ more
                                                  ELSE ready[d]]
    BY <1>13 DEF DeviceRead
  <2>2. reg' \in Reg
    BY <2>1, <1>3
  <2>3. ready' \in [Device -> BOOLEAN]
    BY <2>1, Zenon
  <2>4. QED
    BY <1>13, <2>2, <2>3 DEF DeviceRead, Execute
<1>14. ASSUME NEW id \in Device \cup {0}, DeviceWrite(id)
       PROVE  TypeOK'
  <2>1. PICK answers \in BOOLEAN :
          ready' = [d \in Device |->
                      ready[d] \/ (d = 1 /\ d = id /\ answers)]
    BY <1>14 DEF DeviceWrite
  <2>2. ready' \in [Device -> BOOLEAN]
    BY <2>1, Zenon
  <2>3. QED
    BY <1>14, <1>1, <2>2 DEF DeviceWrite, Execute
<1>15. CASE Restart
  BY <1>15, <1>1 DEF Restart, Execute
<1>16. CASE PowerOff \/ Fault
  BY <1>16 DEF PowerOff, Fault, Stop, cpuVars
<1>17. CASE Halted \/ UNCHANGED vars
  BY <1>17 DEF Halted, vars, cpuVars
<1>18. QED
  BY <1>4, <1>5, <1>7, <1>8, <1>9, <1>10, <1>11, <1>12, <1>13, <1>14, <1>15,
     <1>16, <1>17
  DEF Next, Cycle, Instruction, Cpucall

THEOREM TypeCorrect == Spec => []TypeOK
BY TypeInit, TypeNext, PTL DEF Spec

-----------------------------------------------------------------------------
(* The steps of the loop that matter to an interrupted program, for the    *)
(* programs that keep one device armed.                                    *)

LEMMA OneArmedInit == Init => OneArmedInv
BY TypeInit DEF Init, OneArmedInv, CacheIsTask, AtMostOneArmed, Armed,
                ScanIsOver

(* The instructions other than rti and the restart leave the cache, the    *)
(* interrupted program and the handler mode alone.                         *)
LEMMA InstructionKeepsTask ==
  ASSUME Instruction
  PROVE  /\ phase = "exec"
         /\ phase' \in {"top", "off", "dead"}
         /\ regCache' = regCache
         /\ \/ task' = task /\ inInterrupt' = inInterrupt
            \/ task' = {}
BY DEF Instruction, Compute, Sti, Dsi, Rti, Cpucall, DeviceIntr, DeviceRead,
       DeviceWrite, Restart, PowerOff, Fault, Stop, Execute, cpuVars

(* With one device armed, the device that raised the interrupt is the only *)
(* one the rest of the scan could have served.                             *)
LEMMA IssueEndsScan ==
  ASSUME OneArmedInv, PollIssues
  PROVE  /\ ~inInterrupt
         /\ interrupts
         /\ ScanIsOver'
<1> USE DEF OneArmedInv, TypeOK
<1>1. slot \in Device /\ slot \in slot .. NDevices /\ Armed(slot)
  BY DEF PollIssues, Device
<1>2. ~inInterrupt /\ interrupts
  BY <1>1 DEF PollIssues, ScanIsOver
<1>3. ASSUME phase' = "poll"
      PROVE  \A d \in slot' .. NDevices : ~Armed(d)'
  <2>1. slot' = slot + 1 /\ interruptPtr' = interruptPtr
    BY <1>3 DEF PollIssues, NextSlot
  <2>2. ASSUME NEW d \in slot' .. NDevices
        PROVE  ~Armed(d)
    BY <1>1, <2>1 DEF AtMostOneArmed, Device
  <2>3. QED
    BY <2>1, <2>2 DEF Armed
<1>4. QED
  BY <1>2, <1>3 DEF ScanIsOver, PollIssues

LEMMA OneArmedStep == OneArmedInv /\ [OneArmedNext]_vars => OneArmedInv'
<1> SUFFICES ASSUME OneArmedInv, [OneArmedNext]_vars
             PROVE  OneArmedInv'
  OBVIOUS
<1>1. TypeOK'
  BY TypeNext DEF OneArmedInv, OneArmedNext
<1>2. AtMostOneArmed'
  BY DEF OneArmedInv, OneArmedNext, AtMostOneArmed, Armed, vars, cpuVars
<1>3. CASE \/ Halted \/ UNCHANGED vars
           \/ \E d \in Device : Arrive(d)
  BY <1>1, <1>2, <1>3
  DEF OneArmedInv, CacheIsTask, ScanIsOver, Armed, Halted, Arrive, vars, cpuVars
<1>4. CASE CycleStart
  BY <1>1, <1>2, <1>4
  DEF OneArmedInv, CacheIsTask, ScanIsOver, Armed, CycleStart, MayPoll, cpuVars
<1>5. CASE PollSkips
  <2>1. ASSUME phase' = "poll", NEW d \in slot' .. NDevices
        PROVE  d \in slot .. NDevices
    BY <1>5, <2>1 DEF PollSkips, NextSlot, OneArmedInv, TypeOK, Device
  <2>2. ScanIsOver'
    BY <1>5, <2>1 DEF PollSkips, ScanIsOver, OneArmedInv, Armed, cpuVars
  <2>3. QED
    BY <1>1, <1>2, <1>5, <2>2 DEF PollSkips, OneArmedInv, CacheIsTask, cpuVars
<1>6. CASE PollIssues
  <2>1. CacheIsTask' /\ inInterrupt'
    BY <1>6, IssueEndsScan
    DEF PollIssues, IssueInterrupt, CacheIsTask
  <2>2. QED
    BY <1>1, <1>2, <1>6, <2>1, IssueEndsScan DEF OneArmedInv
<1>7. CASE Instruction
  <2>1. /\ phase' # "poll"
        /\ regCache' = regCache
        /\ (task' = task /\ inInterrupt' = inInterrupt) \/ task' = {}
    BY <1>7, InstructionKeepsTask
  <2>2. QED
    BY <1>1, <1>2, <2>1 DEF OneArmedInv, CacheIsTask, ScanIsOver
<1>8. QED
  BY <1>3, <1>4, <1>5, <1>6, <1>7 DEF OneArmedNext, Next, Cycle

LEMMA OneArmedInvariant == OneArmedSpec => []OneArmedInv
BY OneArmedInit, OneArmedStep, PTL DEF OneArmedSpec

(* As long as the program keeps one device armed at a time, what rti is    *)
(* going to restore is the interrupted program, whatever the devices do    *)
(* (issue_interrupt, rti).                                                 *)
THEOREM CacheHoldsTask == OneArmedSpec => []CacheIsTask
<1>1. OneArmedInv => CacheIsTask
  BY DEF OneArmedInv
<1>2. QED
  BY <1>1, OneArmedInvariant, PTL

(* Under the same condition no handler is interrupted (poll_devices).      *)
THEOREM HandlersDoNotNest == OneArmedSpec => NoNestedInterrupt
<1>1. OneArmedInv /\ [OneArmedNext]_vars
        => [PollIssues => interrupts /\ ~inInterrupt]_vars
  BY IssueEndsScan
<1>2. QED
  BY <1>1, OneArmedInvariant, PTL DEF OneArmedSpec, NoNestedInterrupt

-----------------------------------------------------------------------------
(* The control implements the promise, one step for one step.              *)

LEMMA PromiseInit == Init => Promise!Init
BY DEF Init, Promise!Init

LEMMA PromiseStep ==
  ASSUME OneArmedInv, TypeOK', [OneArmedNext]_vars
  PROVE  [Promise!Next]_(Promise!vars)
<1> USE DEF Promise!vars, Promise!Reg, Reg
<1>1. CASE \/ Halted \/ UNCHANGED vars \/ CycleStart \/ PollSkips
           \/ \E d \in Device : Arrive(d)
  BY <1>1 DEF Halted, CycleStart, PollSkips, Arrive, vars, cpuVars
<1>2. CASE PollIssues
  <2>1. ~inInterrupt /\ interrupts /\ task = {}
    BY <1>2, IssueEndsScan DEF OneArmedInv
  <2>2. interruptPtr[slot] \in Addr \ {0}
    BY <1>2 DEF PollIssues, Armed, OneArmedInv, TypeOK
  <2>3. Promise!Interrupt
    BY <1>2, <2>1, <2>2 DEF PollIssues, IssueInterrupt, Promise!Interrupt
  <2>4. QED
    BY <2>3 DEF Promise!Next
<1>3. CASE Compute \/ Sti \/ Dsi \/ PowerOff \/ Fault
  <2>1. Promise!Run
    BY <1>3 DEF Compute, Sti, Dsi, PowerOff, Fault, Stop, Execute, TypeOK,
                cpuVars, Promise!Run
  <2>2. QED
    BY <2>1 DEF Promise!Next
<1>4. ASSUME NEW id \in Device \cup {0}, NEW handler \in Addr,
             DeviceIntr(id, handler) \/ DeviceRead(id) \/ DeviceWrite(id)
      PROVE  Promise!Next
  <2>1. Promise!Run
    BY <1>4 DEF DeviceIntr, DeviceRead, DeviceWrite, TypeOK, Promise!Run
  <2>2. QED
    BY <2>1 DEF Promise!Next
<1>5. CASE Rti
  <2>1. CASE task = {}
    BY <1>5, <2>1 DEF Rti, TypeOK, Promise!Run, Promise!Next
  <2>2. CASE task # {}
    <3>1. task = {regCache}
      BY <2>2 DEF OneArmedInv, CacheIsTask
    <3>2. Promise!Return
      BY <1>5, <3>1 DEF Rti, Promise!Return
    <3>3. QED
      BY <3>2 DEF Promise!Next
  <2>3. QED
    BY <2>1, <2>2
<1>6. CASE Restart
  BY <1>6 DEF Restart, Promise!Restart, Promise!Next
<1>7. 0 \in Addr
  BY ControlAssumption DEF Addr
<1>8. CASE Cpucall
  BY <1>3, <1>4, <1>6, <1>7, <1>8 DEF Cpucall
<1>9. QED
  BY <1>1, <1>2, <1>3, <1>5, <1>8 DEF OneArmedNext, Next, Cycle, Instruction

(* For the programs that keep one device armed at a time, the loop, the    *)
(* scan and the cache of the emulator implement InterruptPromise: an       *)
(* interrupted program gets back exactly the registers it had.             *)
THEOREM ImplementsPromise == OneArmedSpec => PromiseSpec
<1>1. OneArmedInv /\ OneArmedInv' /\ [OneArmedNext]_vars
        => [Promise!Next]_(Promise!vars)
  BY PromiseStep DEF OneArmedInv
<1>2. QED
  BY <1>1, PromiseInit, OneArmedInvariant, PTL
  DEF OneArmedSpec, PromiseSpec, Promise!Spec

-----------------------------------------------------------------------------
(* No wakeup is lost, whatever the number of armed devices.                *)

LEMMA DueInit == Init => DueInv
BY TypeInit DEF Init, DueInv, DueIsServed, ScanProgress

(* One slot of the scan preserves what the scan has established.           *)
LEMMA ScanStep ==
  ASSUME DueInv, TypeOK', PollSkips \/ PollIssues
  PROVE  DueInv'
<1> DEFINE Passed(s) == {e \in due : e < s}
           Served(d) == d \in Device /\ reg.ip = interruptPtr[d]
<1> USE DEF DueInv, TypeOK
<1>1. /\ phase = "poll" /\ slot \in Device
      /\ due' = due /\ interruptPtr' = interruptPtr /\ ready' = ready
      /\ \/ phase' = "exec" /\ slot = NDevices /\ slot' = slot
         \/ phase' = "poll" /\ slot' = slot + 1
  BY DEF PollSkips, PollIssues, NextSlot, cpuVars
<1>2. due \subseteq Device /\ Device \subseteq Int /\ NDevices \in Int
  BY ControlAssumption DEF Device
<1>3. \A e \in due : e < slot + 1 <=> e <= slot
  BY <1>1, <1>2
<1>4. ASSUME \E e \in due : e <= slot
      PROVE  /\ inInterrupt'
             /\ \E d \in Device : /\ d <= slot
                                  /\ \A e \in due : e <= slot => e <= d
                                  /\ reg'.ip = interruptPtr[d]
  <2>1. CASE PollIssues
    <3>1. reg'.ip = interruptPtr[slot] /\ inInterrupt'
      BY <2>1 DEF PollIssues, IssueInterrupt, Reg
    <3>2. QED
      BY <1>1, <1>2, <3>1
  <2>2. CASE PollSkips
    <3>1. slot \notin due
      BY <1>1, <2>2 DEF PollSkips, ScanProgress, Armed
    <3>2. \A e \in due : e <= slot => e < slot
      BY <1>1, <1>2, <3>1
    <3>3. \E e \in due : e < slot
      BY <1>4, <3>2
    <3>4. inInterrupt' = inInterrupt /\ reg' = reg
      BY <2>2 DEF PollSkips, cpuVars
    <3>5. PICK d \in Device : /\ d < slot
                              /\ \A e \in due : e < slot => e <= d
                              /\ reg.ip = interruptPtr[d]
      BY <1>1, <3>3 DEF ScanProgress
    <3>6. d <= slot
      BY <1>1, <1>2, <3>5
    <3>7. inInterrupt
      BY <1>1, <3>3 DEF ScanProgress
    <3>8. QED
      BY <3>2, <3>4, <3>5, <3>6, <3>7
  <2>3. QED
    BY <2>1, <2>2
<1>5. CASE phase' = "poll"
  <2>1. DueIsServed'
    BY <1>5 DEF DueIsServed
  <2>2. \A e \in due' : Armed(e)' /\ ready'[e]
    BY <1>1 DEF ScanProgress, Armed
  <2>3. slot' = slot + 1
    BY <1>1, <1>5
  <2>4. \A d \in Device : d <= slot => d < slot'
    BY <1>1, <1>2, <2>3
  <2>5. ScanProgress'
    BY <1>1, <1>3, <1>4, <2>2, <2>3, <2>4 DEF ScanProgress
  <2>6. QED
    BY <2>1, <2>5
<1>6. CASE phase' = "exec"
  <2>1. slot = NDevices /\ \A e \in due : e <= slot
    BY <1>1, <1>2, <1>6 DEF Device
  <2>2. DueIsServed'
    BY <1>1, <1>4, <2>1 DEF DueIsServed
  <2>3. ScanProgress'
    BY <1>6 DEF ScanProgress
  <2>4. QED
    BY <2>2, <2>3
<1>7. QED
  BY <1>1, <1>5, <1>6

LEMMA DueStep == DueInv /\ [Next]_vars => DueInv'
<1> SUFFICES ASSUME DueInv, [Next]_vars
             PROVE  DueInv'
  OBVIOUS
<1>1. TypeOK'
  BY TypeNext DEF DueInv
<1>2. CASE Halted \/ UNCHANGED vars
  BY <1>1, <1>2 DEF DueInv, DueIsServed, ScanProgress, Armed, Halted, vars,
                    cpuVars
<1>3. ASSUME NEW d \in Device, Arrive(d)
      PROVE  DueInv'
  <2>1. \A e \in due : ready[e] => ready'[e]
    BY <1>3 DEF Arrive, DueInv, TypeOK
  <2>2. DueIsServed' /\ ScanProgress'
    BY <1>3, <2>1 DEF Arrive, DueInv, DueIsServed, ScanProgress, Armed
  <2>3. QED
    BY <1>1, <2>2 DEF DueInv
<1>4. CASE CycleStart
  <2>1. ScanProgress'
    <3>1. CASE MayPoll
      <4>1. slot' = 1 /\ due' = {d \in Device : Armed(d) /\ ready[d]}
        BY <1>4, <3>1 DEF CycleStart
      <4>2. \A e \in due' : ~(e < slot')
        BY <4>1 DEF Device
      <4>3. \A e \in due' : Armed(e)' /\ ready'[e]
        BY <1>4, <4>1 DEF CycleStart, cpuVars, Armed
      <4>4. QED
        BY <4>2, <4>3 DEF ScanProgress
    <3>2. CASE ~MayPoll
      BY <1>4, <3>2 DEF CycleStart, ScanProgress
    <3>3. QED
      BY <3>1, <3>2
  <2>2. DueIsServed'
    BY <1>4 DEF CycleStart, DueIsServed
  <2>3. QED
    BY <1>1, <2>1, <2>2 DEF DueInv
<1>5. CASE PollSkips \/ PollIssues
  BY <1>1, <1>5, ScanStep
<1>6. CASE Instruction
  <2>1. phase' \in {"top", "off", "dead"}
    BY <1>6, InstructionKeepsTask
  <2>2. DueIsServed' /\ ScanProgress'
    BY <2>1 DEF DueIsServed, ScanProgress
  <2>3. QED
    BY <1>1, <2>2 DEF DueInv
<1>7. QED
  BY <1>2, <1>3, <1>4, <1>5, <1>6 DEF Next, Cycle

(* A device that was armed and ready when the scan began has the CPU in a  *)
(* handler before the next instruction, with any number of armed devices   *)
(* and input arriving at any moment (poll_devices).                        *)
THEOREM NoLostWakeup == Spec => []DueIsServed
<1>1. DueInv => DueIsServed
  BY DEF DueInv
<1>2. QED
  BY <1>1, DueInit, DueStep, PTL DEF Spec

=============================================================================
