# Verification of irid

irid is a 16-bit computer that does not exist, with the tools to program it: an
emulator (`irid-emul`), an assembler (`irid-as`), a linker (`irid-ld`), a
compiler for a small language (`lc`) and a little standard library in assembly.
This directory holds TLA+ models of the parts whose correctness depends on the
order of things, the TLC runs that check them on small instances, and TLAPS
proofs for instances of any size.

    tlc -workers 2 -config control_any.cfg CpuControl
    tlapm LinkerProofs.tla

`PROJECT.json` lists the runs, the mutants every property must catch, the lines
each definition stands for, the hazards of the code and the theorems.

## 1. The system

| component | state it keeps | operations | modelled by |
|---|---|---|---|
| emulator: control (`emul/src/cpu.cc`) | registers, their cache, interrupt flag, interrupt mode, one handler address per device | main loop, poll of the devices, delivery of an interrupt, `rti`, `sti`, `dsi`, the CPU calls, restart, power off, fault | `CpuControl`, `InterruptPromise`, `CpuControlProofs` |
| emulator: instructions (`cpu.cc`, `memory.cc`) | registers byte by byte, compare flag, 64 KiB | about 50 instructions | `Cpu`, `CpuProofs` |
| emulator: console (`console.cc`) | control mode, answers waiting to be read | read, write, poll, the size request | `Console`, `ConsoleProofs` |
| emulator: serial (`serial.cc`) | a file descriptor | read, write, poll | a device that becomes ready, in `CpuControl` |
| linker: regions (`ld/src/region.c`) | a doubly linked chain of free and allocated ranges | contains, insert, free | `LdRegion`, `LinkerProofs`, `LinkerFileProofs` |
| linker (`ld/src/link.c`) | sections and their regions, symbols, output | place fixed, place movable, collect symbols, copy, zero, link | `Linker`, `LdPlacement`, `LinkerProofs`, `LinkerFileProofs` |
| linker: input and dumps (`object.c`, `section.c`, ...) | - | parse an object file, print | no: I/O done once |
| object format builder (`libiridtools/src/iof_*.cc`) | section bytes, origin | strip the origin, lay out tables | the section in `Assembler`; the layout is planned |
| byte buffer (`libiridtools/src/bytebuffer.cc`) | growing pages of bytes | insert, append, fill | insertion in `Assembler` (`Put`) |
| assembler (`as/src/assembler.cc`) | position, labels, link points, exports, pending alignment | one handler per directive and instruction | `Assembler`, `AssemblerProofs` |
| compiler (`lc/src`) | cursor on the tokens, tree, types, blocks and locals of each function, offsets of its frame | parse, convert to blocks, emit assembly | `LcParser`, `LcTypes`, `LcCompiler`, `LcCode`, `LcEmit`, `LcMachine`, `Lc`; `LeafText`, `LeafMeaning`; `LcValues`, `LcProofs` |
| standard library (`sys/*.i`) | registers and memory | string and I/O routines | planned, on top of `Cpu` |

How they interact.  A compiled or assembled file becomes an object of sections,
each with an optional origin, its own symbols, its exports and its link points.
The linker turns objects into one memory image; the emulator loads it at
address 0 and runs it.  In the emulator everything is one thread: the loop
polls the devices between instructions and calls them from `cpucall`.  What is
concurrent with it is the outside: a user who types, a peer on a serial line,
a terminal that is resized, an input that ends.

What is hard.  In the emulator the interleaving of that outside with the scan of
the devices, the register cache that has room for one interrupted program, and
handlers that work on the stack of the program; in the console, answers put in front of what
the user types and a control mode that lasts from one write to the next; in the
linker a linked structure rewritten by four cases of insertion, with a pointer
into it held across a `free`, and three loops that must end; in the compiler
registers that are borrowed while an expression in them is being computed, blocks
allocated before what they are to hold is known, and stack offsets that an interrupt puts to the
test.  Nothing is
persisted anywhere, nothing is retried and no message is lost, so there are no
crash or delivery hazards.

What makes each part correct.

 * Control: a program that is interrupted continues as if it had not been; a
   device that is ready and armed gets its handler; handlers are not interrupted.
 * Instructions: what is pushed comes back, `ret` goes behind its call, an
   instruction changes its own registers only, whatever interrupts it.
 * Console: everything typed is read, once and in order; an answer is exact and
   read in one piece; the terminal gets only what the firewall allows.
 * Regions: no two ranges share a byte, whatever the order of insertions.
 * Linker: every section is in the file at the address its symbols were computed
   from, every link holds the address of the right symbol, the file holds
   nothing the linker did not write, and the linker gives up only without room.
 * Assembler: the bytes of every line are in the output, instructions aligned; a
   label is the address of what follows it, and a reference holds the address of
   its label.
 * Compiler: the parser reads what the grammar writes; what is emitted does what the
   program means, whatever is nested in what; a function leaves its caller's
   registers and stack as they were, and keeps nothing where an interrupt would
   overwrite it.
 * Planned parts: see section 10.

## 2. The control of the CPU

`CpuControl` has one action for each thing the main loop does.  `phase` says
where the loop is: at its `top` (`cpu.cc:139`), in `poll_devices` at device
`slot`, about to `exec`ute, powered off or `dead` of a fault.  `Arrive(d)` is the
outside, enabled in every phase, so that input can reach the second device after
the first was polled.  `PollSkips` and `PollIssues` are one turn of the loop of
`poll_devices`, which goes on after a device it has served.  `Compute` is any
instruction on registers and memory: the program is arbitrary, so its effect is
any register file.  `Sti`, `Dsi`, `Rti`, `DeviceIntr`, `DeviceRead`,
`DeviceWrite`, `Restart`, `PowerOff` and `Fault` are the instructions and CPU
calls that change what the loop does next.  `Restart` clears the registers and
nothing else, as `initialize` does; the cache starts with any contents, since the
constructor does not set it.

Registers other than `ip` are one value, because the control moves them only
together.  Whether a program will read more input after a `DeviceRead` is a
choice, because the control sees no more of a device than its poll.
`task` and `due` are history: the program an interrupt took the CPU from, and the
devices that were armed and ready when the scan began.

`InterruptPromise` is what a program is promised, without devices or a scan:
an interrupt takes the CPU from a program that enabled them, keeps all its
registers, and `rti` gives them back.  `CpuControl` implements it as a specification, from
its initial states on; `Cpu` keeps it as an action property, `KeepsPromise`, because a run
of `Cpu` begins with any registers and with interrupts on or off.

| run | shows |
|---|---|
| `control_any` | any program, two devices: no device that was ready when the scan began is overlooked (`DueIsServed`), and a ready one is eventually served (`ReadyIsServed`) |
| `control_one_armed` | programs with one handler at a time (`OneArmedSpec`): the cache is the interrupted program (`CacheIsTask`), `InterruptPromise` is implemented (`PromiseSpec`) |
| `control_two_armed` | violated: with two armed devices, the program's registers are lost |

The violation is a finding.  `cpu.cc:345` says that the cache is restored by `rti`;
but the scan goes on after the first interrupt, and the second one caches the
entry of the first handler.  A restart made by a handler leaves `m_in_interrupt`
as it is, so that the restarted program gets no interrupts; the model has it, but
no document says whether a handler may restart the CPU, and no property does.

Bounds: two devices are the least that can be ready in the same scan, and the
order of `poll_devices` treats further ones alike; three addresses let a handler
differ from the program and from address 0, which means "none".  The theorems
have no bound.

Fairness: `WF_vars(Cycle)`.  The loop of the emulator never blocks (every poll has
a timeout of 0, and reads follow a poll or are non-blocking), so as long as it can
take a turn it does.  Nothing is assumed of the outside or of the program: a
program that turns interrupts off is not served, and `ReadyIsServed` does not say
it is.

## 3. The instructions

`Cpu` has one action per instruction; `mov`, `mov8` and `mov16` are one
instruction with three forms of its operand.  The program is arbitrary: each step
executes any instruction of the constant `Code`, and `Interrupt` may come before
each.  Registers are the bytes of `struct irid_reg`, so that `h0` and `l0` are `r0` as
they are in the code.  `phase` is `"wild"` once the emulator touches the byte behind its
memory (`read16` and `write16` check the first of their two addresses only): the
model stops there, and nothing is claimed of what follows.  It is `"fault"` when
the emulator reports one and ends.

`stack` and `saved` are history: the bytes pushed and not yet popped, of the
program that runs and of the one under the handler, with the places of the return
addresses among them.  A store over them, `sp` set by anything other than push and
pop, and a pop of more than there is begin a new stack; so the properties claim
nothing of programs that do this, without excluding one.

| run | shows |
|---|---|
| `isa` | what is pushed stays where it is until it is popped, also under a handler (`StackIntact`); `ret` goes behind its call (`ReturnsToCaller`); an instruction changes no byte of another register (`NoSpill`); an interrupt comes only to a program that enabled it and is no handler, nothing the handler executes touches what was saved of the program, and `rti` gives back every byte of it and the flag: each step is one of `InterruptPromise`, or none (`KeepsPromise`) |

`StackIntact` depends on two things no test reaches: that a push which would pass
below address 0 faults (`sp` 0) or is wild (`sp` 1 and a word) before it can wrap
around to the top of memory, and that `rti` gives back an `sp` below which the
handler worked.

A divergence the model has and no run is spent on: `doc/arch:71` says that `cmg`
compares the register; `cmg8` and `cml8` compare its low byte (`cpu.cc:638`), while
`cmp8`, `cmg16` and `cml16` compare all of it, and the assembler takes the form from the
size of the immediate.

Bounds: a byte of two bits, so that a word has four and the memory sixteen bytes
(`B = 4`; 256 in the code); 22 instructions, at least one of each action and every
width of push, pop and store; programs of four instructions, the least for push, call,
interrupt and return to meet; stacks that begin at 1, where a word wraps, and at
9, where nothing does.  `InstrLen` is 4 and `IntBits` 32 as in the code.  The cache
begins with memory that was used before, because the constructor does not set it.
An overflow of `int` in the product of two words and shifts by 32 and more are
undefined in C++: a product is taken to wrap, as hosts do, a shift gives any of
the two results hosts give.  The theorems have no bound.

One device is armed: what two do in the same scan is `control_two_armed`.

## 4. The console

`Console` is `console.cc` with a user.  `Type`, `CloseInput` and `Resize` are the
user; `ReadAnswer`, `ReadTyped` and `ReadNothing` are the outcomes of
`console_read`; `AskPoll` is `console_poll`; `WriteControl` and `WritePlain` are
the two halves of `console_write`.  `size` is what the terminal answers;
`<<0, 0>>` is an output that is no terminal.  The end of the input shows to
poll(2) in two ways, and the device treats them differently: at the end of a file
or a terminal the input stays "readable", a closed pipe only hangs up.

`got` and `from` are history: the bytes the program read, those of the device and those
of the user apart, and where the last one came from.  `native` is what the terminal was
sent, one sequence of bytes for each write of the program.

The run `console` checks, for every interleaving: `TypedInOrder`,
`AnswersExact`, `AnswersUnbroken`, `NativeIsFirewalled` (the bytes that reach the
terminal as a function of all the bytes written, where a byte is a control code
iff an odd run of markers precedes it), `PolledReadIsReal` and `PollSeesAnswers`.

Bounds: `MaxTyped = 2` bytes (two distinct ones show order and loss),
`MaxAsked = 2` answers of four bytes, asked for at different sizes, and
`MaxSteps = 7` reads and writes of the program: a marker and a code, the four
bytes of the answer, and one more.  The four bytes written are one that is
passed, the form feed, the marker and the code of the size request.  Polls and
resizes are not bounded.  The program may write for ever in the code; the bound
means that the system may stop, but the user still resizes, so there is no
deadlock.

`console_plain` is a finding, with the same bounds.  `doc/devices/console:8-10` has
every byte written transferred to the native device at once, unless it is the marker;
`WrittenAtOnce` says so.  The code has a firewall (`console.cc:109-123`, and the comment
there says why): a byte that is neither printable nor a blank is dropped, a control code
without its marker among them, and a form feed arrives as a clear-screen sequence.
`NativeIsFirewalled` is what the comment promises, and holds.

One thing a reader of the document may trip over has no run of its own: at the end of a
file the poll says "data" and the read gives 0, which is why `PolledReadIsReal`
excludes it.

## 5. The linker

`LdRegion` is `region.c`, pointer by pointer.  A heap is the sequence of nodes
allocated so far, a pointer an index into it, 0 is NULL; a freed node stays, with
the type `freed`, so that a pointer to it dangles and the model can tell.
`InsertAfter` and `InsertBefore` write the three pointers the code writes, and no
fourth.  `FirstRegion` and `Walk` follow `prev` and `next`.

`Linker` has one action per turn of a loop of `link.c`: `SkipMovable`,
`PlaceStatic` and `StaticFails` for the fixed sections, in the order of the
objects; `PlaceMovable` and `MovableFails`, largest section first;
`CollectSymbols`; `WriteImage` for the buffer, the code and the zeroes;
`LinkSection`.  A byte of the output is what it comes from: byte k of a section,
half of an address, a zero, or `Junk`, memory of `malloc` nobody wrote.  When the
code follows a pointer to a freed node or a NULL region, or writes outside of the
buffer, the phase is `undefined` and the model stops there: anything can happen,
and nothing is claimed of it.

`LdPlacement` is the placement without regions: fixed sections where they want to
be, the others the largest first at the lowest address with room, giving up only
without room.

| run | inputs | shows |
|---|---|---|
| `ld_any` | every list of up to 3 sections of 0 to 3 bytes, movable or at one of 4 origins, in 7 bytes; lists of two or three sections with exports, symbols and links, two exporters of one name among them | of all of them: `RegionsApart`, `SectionsPlaced`, `ChainContiguous`, `NoJunk`, `EveryStepProgresses`; of those that are `Roomy` and `Linkable` (`Orderly`): the chain keeps all regions (`ChainComplete`), the file has all the code (`OutputComplete`), nothing undefined happens (`NeverUndefined`), links hold the right address (`LinksResolved`), `LdPlacement` is implemented (`PlacementKept`) |
| `ld_descending` | two fixed sections in any order | violated: a section's code is missing |

Why five of them ask for `Orderly` inputs.  `insert_after` never gives the new node its
neighbour's `next` (region.c:41-48), `insert_before` not its `prev`, and an exact
fit gives the new node neither (89-100).  A region inserted below one that is
already there therefore cuts the upper ones off the chain; an exact fit in the
first region even frees the node that the linker holds as its chain.  `Orderly` lists are
those where no insertion has anything behind it to lose, and for these the linker does
all it should; of the others the five claim nothing, and neither an exact fit (hazards
at region.c:91 and link.c:72) nor a section without bytes that exports a name (link.c:155)
is covered by them.  `Roomy` says which they are: origins rise in the order of
the objects; the gap below a section with an origin is nothing, or more than all
movable sections take together, so that none of them fills it exactly; the gap above the
last of them is free to be of any size; and no section is all of the memory.
`Linkable` is for the links: what a section exports or links has a place, and its link points
are within its code and do not overlap.  `ld_descending` is the
smallest case of the other kind, and a finding.  A section of no bytes that
exports a name gets no region, and is read through NULL; `ld_any` contains it, as a
step to `undefined` that no property forbids.

Bounds: three sections are enough for every one of the four cases of an insertion
to happen before and after every other, including one into a region that an
earlier one split; the memory has 7 bytes, so that a third section can
fail for want of room.  The theorems have no bound.

The linker has no fairness: nothing in it waits.  That it ends is
`EveryStepProgresses`, an action property: every step moves to a later loop, to
the next entry of this loop, or takes a section off those still to be placed.

## 6. The assembler

`Assembler` reads a program line by line; one action is one line with all its
handler does.  A line is what the parser makes of it: a label (regular, or local to
the regular one before it), data, `.org`, `.value` (a `.valuefile` is several),
`.export`, an instruction with or without a name in its operand, or anything the
assembler rejects.  A `.decl` changes nothing and is left out.  A byte of the code
is what it comes from, as in the linker.  `ReadInstruction` is a method of an
instruction and `insert_instruction` after it: the link point is recorded first, at the
position before the move (`LinkPoint`), then the first label at that position moves
(`AlignLabels`), then the bytes are put at the next multiple of four.  `AsRaw` and
`AsObject` are the two outputs; `Put` is the buffer, `Stripped` what
`iof_section_builder` leaves of the code.  A failure, `error()` or an exception,
ends the assembler without output.  `place` is history: where the bytes of each line
went.

| run | programs | shows |
|---|---|---|
| `as_tidy` | up to 6 of 14 lines, `TidySpec` | no byte is overwritten and instructions are aligned (`ItemsIntact`), a label is the address of what follows it (`LabelsLead`), an operand is the address of the label in its own function (`ReferencesResolved`), the section has every byte at its distance from the origin (`SectionHasEveryItem`) |
| `as_symbols` | a section with an origin | violated: the symbols of the section are not offsets into its code |

`TidySpec` leaves out the programs for which the code does something else, and it
names them: an `.org` below the position (the assembler warns of it); code before the
first `.org`, which the object silently loses; an `.org` right after a label, which
parts the label from what follows; a local label declared twice in one function,
which `parse_label` does not notice because it compares the name without its
function; two labels in front of an instruction that moves; and a moved
instruction with a reference, whose link point stays where the instruction is not.
The comment of `insert_instruction` (`assembler.cc:217`) promises what the
case of two labels breaks: only the first label at the position moves (`:237`).  That
divergence is known and has no run.  The violation is a finding against `iof.h`, and
against the linker, which adds the place of a section to each symbol: in an object
with an origin the origin is counted twice.

Bounds: six lines are the least for two functions with a local label of the same name
each and a reference that could take the wrong one (`f: @a: ins g: @a: ins @a`); data
of one and three bytes leaves every misalignment that can occur between instructions,
and the origins 4 and 9 an aligned one and another.  The run that is violated needs
four lines.  The assembler ends with its input; nothing waits.

## 7. The compiler

The passes are operators, since the compiler is a batch program, and one module each:

| module | stands for |
|---|---|
| `LcNodes` | the nodes of the tree (`lc.h`) |
| `LcParser` | `parser.c`: every function takes the cursor on the tokens and gives the cursor it leaves, the node, and whether an error ended it |
| `LcTypes` | `type.c`: the register of types, sizes, offsets of fields |
| `LcCompiler` | `compiler.c`, `comp-*.c`, `block.c`: the tree becomes functions with locals, labels and a list of blocks; `Temporary` results, calls hoisted into blocks of their own, ifs and loops |
| `LcCode` | `emit.c`, the instructions: preamble and epilogue, an expression into a register with the registers it borrows, stores through arrays, fields and pointers, arguments, comparisons, jumps; both options that change what is emitted (folding, comparison) |
| `LcEmit` | `emit.c`, the blocks: which code each of them gets, offsets of the frame, functions, data |
| `LcMachine` | the instructions that are emitted, one action each; `Cpu` has them byte by byte, here registers and immediates are words |
| `Lc` | the whole: `OutcomeOf` sends a file through the passes, an initial state is one of the `Outcomes` of the programs of a run, `Begin` calls `main`, `Run` executes one instruction |

The values of a block form a tree in the compiler.  `InMemory` lays them out as the
compiler's pointers do, a sequence in which parts come before what they are parts of;
so the code of all values is a function by recursion on a number, `Codes`, and theorems can be
proved about it.  `emit.c` walks the same tree by calling itself.

`LcMachine` says what an instruction does to a state of the machine (`After`: registers, flag
and memory), and its actions apply that to the variables.  `TypeOK` is here, because
it holds whatever the machine runs.

`LcValues` says what a value is worth (`Worth`) and where a store goes (`Destination`), in
addresses, for any layout `x` of frame and data; and under which circumstances
the code is right (`Sound`, `Computable`, `Writable`).  The theorems of section 8 start
from them.  `LcFits` has TLC evaluate them for every block of the 450 programs of `lc_tidy`
(`BlocksFit`): so their hypotheses are what the compiler really emits.  The programs of
`lc_index` do not meet them.

Two modules are specifications and stand for no code.  `LeafText` writes a tree in
the grammar of `doc/lc/grammar`, as the tokens of a programmer.  `LeafMeaning` says
what a program means with places instead of addresses and frames instead of a
stack: the abstract specification the compiler is held to.

The memory of `LcMachine` has no bytes below `sp`.  An interrupt may come between any
two instructions and its handler pushes there, so what lies below is not the
program's: it is removed as `sp` rises and is `Junk` when `sp` falls again.  A read or
a write there, or between the stack and the data, stops the machine, and
`NoStrayAccess` and `Returns` fail.  Immediates are what the assembler makes of them
(`Encoded`): what is below 256, and so every negative number, becomes a byte.

| run | programs | shows |
|---|---|---|
| `lc_tidy` | 450 (`TidyPrograms`, both options) | the parser gives back the tree that was written (`ParseInverts`); labels are there once and jumps and data have a target (`JumpsLand`); at the end every variable of `main` and every global holds what the program means (`MeaningKept`); callers find their registers and stack (`FrameKept`); nothing below `sp` is used (`NoStrayAccess`); every program is accepted and returns (`Returns`) |
| `lc_index` | an array assigned to in a loop | violated: the element that is written is the wrong one |

Bounds.  Words have their 16 bits; `main` gets 1 and 300, so that the square of the
second wraps and the first is an index of an array of two.  `Trees` has each pair of
leaves under an operation and every leaf in the innermost place of three levels, which
is deep enough for an operation to be computed while two others wait.  `Calls2` has
calls as arguments and on both sides of an operation, recursion, strings, inline
assembly, a variadic function.  `Statements` has pairs of statements on variables of
every type, after declarations that put each of them at another offset; `Blocks` an
`if` in a loop in a loop, with a `return` from the middle; in `Ends` the body moves the
end of its loop, or the index does.  Both options are on and off.  The programs only read
a variable after it was assigned to, and end: a loop is left when its index equals the
end, so all of these begin below their end and meet it.

Fairness is `WF_vars(Next)`: the loop of the CPU never blocks.  Deadlock is not
checked because programs end.

`lc_index` is a finding.  `emit.c:120` calls the result register the goal of
`emit_op`, whichever it is; but `emit_op` ends with `pop r4`, and
`store_register_into_local` asks for an index in `r4` (`emit.c:277`).  So the left
operand is lost and the right one taken twice: `arr[i + 1] = v` writes to `arr[2]`, whatever
`i` is.  Reads compute the index in another register and are right.

What else the code does that a programmer would not expect, and that
`TidyPrograms` therefore leaves out.  The model has all of it; the programs do not.

 * Indices: `(p + 1)[i]`, and an index of an indexed value (`q[0][1]`), which uses
   `r6` for both (`emit.c:229`).
 * `char` variables, fields and elements are stored as words (`emit.c:319`), and a
   `char` that is no element of a string is read as one.
 * Globals: an index or a field offset is ignored (`emit.c:265`); reading a field of
   one follows a NULL block (`comp-convert.c:96`); storing to an array field ends the
   compiler.
 * `p.f = v` with a pointer to a structure writes next to the pointer, not to what it
   points to (`comp-assign.c:93`, `emit.c:273`).  Reading is right.
 * Loops: a call in the start or end is converted after the blocks that use it
   (`comp-loop.c:19`, `:43-62`); two loops with an index of the same name share it
   (`comp-loop.c:88`); the body runs once before the end is compared, and when the
   start is not below the end it goes on until the index has wrapped.
 * Casts are parsed and have no effect on the value (`compiler.c:103`).
 * `==` and `!=` outside of an `if` end the compiler unless both sides are constants.
 * Folding: a negative result loses its high byte, one above 65535 is refused by the
   assembler (`emit.c:103`).
 * A `naked` function with parameters or locals has no frame to keep them (`comp-func.c:56`).
 * A structure that contains itself has no size; more than four parameters are
   refused; `a + f()` calls `f` before it reads `a`; arithmetic on pointers is not
   scaled; an array assigned to a pointer is copied by its first word.
 * The grammar (`doc/lc/grammar`) has an `else`; the parser does not.  It ends `return` with
   a `;` like any other statement (line 35), but `parse_return` takes the `;` of a `return`
   without a value (`parser.c:586-588`) and `parse_block` then asks for another one: behind
   a bare `return;` there can only be the end of the block.  It lets a declaration have
   attributes, `func f() [naked];`; the parser asks for the `{` of a body after them
   (`parser.c:769-775`).  `Written` puts neither into its text.

## 8. Proofs

All of these are checked by `tlapm` to the last leaf, for every value of the
constants that satisfies `ControlAssumption`, `CpuAssumption`, `ConsoleAssumption`,
`AssemblerAssumption`, `LinkerAssumption` or `MachineAssumption`: bytes are bytes, sizes are natural
numbers, and the like.  `LeastNumber` has the one fact about numbers the proofs share,
that a set of them has a least; the inductions below are minimal counterexamples.

`CpuControlProofs`

 * `TypeCorrect`: `TypeOK` is inductive.
 * `CacheHoldsTask`, `HandlersDoNotNest`: `CacheIsTask` says nothing of the middle of a
   scan, where a second interrupt could overwrite the cache.  `OneArmedInv` adds
   that once a handler runs no armed device is left in the rest of the scan
   (`ScanIsOver`), that a saved program implies a running handler, and that at most
   one device is armed.
 * `ImplementsPromise`: with `OneArmedInv`, every step of `OneArmedSpec` is a step of
   `InterruptPromise` or leaves it alone.
 * `NoLostWakeup`: for any number of armed devices.  `DueInv` adds `ScanProgress`: in
   the middle of a scan, the devices that were due still are, and the last due one
   the scan has passed, or a later one, has `ip` at its handler.

`CpuProofs`, for bytes of any size, and programs, handlers and runs of any kind

 * `TypeCorrect`: `TypeOK` is inductive.  It rests on where the registers are
   (`Offsets`) and on words being their two halves (`BytesAreHalves`, `WordOfBytes`).
 * `StackHolds`: `StackIntact` is inductive with `TypeOK`.  `Wraps` gives the arithmetic
   of `sp`: a push that neither faults nor is wild has room above address 0, and a pop
   of what is there stays below the base.  `PushKeeps`, `ShrunkKeeps` and
   `WrittenKeeps` say what the three ways to change a stack keep; each action is one of
   them, or `SetRegsKeeps`.  That the program's stack survives the handler needs no
   more: all the handler writes with is `Written`, which gives a stack up as soon as
   a byte of it is touched.
 * `RetReturns`: with `StackIntact`, the two bytes `ret` reads are the halves of the
   return address, and `BytesAreHalves` puts them together.
 * `DestinationOnly`: `NoSpill`, from the frame of `r_store` (`Stores`).
 * `KeepsThePromise`: `KeepsPromise`.  Only `Interrupt` writes the cache, and only outside
   of a handler; so under one, every instruction but `rti` leaves what was saved alone.
   `Seen` is all a program has: `ip`, every byte of the other registers, the flag.

`LinkerProofs`

 * `PlacementInvariant`: `PlacementInv` (types, `RegionsApart`, `SectionsPlaced`,
   and that the first loop leaves no fixed section it has passed without a place).
   The argument takes no part in the pointers.  Writing a pointer, of a node or
   through NULL, moves no region (`SetNextKeeps`, `InsertAfterKeeps`, ...); each
   case of an insertion `Splits` the free region it is made into: what is left of it,
   and what is added behind, lies within the old one and shares no byte with the new
   one (`InsertMiddleSplits`, `InsertAtEndSplits`, `InsertAtStartSplits`,
   `ReplaceSplits`); and what is beside a range is beside its parts (`SplitsApart`).
   So the chain may lose regions, as `ld_descending` shows, but two sections never
   get the same byte.
 * `RegionsNeverOverlap`, `SectionsKeepTheirPlace`: its two conjuncts.
 * `LinkerProgresses`: `EveryStepProgresses`, by cases on the actions; that the
   section which is placed was not, and is then, comes from `PlacementInv`.

`LinkerProofs`, second part: the chain, for every list of sections and any memory

 * `ChainInvariant`: what the pointers keep, whatever an insertion has cut off.  A live
   region with a `next` ends where that one starts, and a free one knows who is before it
   (`Chained`); the pointer the linker holds is at the first region or at the one behind
   it (`HeadHeld`), until the first region is freed; no field leaves the memory
   (`Measured`).  `CutFromEnd`, `SplitInTwo`, `CutFromStart` and `Replaced` say what each
   case of `ld_region_insert` does to every pointer of the heap; one lemma for each says
   that the chain survives it.  That free regions know their predecessor is what makes it
   inductive: `insert_before` and the exact fit follow `prev` to the node they rewrite.
 * `ChainHasNoGap`: `FirstRegion` and `Walk` are recursive functions; `WalksExist` shows
   that a function with that recursion exists and `WalkIs` that its last value is a `Path`,
   so the walk goes up the memory from 0 without a gap and never meets a freed node.
 * `TypeCorrect`: `TypeOK`, with the bounds of `Measured`.
 * `FileIsClean`: `NoJunk`.  The bytes below the end of the last section on a path lie in
   regions of the path (`PathCovers`), and only what is above them is left unzeroed
   (`ImageClean`): so the file is clean even where sections were cut off.

`LinkerFileProofs`, for lists of any length and in any memory: what `ld_any` checks of those
that are `Roomy` and `Linkable`.  The invariants are those of `WholeSpec`, the linker on such
lists; a list never changes (`OrderStays`, `DisorderStays`), so each theorem about `Spec`
is that of `WholeSpec`, and for all other lists its property claims nothing.

 * `RoomInvariant`: `WholeInv` says that the regions hang together: every live one but the
   first is the `next` of another, and only the one at the top of the memory has none.
   An insertion keeps that only if it is made into the last region, or at the start of
   one that is larger (`RegionInsertWhole`), and does not use up the region at the
   head (`InsertKeepsWhole`).  Two more facts show that the linker makes no other.
   `Behind`: while the first loop runs, what is free above all sections placed so far begins at
   the greatest of their ends, so the next origin lies in the last region, or the
   list is not `Roomy`.  `Gaps`: a free region with something behind it is larger than all
   sections still to place (`Load`), so none of them fills it; and placing one takes
   no more from the region than from the load (`LoadWithout`).
 * `ChainKeepsAll`: `ChainComplete`.  That the walk meets every region is an argument
   by the lowest one it misses (`LowestMissed`, `WalkMeetsAll`): that one is the `next` of a
   lower one, which is met.  Regions of no bytes share their start with the next, so
   lower means a lower start or, at the same start, empty and before one that is not, or older.
 * `FileInvariant`: each loop establishes its part.  The symbols are those of the sections
   so far, and the first of a name is the first exporter's (`SymbolsMeet`); the file
   has the code of every section but for its link points (`CodeThere`), which needs
   `WalkMeetsAll` and `RegionsApart` for the byte an address is in (`SectionInImage`); links of
   the sections so far hold their addresses (`LinksThere`), which later ones do not touch, since the
   bytes of different sections and of different links are apart (`LinkBytesOwn`,
   `LinksApart`).  `FileIsComplete`, `EveryLinkResolved` and `NothingUndefined` follow.
 * `ImplementsPlacement`: `WholeSpec` implements `PlacementSpec`, and `KeepsPlacement`, the
   same for `Spec` in the form the run checks.  `PlacedInv` adds that allocated regions are those
   of the sections.  A free region is room (`RoomInFree`), and as the walk covers the memory
   (`Covered`), room is in a free region (`FreeWhereRoom`), at whose start the section then
   fits (`RoomFits`): so the first fit of the walk is the lowest address with room, and
   without a fit there is none.  `Gaps` is needed here too: it excludes room that two free
   regions, with a section of no bytes between them, have together only.

`ConsoleProofs`, for bytes, sizes and runs of any number

 * `ConsoleInvariant`: what the run checks is inductive with two facts: `ModeIsParity`, the
   control mode is the parity of the markers written last, and `PromiseHolds`, a byte
   waits since poll said so.  `InputKept`, `AnswersKept`, `AnswersStayWhole`,
   `FirewallHolds`, `PollIsComplete`, `PollIsSound` and `TypeCorrect` follow.

`AssemblerProofs`, for lines of any kind and programs of any length under `TidySpec`

 * `AssemblerInvariant`: `Placed` says where the bytes of each line are and that each line
   is behind the one before; `Labelled` that labels and the lines that declare them
   correspond one for one, and that a label with nothing behind it yet is at the position,
   which is what the move of a label in `insert_instruction` needs; `Linking` that link
   points do not overlap, so that writing one leaves the others.
 * `ItemsStay`, `LabelsFollow`, `ReferencesMeet`, `SectionIsWhole`, `TypeCorrect`: the
   properties of the run.  The loop that writes the references is a recursive function
   (`Linked`), by induction on its steps.

`LcProofs`, for every state of the machine, every value and every layout of frame and data

 * `MachineTyped`: `TypeOK`, for any code of instructions (`Loaded`).  It is the one theorem
   about the compiler's modules with a run's property: `AfterIs` and its lemmas say that every
   instruction leads from a state to a state, whatever `sp` it leaves.
 * `Does` is what straight code does, by the rules of its instructions one after the
   other; `Gets`, that it puts a number into a register and changes no memory and no
   registers but those named.  `CodeRuns` ties both to the actions of the machine: if the code
   `Lies` in memory, a machine that starts it and runs no further than its end is then
   in the state `Does` says, and did not leave it.
 * `ValueComputed`: by the least value that is computed wrongly (`AllRight`), whose parts
   then are computed rightly.  An operation (`OpRight`) is the hard case: the right side
   waits on the stack (`WaitsIs`) while the left one is computed with the same registers, so
   what holds of the left side is that it gives back `sp` and what is above it.
   What is below `sp` is `Junk` in between, and no step reads it.  The hypotheses: values
   are `Sound`, there are two bytes of stack for every value before this one (`Fits`), and an
   operation that takes code is not wanted in `r4` (`Computable`): that one is the finding of
   `lc_index`.  `ValueRuns` says the same of the machine that runs the code.
 * `StoreDone`, `RegisterStored`: the word at `Destination`, and no other byte, is written.
   For an array the index may not be an operation that takes code, which is `lc_index`
   again.  `Writable` says what the compiler gets wrong besides: a global is stored to at its
   start only.  A store always writes a word, a `char` too, as the code does.
 * `ComparisonDone`, `BranchTaken`: the flag after a comparison, and where the machine goes on
   behind the conditional jump, `cfs` included.
 * `ArgumentsPassed`: up to four (`MAX_ARG`), each computed into its register while the ones
   before it wait in theirs: no value's code touches another argument's register.
 * `FrameRestored`: the five words of the preamble lie one on the other (`Layer`), and the
   epilogue takes them off in the opposite order (`Unlayer`), from the `bp` of the function,
   wherever `sp` is.  The hypothesis is `Framed`: the function left `bp` and the saved
   words alone.

Only model-checked: `ReadyIsServed` and `Returns`, which are liveness under fairness; and of the
compiler the properties of `lc_tidy` but `TypeOK`.  The parser, the conversion to blocks and
the order of the blocks are `RECURSIVE` operators on trees: what they compute for every
program is an induction over data.  So `ParseInverts` and `JumpsLand` are TLC's alone.
`MeaningKept`, `FrameKept` and `NoStrayAccess` are about whole programs, and TLC's too; what
`LcProofs` adds is that the code of each block does what the block is for, in every
circumstance that meets the hypotheses, not only in those of the 450 programs.

## 9. Left out

Time (the emulator sleeps to keep a clock rate), printing and debugging output,
files that cannot be opened, allocation failure, the command lines.  How a text
becomes tokens, dumps, and the allocator of the compiler, whose areas no part of it holds
across a reallocation.  The contents
of section code: the linker only moves it.  The CPU calls that fill memory with the
list or the name of devices, and register numbers that no register has.

## 10. Plan

In this order, with what each is to show.

1. `Toolchain`: objects of `Assembler` as sections of `Linker`, with the
   layout of the object file between them (`IofSection`).  Question: a program of two
   files, one of them with an origin, against the addresses its author sees in the
   raw binary; today the origin is counted twice.
2. `ByteBuffer`: growth and gaps against a function from addresses to bytes.
3. Library routines of `sys/*.i` as programs of `Cpu`: `__io_write` with a length of 0.
