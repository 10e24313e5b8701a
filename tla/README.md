# rv64gc-emu: verification project

TLA+ modules that model the rv64gc-emu RISC-V emulator, TLC configurations that check them on
small instances, and TLAPS proofs of their main theorems. Paths below are relative to the
repository; `instructions/`, `peripherals/` and `include/` are under `source/`.

* [1. The system](#1-the-system)
* [2. The modules and the code](#2-the-modules-and-the-code)
* [3. Runs](#3-runs)
* [4. Proofs](#4-proofs)
* [5. Where the code and its documentation disagree](#5-where-the-code-and-its-documentation-disagree)
* [6. What is left out, and why](#6-what-is-left-out-and-why)
* [7. Plan](#7-plan)

To repeat a run or a proof:

    tlc -config MCHart_guest.cfg MCHart
    tlapm HartProofs.tla

## 1. The system

The emulator is one hart, its memory management unit and a bus of devices, in one loop
(`Cpu::run`). A second thread exists only in the native build: it reads standard input.

| Component | State | Operations | Talks to |
|---|---|---|---|
| `Cpu` (`cpu.cpp`) | registers, `pc`, `mode`, `exc_val`, `reservations` | `loop`: tick the devices, poll interrupts, execute one instruction, process an exception | everything |
| Interrupts and exceptions (`interrupt.cpp`) | none of its own; CSRs and `mode` | `get_pending_interrupt`, `interrupt::process`, `exception::process` | asks the disk and the UART, tells the PLIC, writes CSRs |
| CSRs (`csr.cpp`), system instructions (`instructions/csrtypeinsn.cpp`) | 4096 registers; `sstatus`, `sie`, `sip` are views of others | read, write, set, clear; `ecall`, `ebreak`, `sret`, `mret`, `sfence.vma`, `wfi` | the MMU, on writes of `satp` |
| MMU (`mmu.cpp`) | mode, root, a four-entry TLB with ages | `load`, `store`, `fetch` through `translate`; `update`, `flush_tlb` | reads and writes page tables over the bus; raises page faults |
| Bus, RAM (`bus.cpp`, `peripherals/ram.cpp`) | device list, bytes | `load`, `store`, `tick_devices` | devices; raises access faults |
| PLIC (`peripherals/plic.cpp`) | pending, enable and claim registers | `update_pending`; the guest's claim and completion | the poll, the guest |
| CLINT (`peripherals/clint.cpp`) | `msip`, `mtime`, `mtimecmp` | `tick` drives MSIP and MTIP; register access | host clock, CSR `mip` |
| Virtio block device (`peripherals/virtio.cpp`) | queue registers and layout, clock, interrupt status, image | register access, `tick` serves the queue | queue and buffers in RAM, the poll |
| UART (`peripherals/native_cli.cpp`, `peripherals/gpu.cpp`) | receive register, line status, enabled interrupts, an edge | `tick` takes input; register access; `is_interrupting` | reader thread or SDL events, the poll |
| Atomics (`instructions/atomictype.cpp`) | `Cpu::reservations` | LR, SC, AMOs | memory |
| Integer instructions (`instructions/`: `rtype`, `r64`, `itype`, `i64`, `btype`, `other`, `load`, `stype`, `ctype`) | registers, `pc` | arithmetic, branches, loads and stores, 32-bit and compressed forms | `Cpu`, MMU |
| Decoder (`decoder.cpp`, the dispatch of `cpu.cpp` and `instructions/`) | none | fields, immediates, the handler of a word | `Cpu` |
| Floating point (`instructions/fdtypeinsn.cpp`, `Fregister` of `misc.cpp`) | 32 registers, FCSR, FFLAGS, `mstatus.FS` | arithmetic of the host, conversions, the FS check | MMU, CSRs |
| Framebuffer, terminal, syscon, command line | output, process | | host |

Behaviour that is hard to test, with the properties that make it correct, is listed line by
line under `hazards` in `PROJECT.json`. In short:

* **Traps.** One trap touches `mode`, `pc`, five bits of `mstatus`, `epc`, `cause`, `mip`,
  by separate writes in three files. Nested traps of two levels and their returns must restore
  what they interrupted, keep privilege where it is, and lose no interrupt.
* **TLB.** Entries are copies. Memory changes behind them, they are written back to memory when
  an access marks a page, four of them compete by age, and empty ones look like page 0.
* **External interrupts.** An edge from the UART, a level from the disk, one claim register and
  a `mip` bit that is cleared when taken: an interrupt passes from hand to hand through four
  pieces of state while a timer may go first and another device may interrupt.
* **Virtio queue.** Ring indices wrap, service comes a fixed delay after the last notification,
  the interrupt is raised before the request is served, and a driver may reset. Its tick reads and
  writes guest memory, and an address outside it raises an exception on the hart.
* **Reservations.** They belong to addresses, not to threads; a preempted SC must still fail.
* **Time.** The host's clock moves on between any two instructions and may jump over `mtimecmp`;
  `mip` bits are made anew by every tick and cleared when taken, while firmware and kernel set and
  mask them in between. An alarm must ring once, in time and not before.
* **Threads and the floating-point unit.** A kernel switches threads by what FS, FCSR and FFLAGS tell
  it, and the handlers do not all keep them.
* **Encodings.** Immediates in twenty arrangements of bits, dispatched by nested tables; formats,
  NaN patterns and exception flags of the host in place of those of the architecture.
* **Instructions.** A handler whose access page-faults runs to its end, and the kernel restarts the
  instruction with the registers it left. Two widths meet in the host's C++ arithmetic, with its
  sign extensions, shift counts and undefined divisions.

## 2. The modules and the code

| Module | Models | Uses |
|---|---|---|
| `TrapArch` | what the trap unit promises (abstract) | |
| `Hart` | `Cpu::loop`, `interrupt.cpp`, CSRs and returns | `TrapArch` by refinement |
| `PageTable` | `fetch_pte`, the permission check of `translate` | |
| `MmuWalk` | the MMU with `USE_TLB 0` (abstract for the next) | `PageTable` |
| `Mmu` | the MMU with `USE_TLB 1`: `tlb_cache` | `MmuWalk` |
| `MmuGuest` | `Mmu` under a guest that fences | `Mmu` |
| `Plic`, `Uart` | the two devices, as actions on their own state | |
| `ExtIrq` | poll, PLIC, UART and disk line with a kernel that handles them | `Plic`, `Uart` |
| `BlockStore` | what a block device promises (abstract) | |
| `VirtioBlk` | the device and its driver | `BlockStore` by refinement |
| `LrSc` | `lr.w`, `sc.w` under preempted threads with a spinlock | |
| `Words` | registers, words and bytes of memory at a scaled width | |
| `Isa` | what an integer instruction promises (abstract) | `Words` |
| `Insn` | the instruction handlers, with page faults and restarts | `Words`, `Isa` by refinement |
| `Encoding` | the opcode map (abstract) | |
| `Decoder` | `decoder.cpp`, `_loop`, `execute16`, `execute32` and the `funct3` and quadrant functions | `Encoding` |
| `Floats` | binary floating point of any width | |
| `FpIsa` | what a floating-point instruction promises (abstract) | `Floats` |
| `Fp` | `fdtypeinsn.cpp` and `Fregister`, with page faults and restarts | `Floats`, `FpIsa` by refinement |
| `FpThreads` | a floating-point context for each thread (abstract) | |
| `FpContext` | FS, FCSR, FFLAGS and a kernel that switches threads | `FpThreads` by refinement |
| `Alarm` | what timer and software interrupt promise a kernel (abstract) | |
| `Clint` | `clint.cpp`, as operators and steps on its registers | |
| `Timer` | `Cpu::loop` with the CLINT, the firmware's SBI routines and a kernel | `Clint`, `Alarm` by refinement |
| `MmuProofs`, `ExtIrqProofs`, `VirtioBlkProofs`, `InsnProofs`, `DecoderProofs`, `FpProofs`, `TimerProofs` | theorems | the module of that name; `MmuGuest` |
| `HartProofs` | theorems about the hart, and about the threads of a guest | `Hart`, `FpContext`, `LrSc` |
| `MCHart`, `MCMmu`, `MCExtIrq`, `MCVirtioBlk`, `MCLrSc`, `MCInsn`, `MCDecoder`, `MCFp`, `MCFpContext`, `MCTimer` | instances for TLC | |

`PROJECT.json` maps every definition to the lines it translates. What follows says how state
and steps correspond.

### Hart

`phase` is the place in `Cpu::loop`: `"poll"` before `get_pending_interrupt`, `"exec"` before
`_loop`, `"trap"` before the test of `exc_val` when it is set. `PollMasked`, `PollNone` and
`PollTake` are the three ways through the poll, including `tick_devices` before it; `Trap` is
`exception::process` and `clear_exception`. Instructions are actions of phase `"exec"`; those
without effect on the trap state are `Plain`, `Jump` and `Fault`. A tick may itself set `exc_val`
(`fault` in `DeviceLines`): a virtio descriptor that leads outside memory makes the bus raise an access fault.
Nobody looks at it before the instruction has been fetched; then the instruction is not executed
(`Skip`), and the fetch may have put a page fault in its place. Instructions are `Fetched`: no exception is pending.
The trap that follows has the `pc` of that moment, after an interrupt taken in the same poll the address of its handler.

A CSR whose bits matter singly is the set of its one bits, so `write_bit` adds or removes an
element and `write_bits` (which does not mask its value: `Mode::Invalid` is eight ones) adds
`11 .. 18`. The low sixteen bits of `mie`, `mip`, `mideleg` and `medeleg` are kept, the ones
interrupts and exceptions use. `sret` and `mret` set `pc` to `epc - 4` and the loop adds 4; the
model sets `epc`. The guest is a constant: which CSR writes it makes, where it jumps, which
exceptions it raises. Devices are a constant too: which lines may be up in a poll.

`TrapArch` has, for each trapping level, an enable flag and a frame with its cause, the exception that
awaits its trap, and five kinds of step: interrupt, exception, a device that raises one, return, software. An
exception that is pending stops everything but its trap and another that takes its place. `Hart!TrapArchSpec` maps `SIE`/`MIE` to the flags and
`SPP`/`SPIE`/`sepc`, `MPP`/`MPIE`/`mepc` to the frames. A trap to a level below the one that
runs, one that touches the frame of the other level, a return that loses the enable flag or a
CSR write that changes the mode is not a step of `TrapArch`.

### PageTable, MmuWalk, Mmu, MmuGuest

Addresses are counted in pages and frames, a table has `Radix` slots. `WalkStep` is one turn of
the loop in `fetch_pte`, `Walk` the loop: five turns at most, since a turn after the end changes
nothing. An access is a request: page, kind, the mode it is made for (after MPRV), SUM and MXR.
`MmuWalk` walks at every access; `Mmu` adds `tlb_cache`. Entries and ages are as in the code,
except that ages are kept as ranks: the code only resets, increments all others and compares,
and starts all of them equal, at a value no entry in use reaches.
An entry that fails half way is never seen, since every error flushes (`set_cpu_error`).

`MmuGuest` restricts the guest to the rule `sfence.vma` is for, with `stale` the pages remapped
since the last flush. A page that was not mapped needs no fence: the code caches no failures.

### Plic, Uart, ExtIrq

`Uart` has both builds. `slot` is `read_char`; `line` is `is_uart_interrupting`, an edge that
the poll consumes. `ExtIrq` is the loop of tick, poll and instruction seen by external
interrupts. The kernel is external: it is modelled from the registers it uses, as a handler
that claims until it reads 0, reads the receiver while data is ready, sends what one transmitter load holds,
acknowledges the disk, and completes. A step of the kernel touches one device register, so that
nothing the code could interleave is atomic in the model; a tick and a poll stand between any
two of them. The timer is the machine's: `PollTimer` is a poll in which the timer is taken
although the devices have been asked.

`pending` holds the numbers of the bits that are set in the array of the same name. `PendingBit(irq)` is the
one `update_pending` and `clear_pending` use: the code divides by the bytes of a word where it means its bits, so that source 10
is bit 10 of word 2. The enable bits are found by `is_enabled`, which divides by bits.

### BlockStore, VirtioBlk

`wait` is `notify_clock + disk_delay - clock` while a notification is pending. `layout` is the
pair of registers `update()` last computed the addresses from. A chain of three descriptors is
one record (kind, sector, data), the buffer one value. `AccessDisk` reads `ring[idx % num]` with
the published index, as the code does. The driver is external. `BlockStore` says that a request
is served once after it was submitted and before it is reaped, and that nothing else is;
`ServesRequests` maps to it, with `done` counted in the part of the used ring not yet seen.

### LrSc

`reservations` is `Cpu::reservations`. Threads of one hart take a spinlock with LR and SC, add
one to a counter with a plain load and store, and release it with a store. A thread can be
preempted between any two instructions, and LR and SC may page-fault: their handlers have then
already added or removed the reservation, and the kernel restarts them.
`Contenders` are the threads that want the lock; `LockInit`, `LockNext` and `LockSpec`, like `ContextInit` and its like
in `FpContext`, have names of their own, so that `HartProofs` can extend both modules together with `Hart`.

### Words, Isa, Insn

`Unit` is the number of bits in a byte; a register has `8 * Unit` bits and a word `4 * Unit`. The
code has `Unit = 8` and TLC 1: registers of eight bits, words of four, bytes of one. The host types
scale with it (`int32_t` is `Signed(_, W)`, `__uint128_t` has `2 * XLEN` bits), so that the limits
of both widths, where the handlers differ, fit in a small instance. Integers of TLA+ are unbounded;
a value is cut where the code converts it and where a register is written (`Put`).

An instruction is a decoded record; `Encodable` says which ones the decoder can hand to a handler: the operations
of each form, the widths of its access, a shift count below the width, the registers a compressed form shares. `Issue` fetches one, the action of its handler executes it:
one action per handler or per group that differs only in the value (`Compute`, whose `RegValue` and
`ImmValue` have a case per handler). `Jal`, `Jalr` and the branches move `pc` by the offset less
the instruction's size, as the code does, since `Cpu::loop` adds the size. `Fault` is an attempt
whose access page-faults: it does to `rd` what the handler does, and leaves the instruction in
flight for the restart. `x0` may hold anything between instructions; `live` is what `_loop` makes
of it. `before` keeps the registers from before the first attempt.

`Isa` says that an instruction happens once and whole, or raises an exception and changes nothing.
It defines each operation once, at any width; a 32-bit form is the operation at `W`, a compressed
one the full-size instruction it abbreviates. `ArchSpec` maps its registers to `before` while an
instruction is in flight, so a restart that reads what the first attempt wrote is not a step of
`Isa`. `Exact` and `Clobbers` name the operands and registers for which the code differs
(section 5); with `Careful` the program avoids them. `Undefined` divisions have no result in C++
and are never issued. A shift whose count reaches the width of its C++ operand takes it modulo the
width, as the shift instructions of x86-64 and AArch64 do.

### Encoding, Decoder

A word is the set of its one bits, and so is an immediate, in the 64 bits of a register. The reference
says for each bit of an immediate which bit of the word it is; the code's shifts, masks and sign
extensions are operators on sets.
`Encoding` has one record per format, from the tables of the architecture; `Decoder` takes a word
through `_loop`, `insn_size`, the quadrants or the major opcodes and the `funct` functions to the
operation, registers, size and immediate the handler would use. `form` remembers which format the
word was made from, and `DecodesAsEncoded` compares. `Reserved` words, for which the architecture
leaves the choice, are not issued; `Exact` names the words the code gets wrong.

### Floats, FpIsa, Fp

A format is an exponent width and a fraction width. `Floats` computes in exact integers: a finite value is a significand
and a power of two, an operation gives the exact result or, with a sticky bit for quotients
and roots, one that rounds as the exact one does, and `Round` rounds in any of the five modes and raises
the flags. The code's `float` and `double` become two small formats of 7 and 10
bits, words and doublewords of integers 5 and 7, so that a float leaves room for its box.

`Fp` is Insn's counterpart: an instruction is issued, may fault (loads and stores) and is handled.
`HostResult` is what the expression of the handler gives; `fused` says whether the build contracts
`a * b + c`, which C++ allows. `HostNans` are the NaNs the host may return. `SetExceptions` drops
FE_INVALID as the code does, and the handlers set NV by the tests they make instead. `CvtMode` is the rounding
the conversions use, from a field that has lost a bit. `FpIsa` states each instruction by IEEE 754
and the architecture's rules for NaNs, and `ArchSpec` maps to it.

### FpThreads, FpContext

The register file is one value and an exception one flag: the question is whose they are. `Operate`
stands for the handlers that call `check_fs`, `LoadCompressed` and `StoreCompressed` for those that do not.
`csr` has FFLAGS and the two fields of FCSR, which `csr_fcsr_handler`, `csr_fflags_handler` and
`csr_frm_handler` keep as `Put`, `WriteFflags` and `WriteFrm` say. The kernel is external: one that saves
at every switch, one that turns FS off and saves at the first trap, and one that saves when FS is Dirty.
`FpThreads` gives every thread its own context; `ThreadsSpec` maps the unit to the context of `owner`
and saved memory to the others.

### Alarm, Clint, Timer

A register is two words of `Base` values; lengths and offsets are counted in words. `Clint!Ticked` is
`ClintDevice::tick`, at the time `t` the host's clock gives, which may be any later one. `Timer` is
`Cpu::loop` in two halves: tick and poll, then one instruction, of the firmware if `fw`, what is left of the
routine it executes, is not empty, and of the kernel otherwise. The routines are those of an SBI firmware: setting the
timer with one store or two, sending a software interrupt, reading the clock by words until the upper one has
not changed, and the two machine-level handlers. `due`, `asked`, `since` and `event` are the kernel's view, in
which `Alarm` is written: an alarm rings at most once and not before its time, a signal comes only if one was
asked for since the last, and a time that is read lies between question and answer. The machine timer interrupt
that the poll clears and the tick raises again, and the second software trap after every request, are
steps `Alarm` does not see.

## 3. Runs

Every property of a passing run has a mutant in `PROJECT.json`: a definition of the module
changed as a slip in the code would change it, under which TLC finds the property violated.

| Run | Instance | Checks |
|---|---|---|
| `hart_guest` | 8 addresses, five CSR writes, timer, external line and a disk access that fails; 3.0 million states | `TypeOK`, `TrapArchSpec`, `HandlerProtected`, `TrapTouchesOnlyStack`, `PrivilegeRisesOnlyByTrap`, `NoLostInterrupt` |
| `mmu_guest` | two levels of two entries, two TLB entries, ten requests, nine stores | `TypeOK`, `ReplacementOrder`, `CopiesBehindMemory`, `TlbInvisible` |
| `extirq_native` | native build, no disk, one character, two loads to send | `TypeOK`, `DataIsAnnounced`, `DataIsData`, `PendingIsClaimable`, `DataIsRead` |
| `extirq_disk` | SDL build, disk, two keys | `ClaimIsPending`, `DiskIsServed` |
| `virtio_one` | one request in flight, two ring slots, indices modulo 4, delay 2 | `TypeOK`, `UnseenIsAnnounced`, `LayoutCurrent`, `ServesRequests`, `EveryRequestAnswered` |
| `lrsc_two` | two threads, faults | `MutualExclusion`, `NoLostIncrement` |
| `insn_careful` | every operation in every form, operands around the limits of words and registers, two page faults; 0.9 million states | `TypeOK`, `ArchSpec` |
| `decode_careful` | all 2^16 compressed words over two different next halfwords; every 32-bit format, its variable bits one or two at a time against zeros and ones; 0.3 million states | `DecodesAsEncoded` |
| `fp_insn` | formats of 7 and 10 bits, every operand of the unary instructions and 15 to 30 for the others, five rounding modes, two faults | `ArchSpec` |
| `fp_context` | three threads, three kernels, one flag, one bit of rounding mode | `ContextTypeOK`, `FcsrBehind`, `ThreadsSpec` |
| `timer` | words of four values, six times, alarms, signals and clock reads in any order | `TypeOK`, `AlarmIsArmed`, `AlarmSpec`, `AlarmRings`, `SignalComes` |
| `extirq_lostclaim` | SDL build with a disk | `DataIsRead`, violated |

**Bounds.** *Hart*: eight addresses tell a direct handler from a vectored one, an even address
from an odd one and a wrap from none. The guest's writes reach all three modes with all values
of `SIE`, `MIE`, `SPIE`, `MPIE` and `SPP`, nested traps in both directions, delegation on and
off; more writes multiply states and add no new kind of step. The reserved value of `MPP` is
left to section 5. *MMU*: two levels are enough for a superpage, a table below the root, a
misaligned leaf and a pointer at level 0; two slots are enough for a hit, a victim and an entry
that ages; four pages do not fit in them. Stores remap, unmap and change permissions above and
below the root. Page 0 is not touched by this guest (section 5). *ExtIrq*: one character
value and two loads keep the state small; keys, polls, traps and handler steps come in any order
and number. *VirtioBlk*: indices wrap after four requests, in a ring of two. With one
request in flight no second notification and no reset falls within the delay, and every slot of the ring holds
descriptor 0; with two they do, and requests are served from the wrong slot (section 5). What is proved of types,
layout and announcements holds for any number. *LrSc*: three
rounds per thread, so that a reservation of one round can meet the SC of a later one. *Insn*: one
instruction from any registers, since nothing but registers, `pc` and memory passes from one to the
next, and the start takes every pair of 21 values around 0, the ends of a word and
the ends of a register; two faults, so that an atomic access can fault at its load and at its store.
Destinations are both sources and `x0`. `pc` starts at the end of the address space, where it wraps.
*Decoder*: immediates and registers are selections of bits, so a bit in the wrong place shows with one
bit set, and one bit that depends on another with two; the other words are the theorem's. *Fp*: the small formats have
subnormals, both infinities, several NaNs of either kind, ties and overflow in every mode. *FpContext*: a third thread can
find in the unit neither its own context nor that of the thread before it. *Timer*: six times carry from the
lower word into the upper one; signals, alarms and reads overlap as the kernel likes.

**Fairness.** `Cpu::run` is `while (true)`: the loop always goes on (`WF_vars(Loop)`), and it
ticks the devices in each turn (`WF_vars(Tick)` in `VirtioBlk`). What the guest does is not the
emulator's to promise, so liveness is stated for guests that cooperate: interrupts do not stay
masked for ever (`SF_vars(Unmask)`), a machine timer does not go first at every poll
(`SF_vars(PollTake)`), a driver that has filled a ring publishes and notifies, and one that is
interrupted runs its handler (`WF` of `Publish \/ Notify` and of `Handle`). Nothing is assumed
of the keyboard. In `Timer` the host's clock moves on (`SF_vars(Later)`) and the kernel unmasks its
interrupts (`SF_vars(Unmask)`); an alarm may wait for as long as the kernel keeps signalling itself,
because software interrupts go first. Deadlock is checked except where the program is finite: the threads of
`lrsc_two` and the one instruction of `insn_careful` and `fp_insn`.

## 4. Proofs

| Theorem | Says |
|---|---|
| `HartProofs!TypeCorrect` | `TypeOK`, for every address space, guest and device input |
| `HartProofs!LegalGuestKeepsLegalModes` | with `LegalWrites`, the hart never enters `Mode::Invalid` |
| `HartProofs!HartImplementsArch` | with `LegalWrites`, `Hart` implements `TrapArch` |
| `HartProofs!NoInterruptIsLost` | `NoLostInterrupt`, for every guest |
| `HartProofs!HandlersAreProtected`, `TrapKeepsOtherBits`, `PrivilegeRisesByTraps` | the other three action properties, with `LegalWrites` |
| `MmuProofs!TypesHold`, `OldestIsReplaced`, `CopiesNeverAhead` | `TypeOK`, `ReplacementOrder` and `CopiesBehindMemory`, for any number of levels, table slots and TLB entries and every guest that fences |
| `MmuProofs!TlbIsInvisible` | with `NoPageZero`, `MmuGuest` implements `MmuWalk` (`TlbInvisible`) |
| `ExtIrqProofs!TypesHold` | `TypeOK`, both builds, with or without a disk |
| `ExtIrqProofs!ReceiveInterruptsReachTheDriver` | without a disk, `DataIsAnnounced` |
| `ExtIrqProofs!ClaimsArePending` | `ClaimIsPending`, both builds, with or without a disk |
| `ExtIrqProofs!CompletionsClear` | without a disk, `PendingIsClaimable` |
| `ExtIrqProofs!NativeDataIsData` | in the native build, `DataIsData` |
| `VirtioBlkProofs!TypesHold`, `LayoutIsCurrent`, `UnseenAreAnnounced` | `TypeOK`, `LayoutCurrent` and `UnseenIsAnnounced`, for rings of any size and any number of requests in flight |
| `VirtioBlkProofs!RequestsAreServed` | with one request in flight, `VirtioBlk` implements `BlockStore` (`ServesRequests`) |
| `InsnProofs!TypesHold` | with `Careful`, `TypeOK`, for bytes, words and registers of any width |
| `InsnProofs!InstructionsAreExact` | with `Careful`, `Insn` implements `Isa` (`ArchSpec`), for every program, memory and width, the code's 64 bits among them |
| `DecoderProofs!FormsDecode` | for every format and every word of it that has a meaning and that `Exact` does not name, the dispatch gives the instruction encoded |
| `DecoderProofs!DecoderCorrect` | with `Careful`, `DecodesAsEncoded`, for every set of words of the formats, not only those TLC enumerates |
| `HartProofs!ContextTypesHold`, `FcsrStaysBehind` | `ContextTypeOK` and `FcsrBehind`, for every kernel and program |
| `HartProofs!ThreadsKeepTheirUnits` | with `Careful` and a kernel that saves `fflags`, `FpContext` implements `FpThreads` |
| `HartProofs!TwoThreadsExclude`, `TwoThreadsCount` | for two threads, any number of rounds, faults or not: `MutualExclusion`, `NoLostIncrement` |
| `FpProofs!OperandsStay` | `Issued`: an instruction in flight finds the operands it was issued with, whatever page faults it meets |
| `FpProofs!ResultsAreExact` | with `Careful`, `Fp` implements `FpIsa` (`ArchSpec`), for any two formats and integer widths, the code's `float` and `double`, `int32_t` and `int64_t` among them, fused or not |
| `TimerProofs!TypesHold` | `TypeOK`, for words of any width, whatever the clock and the firmware do |
| `TimerProofs!AlarmsAreArmed` | with a steady clock, `AlarmIsArmed` |
| `TimerProofs!PromiseIsKept` | with a steady clock and firmware that reads it by words, `Timer` implements `Alarm` (`AlarmSpec`) |

*Assumptions.* Those of the modules: the address space is a positive multiple of four, a word has at
least two values, a byte at least one bit, the size of the ring divides the span of its indices, the instructions of a
program are `Encodable`, the `Words(f)` of a format `f` differ in the bits `f` leaves open, a
floating-point format has two bits of exponent and of fraction at least and the integers of `Word` and `Long` in its range, `Single` is
narrower than `Double`, the inputs have their types. The hypotheses
of the theorems that need one say for which guest, machine or build the statement is meant. Without them it is
false, and section 5 gives the counterexample:

* `LegalWrites`: from a legal `MPP` each of the guest's writes of `mstatus` leads to a legal one.
* `NoPageZero`: page 0 is accessed in machine mode only, where the TLB is bypassed. Kernels leave the null page unmapped.
* `OneRequest` (`Depth = 1`): the driver has one request in flight.
* `Build = "native"`, `~HasDisk`: the build and the machine.
* `Steady`: the host's wall clock is not set back. `Careful`: programs keep to what section 5 lists as working.

*Hart.* `TypeOK` is inductive with `ExceptionPhases`: no exception is left when a tick begins, and there is one when
`exception::process` runs, whose number would otherwise not be a cause. For the rest the strengthening adds `LegalModes`:
neither `mode` nor the value in `MPP` is the reserved one. `PushSStack`, `PushMStack`, `PopSStack`
and `PopMStack` say once what the four stack operations do to the enable flags and frames; the
refinement then goes action by action: `PollTake` is `Arch!Interrupt`, `Trap` `Arch!Exception`, `SRet` and `MRet`
`Arch!Return`, and a poll or a fetch that leaves an exception, or an instruction that throws one, is `Arch!Raise`; the
other instructions are `Arch!Software`. The action properties follow
from the same invariant, one case per action.

*ExtIrq.* `DataIsAnnounced` is not inductive: a claim could be overwritten or a completion zero
it. The strengthening says that the receive interrupt is enabled in the UART only when its source
is enabled in the PLIC, that the handler owns what it claimed while it runs, and that without a
disk no other source is ever claimed. With a disk the theorem is false (`extirq_lostclaim`).

`PendingIsClaimable` needs much the same (`AloneInv`): the handler holds the last claim until it completes it, and the
kernel enables a source before the device may interrupt. `ClaimIsPending` is inductive by itself; `DataIsData` too in the native build, where data ready is set and
cleared only together with the receive register.

*Mmu.* The invariant is `TypeOK /\ EmptyIsZeroed /\ ReplacementOrder /\ Coherent`, and all four are needed at once.
`Coherent` says of each entry whose page needs no fence that a walk now ends at the same leaf and that the copy has
its frame and its flags, the dirty bit perhaps excepted: a hit then answers as a walk would. Two pages of one
superpage have two copies of its leaf, and a mark made through one keeps the other a copy (`MarkKeepsCopies`). `EmptyIsZeroed` is why only page 0 can hit an
empty entry. `TouchedOrder` and `RanksOrder` say that resetting one age and incrementing the others keeps the
order of the rest, for a TLB of any size. The lemmas at the head of `MmuProofs` have what the loop of `fetch_pte` needs: turns keep types
(`StepDoes`), and a write that only adds accessed and dirty bits to a leaf leaves every walk alone but for those
bits in the leaf it finds (`MarkedWalk`). Refinement is then one step to one step: an access through an
entry is `MmuWalk`'s by `UseIsWalkOk`, an error is its error, and stores, fences and `satp` are the same actions.

*VirtioBlk.* `LayoutCurrent` is strengthened to `RegistersStored`: what the driver has stored is in the registers, and
`layout` follows. `Announced` is `UnseenIsAnnounced` on the indices alone; that these agree is arithmetic modulo
`IdSpan` (`UnseenIsDistance`). For the refinement, `OneInv` says where the one request is: there is none (`Resting`),
it waits for its notification or the end of the delay (`Waiting`), or it has been served and not reaped (`Served`). Every
slot of the ring holds descriptor 0 then, so that the slot `access_disk` reads is the right one although its index is one too far.

*LrSc.* A thread in its critical section has the lock word `Held`, and is alone there. The fact
that makes two threads safe is `StaleScFails`: while one thread is in its critical section and the
other waits at its SC, the lock is not reserved. The winner took the reservation away, and the
thread that waits executes no LR. A third thread spinning on LR breaks exactly this. `Exact` counts
increments by rounds left.

*Insn.* A handler and the architecture compute different numbers; the register is the same because they are congruent
modulo 2^XLEN, or modulo the width they sign-extend from (`Cong`, `ToRegCong`, `SignedSame`). `LowRows`, `HighRows`,
`WordRows`, `ImmRows`, `WordImmRows`, `BranchRows` and `AmosAreExact` say so for each table of handlers, and show where
`Exact` is needed: `mulhsu`, with both operands as unsigned 128-bit numbers (`HighSignedUnsigned`), is right, `sra` only
for counts and operands that fit 32 bits (`SmallCount`). A load fits its width (`LoadFits`), a store sees its value
modulo its width (`StoreSame`). The invariant says of the instruction in flight, besides that it may be issued, `Agrees`:
a faulted attempt has changed at most the `rd` of a load or AMO, and only if no operand of the restart is in it. So `Fault` is a stutter of `Isa`, `Issue` `Arch!Issue`, and each handler `Arch!Execute` or
`Arch!Raise` (one lemma each, `ComputeEnds` to `AmoMisalignedEnds`). The prover has no theory of 2^n: that it is a
positive number and multiplies as it should follows from counting subsets and pairs of them (`PowerCounts`, `PowerOfSum`).

*Decoder.* The decoder is a function of one word, and the word a set of bits: nothing is computed that the prover
would need a theory of bit vectors for. `ShrIn` and `ShlIn` say what a shift does to one bit, `BitsAre` that a field
in which a format fixes the bits of a number has that number, and `ValueIs` that a register operand is its field.
`Taken(w, a, b, p)` is what bits `a` to `b` of an immediate take from the word at `p` and up, `Pick` what a whole immediate
takes. Each decoder function is shown equal to the `Pick` of the immediate of its format, sign included. `Decodes(f)` is the goal for one format; `OfForm`, `Proper`
and `Word32` say of a word that it was assembled by it, so that its fixed fields are known and the dispatch, down to
the table of its handler, has one way to go. Formats that come in families (an `op` and a `funct3` taken from a table)
are one lemma per family, and `FormsDecode` goes through the sets of formats `Forms` is the union of. In a run,
`DecodesAsEncoded` needs beside it `Assembled`: the word that is executed has the fixed bits of its `form`, is not
`Reserved` and is `Exact`. Sixteen bits of the next instruction above a compressed one are in no field its handlers read.

*FpContext.* `ContextTypeOK` and `FcsrBehind` are inductive as they stand, `FcsrBehind` with the types. The
refinement needs to know whose context is in the unit when an instruction uses it: `OnForOwner` (the unit is on
exactly when the running thread owns it), `NeverDirty`, `OffOnlyInTrap`, and `LazyIdle` (threads of a kernel that
waits for Dirty have written nothing). Then an instruction is one of `ContextArch!Compute`, `Move`, `WriteFlags` and
`WriteMode` of the running thread, and by `ExchangeIsInvisible` a switch, or the trap that makes up for it, is a
stutter. Without `Careful`, or with `SavesFcsr`, the statement is false (section 5).

*Fp.* The code computes with the host's operators and the architecture with its own, but both are those of `Floats`
(`SameFma` and its like), so what is to prove is what the code does around them. The invariant is `Issued`: while an
instruction is in flight its operands are those it was issued with, a faulted `fl` having touched only its destination; without it
the restart could compute from other numbers. Then every handler's step is one step of `FpIsa`
(`ArithmeticStep` to `StoreStep`), every fault none (`FaultStutters`). Four facts about numbers carry it.
(1) `a * b + c` with two roundings gives the fused result and flags when the product is exact (`UnfusedIs`), so the build's choice does not
show. This rests on `RoundScales`: a number written with more digits rounds to the same datum and flags, in each of the five modes,
near the subnormals and at overflow; and on `ExactProduct`, that a rounding without flags keeps the number.
(2) An operation that gives no NaN gives a number and does not raise invalid operation (`FmaIsNumber`, `DivIsNumber`, `SqrtIsNumber`,
`ConvertIsNumber`), so dropping FE_INVALID loses nothing. (3) Off the ties, rounding half away from zero and half to even
agree (`NearestOffTies`): what `std::round` gives. (4) `fd_conv_check` compares with a limit that has gone to the float type and back; `LimitDoes`
bounds that limit, so what passes is in range (`RangeDoes`). A float in a wider register is read back by `BoxDoes`.

*Timer.* `AlarmIsArmed` speaks of the firmware at rest, so the invariant must say what each routine has still to do
whenever it stops between two instructions: `Progress` is a disjunct per place (`Setting`, `SettingUpper`, `Arming`, ...,
`ReadingAgain`), each with what holds there. `Core` is common to most: the compare register holds the alarm and its interrupt is
enabled, or the supervisor's is pending, and never both. A clock that is read by words is right for a reason of arithmetic:
`ReadingLower` keeps `hi <= mtime \div Base`, so when the second load of the upper word finds `hi` again, the clock
has not carried in between and the value lies between question and answer (`Answered`). `Split`, `Compose` and
`StoresBoth` are about words of any `Base`. `AskedFor` ties pending software interrupts to requests. Steps of the
firmware are stutters of `Alarm`, but for the return that gives the time.

*Model-checked only.* Every liveness property (`DataIsRead`, `DiskIsServed`, `EveryRequestAnswered`,
`AlarmRings`, `SignalComes`): fairness and `ENABLED` are out of the prover's reach. So are `RECURSIVE` operators,
and the library's induction theorems, which take an operator: the page walk is unrolled, and the one induction needed,
over the bits of a number, is had from the fact that `<` is well founded, for a set in place of an operator
(`InductiveSet`, `SumsExist`). With more than one request in flight `ServesRequests` is false (section 5) and not stated.

## 5. Where the code and its documentation disagree

`extirq_lostclaim` shows a disagreement with the feature list of the repository's `README.md`: a UART
interrupt that a machine timer delays is overwritten in `claim[1]` by the disk, and never delivered. The quote
and line are under `findings` in `PROJECT.json`.

The passing runs are for guests that keep clear of what follows. For each of these an instance
shows the property violated:

| Property | With | Shows |
|---|---|---|
| `TlbInvisible` | a request for page 0 | the first access hits an empty TLB entry and faults (`mmu.cpp:283`) |
| `ServesRequests` | `Depth = 2` | the ring is read one slot past the published one; with one request in flight every slot holds descriptor 0 (`virtio.cpp:60`) |
| `DataIsData` | `Build = "sdl"` | releasing a key takes back a character not yet read, and data ready stays set (`gpu.cpp:317`) |
| `MutualExclusion` | three threads | an LR of one thread revives the reservation of another, and both hold the lock (`atomictype.cpp:166`) |
| `Insn!ArchSpec` | `Careful = FALSE` | `c.lw a0, 0(a0)` that page-faults is restarted with `a0 = 0` (`ctypeinsn.cpp:241`); the table below |
| `DecodesAsEncoded` | `Careful = FALSE` | the words listed below |
| `Fp!ArchSpec` | `Careful = FALSE` | the operands listed below |
| `ThreadsSpec` | `Careful = FALSE` | a switch that saves what is Dirty saves nothing: FS is never set (`csr.cpp:135`); the compressed loads and stores and the CSRs use the unit although it is off (`ctypeinsn.cpp:216`); bits 5 to 7 written to `fflags` reach the rounding mode (`csrtypeinsn.cpp:281`) |
| `ThreadsSpec` | `SavesFcsr = TRUE` | `fcsr` reads flags as of the last CSR write: a kernel that saves it loses those raised since (`csrtypeinsn.cpp:254`) |
| `AlarmSpec` | `Careful = FALSE` | a 64-bit load of `mtime` gives 0 (`clint.cpp:28`) |
| `AlarmSpec` | `Steady = FALSE` | time goes back with the host's wall clock (`helper.cpp:123`) |

Others are steps of the models that no property forbids:
an interrupt delegated to the supervisor is taken in machine mode; `sret` to supervisor
mode keeps `MPRV`; after an `mret` with the reserved `MPP` a trap sets `FS`, `SUM` and `MPRV`; an
A or D update through a copy that is stale but not yet fenced puts the old page table entry back;
two requests that share a notification leave one unserved; a notification survives a
device reset; acknowledging the disk's interrupt raises the configuration interrupt; in supervisor
mode with `SIE` clear no interrupt is taken, the machine's included; every software interrupt traps
twice; output of more than one transmitter load stops after the first where the driver waits for an interrupt, since
a store to `thr` raises none (`gpu.cpp:182`); `mppn` has 32 bits, and a root table above 4 GiB is read from elsewhere
(`mmu.hpp:97`); a guest that reads the pending registers of the PLIC finds source 74 in place of 10; an exception that a
tick raises is charged to the instruction at `pc`, which is not executed, and where an interrupt is taken in the same
poll, its trap may overwrite the frame of the handler before the first instruction of it. `sfence.vma` and writes of
`satp` that raise an exception do their work all the same (`Hart` has the one, `Mmu` the other).

`Exact` and `Clobbers` of `Insn` are the instructions that do not compute what `Isa` says. Each
condition is needed: TLC refutes `ArchSpec` without it.

| Instruction | Code |
|---|---|
| `div` of -2^31 by -1 | -2^31: the overflow test has the 32-bit limit (`rtypeinsn.cpp:267`) |
| `sra` | shifts the low 32 bits, by the count modulo 32 (`rtypeinsn.cpp:314`) |
| `remw` | divisor not cut to 32 bits (`r64insn.cpp:183`) |
| `remuw` | neither operand cut, result not sign-extended (`r64insn.cpp:194`) |
| `c.jr`, `c.jalr` | bit 0 of the target stays (`ctypeinsn.cpp:547`) |
| `c.ebreak` | executed as `c.jalr x0` (`ctypeinsn.cpp:178`) |
| misaligned AMO | raises and zeroes `rd` (`atomictype.cpp:9`) |
| AMO that faults, `rd` one of its sources | restarted with the source overwritten |

`Exact` of `Decoder`, with the words that are decoded to something else:

| Word | Code |
|---|---|
| `fsw`, `fsd` with a negative offset | the offset is not sign-extended (`decoder.cpp:95`) |
| `c.fsd` | stores the floating-point register with the number of the address register (`ctypeinsn.cpp:270`) |
| `c.ebreak` | `c.jalr x0` |
| the 16-bit illegal instruction before a halfword that is not zero | `c.addi4spn` of 0, which goes on (`cpu.cpp:197` compares 32 bits) |

`Exact` of `Fp`, with the operands whose result is not that of `FpIsa`:

| Instruction | Code |
|---|---|
| all arithmetic, conversions to a float | round to nearest, whatever `rm` and `frm` say |
| invalid operations | NV is not raised when the host returns a NaN of its own; FE_INVALID is dropped (`fdtypeinsn.cpp:650`) |
| fused | two roundings where the build does not contract (`fdtypeinsn.cpp:153`) |
| `fmin`, `fmax`, `feq`, `fclass` | one signaling NaN is known, the others pass for quiet (`fdtypeinsn.cpp:50`) |
| conversions to integers out of range, or with `rm` DYN, or RNE at a tie | limits and modes of their own (`fdtypeinsn.cpp:67`) |
| single precision in a register that holds no boxed float | the lower half is taken as it is (`misc.cpp:140`) |

## 6. What is left out, and why

* Values no property tells apart: `tval`, `exc_data`, general registers in `Hart`, line control
  registers of the UART, feature and configuration registers of the disk, priorities and
  thresholds of the PLIC (stored and never used by the code).
* Page offsets, addresses that are not canonical, `satp` modes other than Bare and one SV mode at
  a time. `Levels` and `Radix` are parameters.
* `wfi` (a no-op in the code), performance counters, the debug and Emscripten builds.
* Handlers on words: `Insn` and `Fp` take decoded instructions, `Decoder` says which word gives which.
  An instruction the emulator rejects changes nothing.
  The divisions `Undefined` names (`div` of -2^63 by -1, `remw` and `remuw` by 0) end the emulator on
  x86-64 and give the dividend on AArch64.
* Floating point at full width: the formats are parameters, and TLC checks small ones. Payloads of NaNs the
  host makes are any. `Floats!Round` detects underflow after rounding, for the architecture and for the host: x86-64
  hosts do, AArch64 hosts detect it before, and may raise UF where a result rounds up to the least normal number.
* Words that are no format's and that `Encoding!Unused` does not list: reserved `funct7` values that the code
  executes (`r64insn.cpp:27`, `divw` whatever the field holds) are not enumerated.
* Malformed virtio descriptors in `VirtioBlk`: the exception they raise is in `Hart`, the status byte the device
  writes all the same is not. Descriptors of the model are well formed.
* Accesses and instructions that straddle two pages, translation under MPRV: they need the trap unit, page tables and memory in one module, whose states
  multiply beyond what TLC checks in minutes; the parts are modelled apart.
* Framebuffer, terminal, syscon, option parsing, image loading: output and I/O without state that
  another component reads.
* The guest. Its kernel and drivers are environment: external in `PROJECT.json`, and written down
  in the comment that heads each module.

## 7. Plan

Modelled and checked: `TrapArch`/`Hart`, `MmuWalk`/`Mmu`, `Plic`/`Uart`/`ExtIrq`,
`BlockStore`/`VirtioBlk`, `LrSc`, `Isa`/`Insn`, `Encoding`/`Decoder`, `FpIsa`/`Fp`,
`FpThreads`/`FpContext`, `Alarm`/`Clint`/`Timer`. Every safety property that a passing run checks is proved.
What is left would be a new model: an access that straddles two pages (section 6), which needs the trap unit, the page
tables and memory in one module.
