# A verification development for NovaRave32

NovaRave32 is a fantasy console: an emulator (Rust, compiled to wasm, `src/src`) of a
RISC-V machine with a DMA engine, a GPU, a sound processor, an input port, a timer and an
interrupt controller; a kernel (`src/nr32-rt`) and a user library (`src/nr32-sys`) that run
inside it; a build tool (`src/multitool`) that makes cartridges; and a web front end
(`src/nr32-web`). The TLA+ modules of this directory model the parts of it where ordering,
concurrency or arithmetic make errors hard to find by testing.

[Inventory](#inventory) · [Modules](#modules) · [Kernel](#the-kernel) ·
[Traps](#traps-and-reservations) · [Semaphore and FIFO](#semaphore-and-fifo) · [Heap](#the-heap) ·
[Machine](#the-machine) · [Processor](#the-processor-and-its-decoder) ·
[Cartridge](#the-cartridge) · [Web page](#the-web-page) · [Runs](#runs) · [Fairness](#fairness) · [Proofs](#proofs) ·
[Disagreements](#where-code-and-comments-disagree) · [Not modelled](#what-is-not-modelled) ·
[Plan](#plan)

## Inventory

| Part | Source | State | Operations | What is hard | What makes it correct |
|---|---|---|---|---|---|
| Kernel scheduler | `nr32-rt/src/scheduler.rs` | `tasks` (state, priority, saved registers, ticks), `cur_task`, MTIMECMP | spawn, exit, schedule, sleep, futex wait and wake, wake by device | several switches in one trap, slot reuse, timeouts racing wake-ups, a clock read twice | each task runs in its own context; strict priority; nobody oversleeps; accounting never underflows |
| Kernel traps and calls | `nr32-rt/src/main.rs`, `asm.rs` | IRQ_PENDING, trap frames on the tasks' stacks, mepc, mscratch | `_trap_handler`, `handle_ecall`, `handle_irqs`, boot | devices raise interrupts while the handler runs; a call saves fewer registers than are restored | no interrupt is lost; each task finds its registers |
| Kernel drivers | `nr32-rt/src/dma.rs`, `input_dev.rs` | `in_progress`, `xfer_target` | start/done, xmit/xmit_done | a pointer to user memory kept until an interrupt | one exchange of bytes at a time; the buffer's owner stays blocked until it ends |
| Kernel heap | `nr32-rt/src/allocator.rs` | doubly linked blocks in memory | init, alloc, free | splitting, alignment, merging | blocks tile the heap, allocations are disjoint, no two free neighbours |
| Boot script | `nr32-rt/src/bootscript.rs`, `nr32-common/src/bootscript.rs` | RAM | COPY, ZERO, HEAP, EXEC | segments that share ROM with the header and each other | the program starts with its memory as linked |
| User synchronisation | `nr32-sys/src/sync/` | semaphore value and waiter count; ring of slots with sequence numbers | wait, try_wait, post; push, pop and their try forms | lock-free code over futexes, preempted at any instruction | no lost wake-up, no slot read and written at once, order kept, nothing lost |
| Cartridge | `multitool/src/cart.rs` (writer), `nr32-sys/src/fs.rs` (reader) | the image; a tree of entries | load ELF files, dump a tree; entry, fsck | padding, end of directories, paths | the reader finds what the tool wrote |
| Emulator time base | `src/sync.rs`, `lib.rs` | per device: date of the last sync and of the next event | resync, rewind, next_event, handle_events, rebase | devices run late, early and in the past; dates rebased every frame | no cycle lost, no event forgotten |
| Interrupts, timer, traps | `src/irq.rs`, `systimer.rs`, `cpu.rs` | pending/enabled, MTIME/MTIMECMP, mie/mstatus | trigger, acknowledge, trap, mret, wfi | level against edge, a register written by halves | the line is exact, an enabled interrupt is taken at once |
| DMA engine, FIFOs | `src/dma.rs`, `fifo.rs` | source, target, words left, buffer | refill, drain, run, store | stalls on a busy GPU, set up again while running | every word delivered once, in order, one interrupt |
| GPU | `src/gpu.rs`, `nr32-sys/src/gpu.rs` | command FIFO, state of the command, matrices and their cache, buffers | handle_command, run, stores, flush | commands split over stalls, full buffers between vertices | what the program drew reaches OpenGL |
| Input port | `src/input_dev.rs` | TX/RX FIFOs, byte clock | store, load, run | runs at any date | bytes are exchanged one for one |
| Sound processor | `src/spu.rs` | voices: memory position, queue of samples, envelope | run, store | looping, restarts, run lazily, rounding | sounds play as encoded, released voices end |
| CPU | `src/cpu.rs` | registers, reservation | step, LR/SC, stores | edges of the arithmetic; reservations against traps, stores and DMA | programs compute what they mean; SC is atomic |
| Decoder | `src/cpu/decoder.rs` | decoded pages, `page_lut`, the last page used, scores | fetch, decode, evict, invalidate, expire | code that is stored to, evicted, decoded again; instructions across pages; scattered immediates | what is executed is what memory holds |
| Build tool | `multitool/src/model.rs`, `audio.rs`, `score.rs` | none | conversions | the decoder of the other side | round trips |
| Web front end | `nr32-web/src/` | ring of samples, audio worklet, mute toggle | push, pop, toggle | two threads, asynchronous start of audio | samples in order, one source of frames |

User tasks enter the kernel by `ecall` and are switched by it. The kernel programs devices
through memory-mapped registers and is told of completions by three latched interrupts
(VSYNC, input port, DMA) and a level, the timer. The emulator lets the processor run ahead
of the devices and brings a device up to date (`sync.rs`) when it is accessed or an event is
due; the front end calls `run_frame` and takes its samples through a shared ring. The build
tool's files are read by the kernel (boot script), the library (file system), the GPU
(model words are GPU commands) and the sound processor (blocks of ADPCM).

## Modules

| Module | Models | Uses |
|---|---|---|
| `Dispatcher` | what a scheduler promises (abstract) | |
| `Kernel` | scheduler, system calls, interrupt handler, drivers, their hardware | `Dispatcher` |
| `Semaphore` | `sync::Semaphore` over the futex calls | |
| `BoundedQueue` | what a queue promises (abstract) | |
| `MpmcFifo` | `sync::Fifo` | two instances of `Semaphore`; `BoundedQueue` |
| `Memory` | what an allocator promises (abstract) | |
| `Heap` | the kernel's allocator | `Memory` |
| `Sync` | `sync.rs`, `irq.rs`, the interrupt part of `cpu.rs` | |
| `SysTimer`, `Dma`, `InputPort` | the devices of these names | `Sync`, `GpuPort` |
| `InstructionMemory` | what an instruction fetch promises (abstract) | |
| `Decoder` | the decoder's cache of pages | `InstructionMemory` |
| `Rv32`, `Rvc` | decoding and computation of each instruction; the reference for the compressed ones | |
| `Cpu` | the processor executing programs | `Decoder`, `Rv32`, `Rvc` |
| `TrapHandler` | registers, stacks and reservation through traps | |
| `GpuCommands`, `GpuPort` | the GPU's commands; its FIFO, timing and frames | `Sync` |
| `Spu` | a voice of the sound processor | |
| `Machine` | instructions, `run_frame`, `handle_events` | all the devices |
| `Nr3d`, `Nrad` | the build tool's models and sounds | |
| `CartFs`, `Cartridge` | file system, writer and reader; the tool, boot script and program | |
| `FrontEnd` | the page's ring of samples, worklet, mute button, frames | |
| `KernelProofs`, `MpmcFifoProofs` (and of `Semaphore`), `HeapProofs`, `DecoderProofs`, `TrapHandlerProofs`, `MachineProofs`, `CartridgeProofs`, `FrontEndProofs` | the theorems | |
| `MC*` | instances for TLC | |

A definition whose comment begins with "Mutant" is a variant of one that follows it, with a
plausible error that a property must catch; no specification uses it.

## The kernel

| TLA+ | code |
|---|---|
| `tasks`, `ntasks` | `Scheduler::tasks`; slots beyond `ntasks` were never pushed |
| `life`, `saved`, `live` | which task a slot holds, and whose context `ra`/`sp` and `mepc`/`mscratch` hold |
| `mpp` | `mstatus.MPP` |
| `kpc`, `pending` | where `handle_irqs` is, and its copy of IRQ_PENDING |
| `xferTarget` | `InputDev::xfer_target` |
| `mtime`, `mtimecmp`, `irqPending`, `dmaHw`, `inputHw` | registers and devices |
| `late`, `births` | history: who became runnable without `schedule()`, tasks created |

A system call is one action, since there is one core and the kernel runs with interrupts
disabled. `handle_irqs` is a sequence of actions driven by `kpc`, one per wake-up, between
which the clock and the devices run on: this is where interrupts could be lost.
`Schedule(ts, start)` is `schedule()`: it stores the interrupted context, wakes the due
sleepers, picks the next task in scan order, arms the timer and switches; the clock may
advance by `ReadSkew` between its reads. Calls the kernel refuses change nothing and are
stuttering steps. `Dispatcher` says who may lose the processor, to whom and when, without
timers or contexts; `Kernel` implements it.

Bounds. Four slots are the idle task and three user tasks: a current task, a woken one and
a rival; two priorities tell higher, equal and lower apart; `MaxBirths` = 3 gives one reuse
of a slot; `HZ`, `Slot` and the durations keep their order, with a timeout that saturates
(`U64Max`); MTIME stops at `MaxTime`.

## Traps and reservations

`TrapHandler` looks at the same traps as `Kernel` from below: what is in the registers, on the
tasks' stacks, in `mepc` and `mscratch`. A trap is one step, from the instruction to `mret`,
because traps do not nest; it goes through the paths of `_trap_handler` as the code does. An
interrupt saves everything and restores everything. A call saves `s0` alone, and the preserved
registers and its result only if another task has been scheduled, into a frame whose other
words are left from earlier, and `__return_to_user` loads all of it. A sleep that ends late is
written into the `a0` of a saved frame (`set_banked_reg`), and the result of a call may be
saved over it: `AfterCall` allows both values. Which task runs next is `Kernel`'s subject; any
runnable one is taken here.

| TLA+ | code |
|---|---|
| `x`, `sp`, `pc` | the registers of the task that runs |
| `tasks`, `cur` | saved `ra`, `sp` and the state, `cur_task` |
| `stack` | the 32 words under a stack pointer, by task and depth |
| `reservation`, `dma` | `cpu.reservation`; the words the running transfer has yet to write |
| `expect`, `linked`, `broken` | history: what each task must find; its last LR and whether its word was written to since |

`Registers` has a representative of each class that the code treats alike (`gp` and `tp` are
only preserved by the handler, `s0` is used by it, `a0` and `a1` are results, the rest are
temporaries). `Preserved` rests on the calling convention for the compiled part of the kernel;
`Junk` stands for what that part leaves elsewhere.

`ScIsAtomic` is about the reservation, which belongs to the core: the handler's `sc.w` ends it
at every trap, `ram_write` at every store to its 16 bytes, and `check_dma_reservation` at an LR
of a word that a transfer is going to write. That a transfer which ends in between goes
unnoticed does no harm, since starting one is a system call, whose trap ends the reservation.
Nothing sets the driver's `in_progress`, so `StartDma` may replace a transfer under way, and
words are then written anywhere while its registers are rewritten.

Bounds. The idle task and two others, with one frame or two on their stacks, two addresses and
two sets of values in the registers; two words that share a cell of `ram_write` or not. The
handler's interrupt may schedule three times and does so twice in the model; the third would
do to the current task what the second does.

## Semaphore and FIFO

`Semaphore` has one action per atomic instruction or futex call of a thread (`spc` says
where it is). A weak compare-and-exchange may fail. `futex_wake` wakes the waiter of the
highest priority, as `Kernel` does. `MpmcFifo` has two instances of it, for empty and filled
cells, and one action per atomic instruction of `do_push` and `do_pop`; the write or read of
a slot's contents is a step of its own, so that two threads meeting there shows
(`NoSlotRace`). It refines `BoundedQueue`: a push takes effect when the write index is
claimed, a pop when the read index is. `seen`, `writes` and `reads` are history: where the true index
stood when a thread last looked at it, and the positions claimed so far, which do not wrap.

Bounds. Three threads of two priorities and two posts on the semaphore; on the FIFO two slots
and two or three threads with up to three calls each, starting at an index just before the
wrap (`Base`, `W`), so that ring, indices and sequence numbers all wrap.

## The heap

Calls do not interleave (the kernel has interrupts off); the first-fit scan is one step per
block. `hdr` is the memory that holds the headers, `blocks` and `live` are history: where
headers are, and what callers hold. The size and alignment arithmetic is the code's, with
its wrap at `W`. The instance is a heap of ten units that starts unaligned, with requests
of 0, 1 and 4 units, in every order of calls.

## The machine

`Machine` is a record `m` of the processor's interrupt state, the clock and the devices,
because a handler of the emulator is a chain of calls that each take and change the whole
`NoRa32`: each function of the code is an operator from `m` to `m`.

- **Time.** An instruction takes 1 or 3 cycles (`Ticks`) and then has its effect. When an
  event is due, `HandleEvents` rewinds the clock to its date and runs what is due, as
  `handle_events` does; `EndFrame` rebases every date. `m.base`, a history field, makes the
  clock absolute, and `TimeConserved` compares it with what each device has counted.
- **Programs.** A program is a set of kinds of instruction executed in any order until a
  date, so that devices are met alone and together; words sent to the GPU in order; or
  stores to the sound processor in order. The drivers' order of the three DMA registers
  (`nr32-rt/src/dma.rs`) is kept, a new transfer may be set up while one is running, WFI is
  executed with interrupts on, and MTIME itself is not written, as in the kernel.
- **CSRs.** `CsrAndOr` gives `mie`, MIE and MPIE any values. CSRRS, CSRRC and the immediate
  forms (`CsrBits`) then look at the interrupts; CSRRW (`CsrSet`) does not
  (`cpu.rs:775-781`), so an interrupt that it lets through waits until a line changes or the next
  instruction that looks. `NoInterruptMissed` excepts that interval, which the history field
  `unchecked` marks. The kernel executes CSRRW with interrupts off only.
- **GPU.** Words are tagged with what they mean. A data word taken for a command puts the
  GPU in the state `<<"Lost">>`, since the real one would do anything. Matrices are diagonal
  and hold exponents of two, so that a product is a sum. `shown` is the history of triangles
  handed to OpenGL, and `Resolved` those in the buffers with the matrices they will have.
- **Models.** `Nr3d` builds the words of a model from a mesh, and `ModelsAreDrawn` says that
  each triangle of the mesh that fits is shown once, in order, with its vertices and matrix,
  wherever frames, full buffers and flushes fall. The mesh has indices out of order, colours
  and a material, a primitive of lines, a triangle out of range.
- **Sound.** `Nrad` encodes a sound with the tool's arithmetic (filters, shifts, saturation),
  the program uploads its words and starts a voice, and `VoicePlaysSound` says that the voice
  decodes exactly what the tool decoded when it chose the encoding. One voice is modelled: the
  24 share nothing but the memory. `line`, `stale`, `heard`, `played` and `startedAt` are history.

Bounds. FIFOs of two words, one place for a matrix and three triangles in the buffers: every
full and empty case happens within a few words. A frame of 7 cycles ends inside every kind of
activity; the drawing one has 60. Blocks of 8 samples instead of 28 keep the queue (11 to 16
samples) ahead of the end of a sound by more than one block. Envelopes are started from
levels at the edges of their modes (1, 0x6000, the maximum) with the shortest and longest
shifts. The program dates (`until`) let
several frames, timer ticks, transfers and bytes pass.

## The processor and its decoder

`Decoder` is the cache of decoded pages. What is decoded at a place depends on nothing but the
two halfwords from there on and the address, so a page holds these (`code`), and `Cpu` applies
`Rv32!Decode` to them when it executes. The three ways to a page (`last_used_page`,
`page_lut`, decoding it) are three disjuncts of `FetchInstruction`, eviction a fourth; the
pseudorandom bias of the eviction is any value of its range, for every page.

`InstructionMemory` is what the architecture promises: a halfword that is fetched is one that
its place has held since the last FENCE.I. `FetchFollowsMemory` is the refinement. It allows
an instruction that spans two pages to be half old and half new, and so does the architecture
before a FENCE.I.

`Rv32` is the bit fields of `decode_page` and the arithmetic of `step`; `Rvc` is written from
the tables of the instruction set and not from the code, and `CompressedIsExpansion` compares
the two: 11,136 words with few bits set or few clear, which put every bit of every field in
place, alone and with others. `ProgramComputes` runs whole programs through fetch, decode and
execution: Euclid's algorithm at three offsets in a page, recursion with a stack in RAM, bytes
and halfwords with signs, code that is written, called, rewritten and called again, LR and SC
with a store between them, AMOs; and laws that connect the operations at their edges (quotient
times divisor plus remainder, signed and unsigned halves of products, shifts out and back,
comparisons against branches), so that the expected results do not come from the definitions
they check.

Bounds. Registers have 16 bits (`XLen`), so that TLC's integers hold the product of two; memory
words keep their two halfwords. Pages of 8 halfwords, two of RAM and five of ROM, two of which
are decoded at a time: programs cross pages, evict them and come back. A frame is three
fetches, and `MaxScore` is the least that fits them, as `DecoderAssumption` allows; with the
code's numbers (pages of 2048, 752,640 cycles in a frame, a u32) there is a third to spare.
Instructions that the code does not know end a program ("panic"), as do devices and the system
instructions ("system"), which `Machine` and `TrapHandler` model.

## The cartridge

`CartFs` writes a tree (`dump`, depth first, one step per entry) and reads it back (`visit_r`,
a frame stack, one step per entry). `Cartridge` runs the tool on two ELF files and a tree,
then the kernel's boot script, then the program's visits. `MCCartridge` enumerates every tree
of two levels below the root on two names, and many programs of one to three segments whose
images share ROM, touch the ends of RAM and ROM, or overlap what is already there, with entry
points and global pointers that the tool accepts and refuses, and file systems that end within
ROM or are refused when mounted (`Mounts`; the tool does not look where the ROM ends). Segments
of one ELF file that are loaded do not overlap; the linker scripts leave the kernel's RAM and
the header alone. A byte `ff` is blank ROM to `copy_data`, so data that are all `ff` may be
overwritten unnoticed: `Present` excepts them. `FsckSeesTree` is about trees without empty
directories: with one, the visit goes astray (`fs.rs:128`) and no comment says what it
should count. Likewise no property says what the lookup of a missing path returns.

## The web page

`FrontEnd` has one action per segment of code that a thread runs without the other being
able to tell. The main thread reads the level, writes a frame's samples and publishes the
write index; the audio thread reads the level, reads samples, gives their room back, and asks
for more. The click handler is cut at each `await`: `Mute`, `MuteEnds`, `Unmute`,
`UnmuteGoesOn`, `UnmuteEnds`. What belongs to the browser is external: an audio thread takes
`suspend` and `resume` in order and between calls of its processors, the promises of
`suspend` are kept in order, a context starts running at once since a click made it, and a
suspended one that nothing refers to is collected.

Samples are numbered modulo two turns of the ring, so that a stale one shows. `overflow`,
`heard`, `got` and `made` are history.

Bounds. The ring holds six frames and the threshold is a frame and a half, as in the code
(17640 samples, 2940 a frame, 2205 pairs); an instant is half a frame. Three clicks are two
lives of the audio. An interval only fires when the requested frames have been run (a page is
drawn at least twice as often as it fires), and at most `MaxLate` times while a click is
being handled: longer suspensions would only fill a ring that nobody hears.

A click may come at any time, since nothing disables the button. One order breaks the page: a
mute clicked while an unmute is being handled. What is left of the unmute forgets the interval
that the mute has started (`main.ts:104`), which then goes on beside the worklet. `overtaken`
says that a mute has been clicked while another click was handled; `OneSource` and
`RingInOrder` are about the page until then, and `FramesGoOn` about the page whatever was
clicked. `MaxOvertaken` ends the clicks once a mute has overtaken one: with two, frames go on
being run, twice as many as needed. Five that overtake each other can do worse: unmute, mute, unmute, mute while the
worklet's module loads, then unmute. The last mute to end its wait sets `audioContext` to
`undefined` (`main.ts:58`) over the context of the last unmute; every handler of an unmute then
throws, and the page is left with neither interval nor worklet.

## Runs

| Run | Shows |
|---|---|
| `kernel_sched` | sleeps, futexes with timeouts, yields, spawns, exits, with time passing inside handlers: `ContextIsOwn`, `PriorityRespected`, `SlotArmed`, `NoOversleep`, `AccountingFits`, `EarlyWakesAreFutexWakes`, `ImplementsDispatcher` |
| `kernel_dev` | every device wait, the handler in steps: `WaitersWillWake`, `InputBufferPinned`, and `DeviceWaitsEnd` under fairness |
| `semaphore` | `NoLostWakeup`, and `UnitsAreTaken` under fairness |
| `fifo` | `NoSlotRace`, `ImplementsQueue`, and `CallsEnd` under fairness |
| `heap` | `ListTilesHeap`, `Coalesced`, `FailsOnlyWhenFull`, `ImplementsMemory` |
| `machine` | `TimeConserved`, `TimerExact`, `NoInterruptMissed`, `NeverFarAhead`, `EventsAdvance`, `DmaDelivers`, `ModelsAreDrawn`, `VoicePlaysSound`, `EnvelopeMoves` |
| `cpu` | `ProgramComputes`, `CompressedIsExpansion`, `FetchFollowsMemory`, `LutIsExact`, `ScoreFits` |
| `traps` | `RegistersKept`, `ScIsAtomic` |
| `cartridge` | `TreeIsRead` (`FilesAreFound`, `FsckSeesTree`), `ProgramReady` |
| `web` | clicks at any time: `RingInOrder` and `OneSource` until a mute overtakes another click, and `FramesGoOn` under fairness |
| `machine_stall`, `machine_identity` | two [disagreements](#where-code-and-comments-disagree) |

`tlc -config MCKernelSched.cfg MCKernel`, and so on with the module and configuration that
`PROJECT.json` gives for each run.

Deadlock is not checked where the system may stop: when MTIME has reached its bound
(`kernel_*` but `kernel_dev`), when every thread waits for a post nobody makes (`semaphore`),
when a program has ended (`machine*`, `cpu`, `cartridge`). It is checked in `kernel_dev`, `traps`,
`fifo` (which may only stop when every thread is done or asleep) and `heap`.

## Fairness

- `Kernel!FairSpec`: the handler makes progress, because interrupts are on in user mode and
  in the idle task (`switch_to_task` sets MPIE); a frame ends again and again; a transfer or
  an exchange of bytes that was started completes. Nothing is assumed of user tasks.
- `Semaphore!SFairSpec`: a thread that is inside a call, or about to return, goes on: the
  kernel shares the core by time slices among equal priorities, and a thread of higher
  priority does not spin in these functions.
- `FrontEnd!FairSpec`: intervals and animation frames of a visible page, messages, audio
  threads, module loads and suspensions all go on. Nothing is assumed of the user.
- `MpmcFifo!FairSpec`: the same for threads of equal priority, and a claim that is retried
  again and again succeeds (strong fairness), which is what LR/SC gives to the loop of a weak
  compare-and-exchange. Across priorities `CallsEnd` is false: `do_push` spins on the slot of
  a preempted thread (`fifo.rs:71`), and strict priority never lets that one run.

## Proofs

All by `tlapm`, for every value of the constants allowed by the named `ASSUME`s.

- **`KernelProofs`**: `TypeOK`, `CurrentCanRun`, `ContextIsOwn`, `PriorityRespected`,
  `WaitersWillWake`, `InputBufferPinned`, for any number of slots, priorities, addresses and
  durations. None is inductive alone. `IInv` adds that the idle task keeps the lowest
  priority and unpushed slots are dead (a spawn could overwrite a live task), that the clock
  is never behind `last_task_change` (a charge would be negative), and that once the handler
  has passed a device whose bit it read nobody waits for that device (its acknowledgement
  could discard a wanted interrupt). `ScheduleLemma` says what `schedule()` guarantees for
  any vector its callers pass; each action has a lemma of its own.
  `SlotArmed` and `NoOversleep` are inductive beside it (`TimerInv`): `ScheduleTimingLemma`
  says what `schedule()` has armed the timer for when it returns. `EarlyWakesAreFutexWakes` is
  an action property. The refinement of `Dispatcher` maps each step of the kernel to one of the
  abstract scheduler or a stutter; it needs that dead slots have lost their priority.
  `AccountingFits` is about a sum over all tasks: `Accounted` says that partial sums exist, a
  charge moves all of those behind the task by the same amount, and `TotLemma` that the
  recursive function `Tot` is these sums.
- **`MpmcFifoProofs`**: `NoSlotRace` and the refinement of `BoundedQueue`, for any number of
  threads, slots and items and any start of the indices. `Cells` says that none is
  lost: each is in a semaphore, in the hands of a thread or between the indices. `Owners` says
  of a thread that has claimed a position that no other has claimed it or the slot's next turn,
  and what the slot's sequence number is; `SeenIsTrue` that what a thread saw of a slot stays
  true while the index has not moved. For the refinement, the queue holds the positions between
  the indices. Both theorems have the hypothesis `[]NotLapped`: between a thread's look at an
  index and its compare-and-exchange, the others claim fewer than `W` positions. With indices
  of 32 bits that is four thousand million calls during one preemption; without it the
  exchange succeeds on an index that only looks the same, and the code has no other guard.
  The module ends with proofs about `Semaphore` by itself: `STypeOK`, `Conserved`,
  `WaitingBounds` and `NoLostWakeup`, for any number of threads and any initial value. `SInv`
  adds that a guess of `try_wait` is positive and that `waiting` counts exactly the threads
  between its increment and its decrement; the lemmas say how one move changes the count of
  threads at a place.
- **`HeapProofs`**: `TypeOK`, `ListTilesHeap`, `BlocksApart`, `UsedIsLive` and the refinement
  of `Memory`, for any heap, header size and alignment. `Sound` (the list tiles the heap, in
  order) is kept by a split and by each merge, `Owned` (used blocks are the allocations') and
  `Scanning` (the scan stands on a block) complete `IInv`. `Coalesced` is proved from `Merged`,
  which excepts the block that `free` is merging; `FailsOnlyWhenFull` from `PassedOver`: the
  blocks behind the scan are used or too small, and nothing changes while it runs. Payloads
  are aligned because every block starts at a multiple of `ALIGN`, which a split keeps since
  the header's size is one, as the code asserts.
- **`DecoderProofs`**: `TypeOK`, `LutIsExact`, `ScoreFits` and the refinement of
  `InstructionMemory`, for any memory map, page length, cache size, bias and stores. `IInv` adds
  that what is decoded at a place is made of halfwords that the place and the one behind it have
  held since the last FENCE.I (`CodeSeen`), which an eviction and a new page keep because memory
  is always among what was seen (`MemorySeen`), and that after `n` fetches in a frame no score
  exceeds what a new page and `n` fetches give, which halving at the end of a frame restores.
- **`TrapHandlerProofs`**: `RegistersKept` and `ScIsAtomic`, for any tasks, stacks, programs and
  values in the registers. `ContextInv` says of the tasks that do not run what `RegistersKept`
  says of the one that does: each is parked where it is expected, with a frame that meets what
  it expects. Inside a trap the frame of the caller does not, until its registers are saved at
  the end, so the lemmas carry a set of tasks whose frames do (`Good`): one for each of
  `schedule`'s parts, for a change of states, a new task, the entry and `mret`, and one for each
  action. For `ScIsAtomic`, `ReservationInv` adds that the word reserved is not one that the
  transfer is yet to write.
- **`MachineProofs`**: `TimeConserved`, `TimerExact`, `NoInterruptMissed`, `DmaDelivers`,
  `EnvelopeMoves`, `NeverFarAhead` and `EventsAdvance`, for any programs, frame lengths, sizes of
  a FIFO and costs in the proportions below. A step is a chain of a dozen functions of the whole
  machine, so the invariant is a predicate of a machine and a date, `Good(s, c)`:
  `c` is the date that the processor has come to, which is later than the clock while
  `handle_events` runs. Its parts are one for each device and two for the rest: what `MTIME` has
  counted and the timer's line (`TimerKept`, `TimerArmed`), samples (`SpuKept`), the budget of
  the GPU and its frames (`GpuKept`), the byte clock (`InputKept`), a transfer and its interrupt
  (`DmaKept`), no interrupt that should have been taken (`IrqSafe`: after CSRRW, none that a
  change of a line has met), and `Planned`: the first
  event is no later than any device's. `Keeps` names the fields a function changes and
  `OthersKept` gives all parts but one from it, so that each function is argued about once, for
  the device it belongs to. The devices' loops (commands, bytes, samples) are recursive
  functions, and what they keep is proved by induction over their turns.
  `TimerExact` needs that the timer's next event is no later than the cycle at which MTIME
  reaches MTIMECMP (`TimerArmed`); `DmaDelivers` that a buffer's words are behind those that the
  target has and before those still at the source (`MoveLemma`). `EnvelopeMoves` is about every
  configuration of a voice and every level: `ParamsLemma` bounds the steps of a phase by the
  widths of the register's fields (an attack's are 1 to 14 336, a release's -16 384 to -8), and
  `AttackRises` and `ReleaseFalls` follow a step through the shift, the wrap to 16 bits and the
  clamp; the shift rounds down, so the product of -8 and the lowest level is still -1.
  `SamplesAreQueued` states the first part of `VoicePlaysSound`, `QueueFollows`, for any sound,
  pitch and sizes: the queue is what has been decoded and not played. `push` drops a sample when
  the queue is full; `SoundKept` bounds the queue by three more than the decoder keeps ready, so
  the four samples of a word always fit (`DecodeWordLine`), and `EndAppended` and `EndOfEnd` say
  what an append and a removal make of the end of a sequence.
  `NeverFarAhead` and `EventsAdvance` rest on a second invariant, `DatesInv`, over the first:
  some device's next event is the first one (`Attained`); the clock passes it by less than an instruction (`Timely`); the
  GPU, whose delay is the rest of a frame, has one (`HasFrame`); and `Registers`, needed because
  a store to LEN plans the first run from the date of the last, which may be a word behind.
  `Onward` says of an operation that whoever runs plans its next event for no earlier than the
  clock, and `Done` that a device which runs when due is not due again; `handle_events` is then
  five of those in a row (`AllPast`).
- **`CartridgeProofs`**: `ProgramReady`, for any ELF files, directory, memories and alignment.
  `IInv` says of the segments that the tool has taken that their bytes are in ROM, but those
  that read as blank (`Held`), and stay or have an operation of the script (`Placed`), and of
  the operations executed that they have had their effect (`Filled`). A byte in its place stays
  there when the images overlap, because `copy_data` only takes blank ones; the effect of an
  operation lasts because two segments that are loaded are apart and RAM is apart from ROM.
- **`FrontEndProofs`**: `TypeOK`, `OneSource` and `RingInOrder`, for rings, frames, demands and
  thresholds of any size and any number of clicks. `ClickInv` says that the page is in one of
  six stages: silent, loading the worklet, playing, muting, muting with an unmute come
  meanwhile, or left with that unmute; each fixes the button's variables, the handlers that
  wait, the messages to the one context that has any and the only node there is. `OneSource`
  follows, since a settled page is silent or playing. `ServiceInv` is about the ring while it
  plays: the samples between the indices are those that were made and not heard, in order;
  those being written lie behind the write index; `process` has looked at a level that is no
  higher than the present one; and what is in the ring, with the frames asked for, fits
  (`Demand`): a worklet asks on the strength of a level that may be stale, so what came since
  it looked (`Unseen`) has to be answered for by a request of before (`Demand` bounds the sum).
  How many requests there are depends on the past: one whose answer is still on its way when
  the page is muted is answered into the ring of the next unmute. `RequestsBounded` is that
  each unmute leaves one more at the most.

  `RingStaysInOrder` has the hypotheses `RoomFor(K)` and `[]FewRequests(K)`: the ring holds what
  is left when a worklet asks and `K` + 1 frames, and fewer than `K` are asked for whenever
  a worklet starts. With the code's numbers (6 frames in the ring, less than 1.5 left) `K` is
  3, for any number of clicks. `RingInOrderForFewClicks` needs no hypothesis on the frames and
  covers four clicks, however long messages and animation frames take; with more clicks it takes
  three requests that are older than a whole mute to leave the theorem's reach.
  Clicks come at any time. `overtaken` never becomes false again, so the invariant of `OneSource`
  is `overtaken` or the six stages: every step of a page that no mute has overtaken is argued
  about, and no hypothesis on the user is left. What the property says nothing about is what
  [the page](#the-web-page) shows to go wrong there.

**Assumptions** are the named `ASSUME`s of the modules: that HZ, sizes and costs are positive,
that ELF segments are records of numbers and bytes and do not overlap, that the linker scripts
leave the kernel's RAM alone, that a program only stores to registers the SPU has, configurations
of the register's fields and levels that are not negative (`set_level` takes any 16 bits,
`spu.rs:243`; a negative level is left in the first step), that the header's size is a multiple
of the alignment. `MachineAssumption` states that the queue of samples has room for a word's
beside those kept ready, and the proportions that the dates need, which the code's numbers have by far: the dividers of the timer and of the audio
(32 and 512) are below a second's cycles (22.6 million); a word of the cartridge (20) costs no
more than the delays of a transfer (32 and 128, `dma.rs`); an instruction, of a few cycles and at
the most 10 000 (`cpu.rs:857`), is shorter than a frame (752 640) and, with the longest command
(22 579), than a second. Without the second of these a transfer could plan its next run for
before it ran last. TLC evaluates each of them on its instance.

**Induction.** The theorems of the library that take a predicate as a parameter cannot be used
here, and neither can `RECURSIVE` operators or folds. Induction over a number can: the proofs
take the least counterexample (`WFMin` with `NatLessThanWellFounded`), and a recursive function
on `0 .. k` may be unfolded once that argument has shown that it exists.

**Only model-checked**: of the machine, `ModelsAreDrawn` and `VoicePlaysSound` (but for
`QueueFollows`: which samples are decoded); `TreeIsRead`; `ProgramComputes` and
`CompressedIsExpansion`. What `Nrad`, `Nr3d` and `CartFs` compute is defined by folds and
`RECURSIVE` operators, and the tables of instructions are finite: both are TLC's.
Liveness under fairness is TLC's too.

## Where code and comments disagree

| Run | Code | Comment |
|---|---|---|
| `machine_stall` | a transfer of cheap commands fills the FIFO before the GPU executes one | `assert!(duration > 0)` (`src/dma.rs:127`) |
| `machine_identity` | a reset to the identity keeps the cached matrix (`gpu.rs:253`) | "Invalidate the LUT entry" (`gpu.rs:88`, `:268`) |

Seen while modelling and not given a run: a task spawned into a dead slot does not preempt its
creator (`scheduler.rs:97-102`), though higher values mean higher priority (`:388`), which
`PriorityRespected` excepts; a mute during an unmute loses the interval it started
(`main.ts:104`), though there is one way of synchronizing at a time (`main.ts:33`); CSRRW lets
an interrupt through without looking at it (`src/cpu.rs:775-781`), unlike its neighbours; a futex
wait of 0 ticks returns at once (`main.rs:257-261`), though 0 is said to be infinite
(`nr32-common/src/syscall.rs:60`), and a comment there allows wake-ups for no reason; REM,
MULHSU, CSRRSI, EBREAK, most AMOs, and C.MV and C.ADD without a destination, are unknown to a
processor that is said to have them (`src/cpu.rs:1`: RV32IMAC); nothing sets `in_progress`, so
two tasks' transfers are accepted at once though a comment says one (`nr32-rt/src/dma.rs:7` and `:36`); the block
a sound loops to may be encoded with a filter though a comment says that none can be used
where a sound restarts (`audio.rs:404` and `:407`), so that `machine` plays a sound that
loops to its first block.

Modelled as they are, without a comment to hold against them: an envelope never leaves
Attack by itself, so Decay and Sustain are never entered (`spu.rs:470`); a restarted voice
first plays the samples left in its queue (`spu.rs:298`); the main volume is stored and not
used; a model smaller than half a unit is drawn 65536 times too large (`model.rs:383`); the
tool accepts a heap of exactly the stack's size, in which the kernel cannot boot
(`cart.rs:132`); `mstatus_mpie_set` writes bit 7 of `mie`, the timer's enable bit, instead
of `mstatus` (`cpu.rs:100`).

## What is not modelled

Wording, logging and the debug console; the costs of instructions and of the instruction cache
(`Machine` takes any of two); privilege modes; rasterisation; volumes,
resampling filter and mixing; normals and the choice of a model's scale; the sound and score
readers of the tool; fixed-point mathematics of the library. A user task that passes `!0` as
a futex address, and LEN written alone by something else than the driver, are outside the
inputs considered. The command FIFO is written by one thread at a time: `send_to_gpu` looks
for room and then writes, and two threads, or a thread and the DMA, would lose words.

## Plan

The player of scores, if it turns out to keep state across calls.
